-------------------------- MODULE M4aPlayer_proofs --------------------------
(***************************************************************************)
(* Proofs about the music players, for any number of players, tracks and   *)
(* channels, any songs, and any set of functions the program calls.        *)
(***************************************************************************)
EXTENDS M4aPlayer, FiniteSets, FiniteSetTheorems, TLAPS

(***************************************************************************)
(* The inductive invariant.                                                *)
(***************************************************************************)

\* SoundMain interrupts calls on the last opened player only: it is the first
\* SoundMain comes to, so that its lock keeps SoundMain from all players.  On
\* another player, a player opened later may take a channel that TrackStop holds.
LastOnly == Preempt \subseteq {NumPlayers}

\* The places of TrackStop and of the loop around it, and all places of a call
\* at which the program holds the player's lock.
Stopping == {"stop", "silence", "disown", "follow", "forget", "set"}
Holding  == Stopping \cup {"unlock"}

\* The places of MPlayMain's work on a player, and those at one of its tracks.
OnTrack == {"fade", "fadewalk", "track", "tickwalk", "cmd", "finewalk", "vol", "volwalk"}
Bodies  == OnTrack \cup {"body", "tempo"}

\* What a call knows of its player and its arguments at each place; SoundMain
\* runs only while no call is under way or the call's player may be interrupted.
CallInv ==
    /\ pc \in Holding \cup {"idle", "look", "look2", "lock", "imm", "immclear"}
    /\ cs \in Nat
    /\ pc # "idle" => cp \in Players
    /\ pc \in {"look", "look2"} => call = "start"
    /\ pc \in {"look", "look2", "lock"} /\ call = "start" =>
        cs \in Songs /\ ct \in Tracks \cup {0} /\ (ct # 0 => Owner[ct] = cp)
    /\ pc = "lock" /\ call \in {"fadeout", "fadetemp", "fadein"} => cs \in Speeds
    /\ pc \in Stopping => call \in {"start", "stop"} /\ ct \in Tracks /\ Owner[ct] = cp
    /\ pc \in Stopping /\ call = "start" => cs \in Tracks \cup {0} /\ (cs # 0 => Owner[cs] = cp)
    /\ pc \in {"silence", "disown", "follow"} => r4 \in Channels
    /\ pc \in {"imm", "immclear"} => cp \notin Preempt /\ ct \in Tracks /\ Owner[ct] = cp
    /\ hpc = "idle" \/ pc = "idle" \/ cp \in Preempt

\* What SoundMain knows at each place.
MainInv ==
    /\ hpc \in Bodies \cup {"idle", "enter", "mix"} /\ alive \in 0 .. 1
    /\ hpc \in Bodies \cup {"enter"} => hp \in Players
    /\ hpc \in OnTrack => ht \in Tracks /\ Owner[ht] = hp
    /\ hpc \in OnTrack \cup {"tempo"} => pause[hp] = 0

\* Who holds the lock of a player.
CallHolds(p) == pc \in Holding /\ cp = p
MainHolds(p) == (hpc = "enter" /\ p > hp) \/ (hpc \in Bodies /\ p >= hp)

LockInv ==
    \A p \in Players :
        /\ lock[p] = 1 <=> CallHolds(p) \/ MainHolds(p)
        /\ ~(CallHolds(p) /\ MainHolds(p))

\* A fade has frames to count and volume left, except while SoundMain ends it.
FadeInv ==
    \A p \in Players : oi[p] # 0 =>
        oc[p] > 0 /\ (ov[p] > 0 \/ (hp = p /\ hpc \in {"fade", "fadewalk"}))

IInv == TypeOK /\ CallInv /\ MainInv /\ LockInv /\ FadeInv

\* What is known of the flags of a track while SoundMain is at it, and of those
\* that it has passed.
FlagInv ==
    /\ hpc \in {"tickwalk", "cmd", "finewalk"} => alive = 1
    /\ hpc \in {"cmd", "finewalk"} => flags[ht] = "exist"
    /\ hpc \in {"fadewalk", "tickwalk", "volwalk"} => flags[ht] # "none"
    /\ hpc = "track" /\ alive = 0 =>
        \A t \in Tracks : Owner[t] = hp /\ t < ht => flags[t] = "none"
    /\ hpc \in {"fade", "fadewalk"} /\ ~FadesTemp(ov[hp]) =>
        \A t \in Tracks : Owner[t] = hp /\ t < ht => flags[t] = "none"

Gone(p) == \A t \in Tracks : Owner[t] = p => flags[t] = "none"

\* The program starts a song on p, SoundMain is in a tick of it, or ends it.
Starting(p) == pc \in Stopping /\ call = "start" /\ cp = p
Ticking(p)  == hp = p /\ (hpc \in {"tickwalk", "cmd", "finewalk"} \/ (hpc = "track" /\ alive = 1))
Ending(p)   == hp = p /\ hpc \in {"fade", "fadewalk"} /\ ~FadesTemp(ov[hp])

\* A player that was not stepped since its song was started has its first track
\* started, or has no tracks left.
SongInv ==
    \A p \in Preempt :
        \/ mask[p] = 1 \/ flags[FirstTrack(p)] = "start" \/ Gone(p)
        \/ Starting(p) \/ Ticking(p) \/ Ending(p)

\* What MPlayStart has seen is still so when it takes the lock.
LookInv ==
    /\ pc \in Stopping /\ call = "start" /\ cs # 0 /\ FirstTrack(cp) < ct =>
        flags[FirstTrack(cp)] = "start"
    /\ pc \in Stopping /\ call = "start" /\ cs = 0 =>
        \A t \in Tracks : Owner[t] = cp /\ t < ct => flags[t] = "none"
    /\ pc = "look2" /\ cp \in Guarded =>
        song[cp] <= cs \/ flags[FirstTrack(cp)] # "start"
    /\ pc = "lock" /\ call = "start" /\ cp \in Guarded =>
        \/ song[cp] <= cs
        \/ /\ flags[FirstTrack(cp)] # "start"
           /\ \/ pause[cp] = 1
              \/ mask[cp] = 0 /\ cp \notin Preempt
              \/ mask[cp] = 0 /\ Gone(cp) /\ ~Ticking(cp)

PInv == IInv /\ FlagInv /\ SongInv /\ LookInv

\* The channels that point at track t, and the first of them: while a TrackStop
\* goes through the list this is the one it has come to.
Of(t) == {c \in Channels : track[c] = t}

Walking(t) ==
    \/ t = ct /\ pc \in {"silence", "disown", "follow", "forget"}
    \/ t = ht /\ hpc = "fadewalk"

ListHead(t) ==
    IF ~Walking(t) THEN chan[t]
    ELSE IF hpc = "fadewalk" THEN hc
    ELSE IF pc = "follow" THEN np[r4]
    ELSE IF pc = "forget" THEN 0 ELSE r4

\* The channels S are a list with head h and links N and P: linked both ways from
\* its head, and without a cycle, so that every set of its channels has one whose
\* predecessor is outside the set.
Chain(h, S, N, P) ==
    /\ h # 0 => h \in S /\ P[h] \notin S
    /\ \A c \in S : c # h => P[c] \in S /\ N[P[c]] = c
    /\ \A c \in S : N[c] # 0 => N[c] \in S /\ P[N[c]] = c
    /\ \A X \in SUBSET S : X # {} => \E c \in X : P[c] \notin X

\* The channels of t are a list, and nothing is before its head.
List(t) ==
    /\ Chain(ListHead(t), Of(t), np, pp)
    /\ ~Walking(t) /\ chan[t] # 0 => pp[chan[t]] = 0

ListInv == \A t \in Tracks : List(t)

\* Where the walks over lists are, and which lists are known to be empty.
WalkInv ==
    /\ \A t \in Tracks : flags[t] # "exist" => chan[t] = 0
    /\ pc = "immclear" => flags[ct] = "start"
    /\ pc = "set" => chan[ct] = 0
    /\ hpc \in {"tickwalk", "volwalk"} /\ hc # 0 => track[hc] = ht
    /\ hpc = "finewalk" => hc = chan[ht]
    /\ hpc \in {"fade", "fadewalk"} =>
        \A t \in Tracks : Owner[t] = hp /\ t < ht => chan[t] = 0

\* The tracks of a paused player have no list, but for those m4aMPlayStop has yet
\* to come to.
PauseInv ==
    \A p \in Players : pause[p] = 1 =>
        \A t \in Tracks : Owner[t] = p =>
            chan[t] = 0 \/ (pc \in Stopping /\ call = "stop" /\ cp = p /\ t >= ct)

LInv == PInv /\ ListInv /\ WalkInv /\ PauseInv

-----------------------------------------------------------------------------
(***************************************************************************)
(* Counting: induction over an interval, for a set instead of a predicate, *)
(* and the functions that recursion over an interval defines.              *)
(***************************************************************************)

\* A set that holds 0 and with each number its successor holds the interval.
LEMMA Counting ==
  ASSUME NEW N \in Nat, NEW S, 0 \in S,
         \A n \in 0 .. N - 1 : n \in S => n + 1 \in S
  PROVE  \A n \in 0 .. N : n \in S
<1> SUFFICES ASSUME NEW k \in 0 .. N, k \notin S PROVE FALSE
  OBVIOUS
<1> DEFINE D == {n \in 0 .. k : n \notin S}
           f == [n \in D |-> n - 1]
<1>1. D \subseteq 0 .. k /\ k \in D
  OBVIOUS
<1>2. IsFiniteSet(D)
  <2>1. IsFiniteSet(0 .. k)
    BY FS_Interval, 0 \in Int, k \in Int
  <2> HIDE DEF D
  <2>. QED
    BY <1>1, <2>1, FS_Subset
<1>3. /\ IsFiniteSet(D \ {k})
      /\ Cardinality(D \ {k}) = Cardinality(D) - 1
  BY <1>1, <1>2, FS_RemoveElement
<1>4. \A n \in D : n - 1 \in D \ {k}
  <2> TAKE n \in D
  <2>1. n # 0 /\ n - 1 \in 0 .. N - 1 /\ (n - 1) + 1 = n
    OBVIOUS
  <2>2. n - 1 \notin S
    BY <2>1
  <2>. QED
    BY <2>1, <2>2
<1>5. f \in [D -> D \ {k}]
  BY <1>4
<1>6. Cardinality(D) \in Nat
  BY <1>2, FS_CardinalityType
<1>7. PICK x, y \in D : x # y /\ f[x] = f[y]
  <2> HIDE DEF D, f
  <2>. QED
    BY <1>2, <1>3, <1>5, <1>6, FS_PigeonHole
<1>. QED
  BY <1>7

\* f is defined on 0 .. N by its value a at 0 and the step G.
IsRecursive(f, N, V, a, G) ==
    f \in [0 .. N -> V] /\ f[0] = a /\ \A n \in 1 .. N : f[n] = G[n][f[n - 1]]

\* Recursion over an interval defines a function.
LEMMA RecursiveFunction ==
  ASSUME NEW N \in Nat, NEW V, NEW a \in V, NEW G \in [1 .. N -> [V -> V]]
  PROVE  \E f : IsRecursive(f, N, V, a, G)
<1> DEFINE Defines(m, f) == f[0] = a /\ \A n \in 1 .. m : f[n] = G[n][f[n - 1]]
           S == {m \in 0 .. N : \E f \in [0 .. m -> V] : Defines(m, f)}
<1>1. 0 \in S
  <2>1. [n \in 0 .. 0 |-> a] \in [0 .. 0 -> V] /\ Defines(0, [n \in 0 .. 0 |-> a])
    OBVIOUS
  <2> HIDE DEF Defines
  <2>. QED
    BY <2>1
<1>2. ASSUME NEW m \in 0 .. N - 1, m \in S PROVE m + 1 \in S
  <2>1. PICK f \in [0 .. m -> V] : Defines(m, f)
    BY <1>2
  <2> DEFINE g == [n \in 0 .. m + 1 |-> IF n = m + 1 THEN G[m + 1][f[m]] ELSE f[n]]
  <2>2. G[m + 1][f[m]] \in V
    BY <1>2
  <2>3. g \in [0 .. m + 1 -> V]
    BY <2>2
  <2>4. ASSUME NEW n \in 1 .. m + 1 PROVE g[n] = G[n][g[n - 1]]
    <3>1. CASE n = m + 1
      BY <3>1
    <3>2. CASE n \in 1 .. m
      <4>1. g[n] = f[n] /\ g[n - 1] = f[n - 1]
        BY <3>2
      <4>. QED
        BY <2>1, <3>2, <4>1
    <3>. QED
      BY <3>1, <3>2
  <2>5. g[0] = a
    BY <2>1
  <2>6. Defines(m + 1, g)
    BY <2>4, <2>5
  <2>7. m + 1 \in 0 .. N
    OBVIOUS
  <2> HIDE DEF Defines, g
  <2>. QED
    BY <2>3, <2>6, <2>7
<1>3. \A n \in 0 .. N : n \in S
  <2> HIDE DEF S
  <2>. QED
    BY <1>1, <1>2, Counting
<1>4. \E f \in [0 .. N -> V] : Defines(N, f)
  BY <1>3
<1>. QED
  BY <1>4 DEF IsRecursive

-----------------------------------------------------------------------------
(***************************************************************************)
(* Players and their tracks.                                               *)
(***************************************************************************)

\* Players and tracks are numbers from 1 on.
LEMMA Numbers ==
  /\ \A p \in Players : p \in Nat /\ p > 0 /\ p <= NumPlayers
  /\ \A t \in Tracks : t \in Nat /\ t > 0
  /\ \A c \in Channels : c \in Nat /\ c > 0
  BY SizeAssumption DEF Players, Tracks, Channels

\* The tracks of the players follow each other in the order of the players.
LEMMA OwnerOrder ==
  ASSUME NEW t \in Tracks, NEW u \in Tracks, t <= u PROVE Owner[t] <= Owner[u]
<1> DEFINE S == {n \in Nat : t + n \in Tracks => Owner[t] <= Owner[t + n]}
<1> USE SizeAssumption DEF Tracks, Players
<1>1. 0 \in S
  OBVIOUS
<1>2. \A n \in 0 .. (u - t) - 1 : n \in S => n + 1 \in S
  <2> TAKE n \in 0 .. (u - t) - 1
  <2> HAVE n \in S
  <2>1. t + n \in Tracks \ {NumTracks} /\ t + n + 1 = t + (n + 1)
    OBVIOUS
  <2>2. Owner[t + n + 1] \in {Owner[t + n], Owner[t + n] + 1}
    BY <2>1
  <2>. QED
    BY <2>1, <2>2
<1>3. u - t \in Nat /\ u - t \in 0 .. u - t
  OBVIOUS
<1>4. u - t \in S
  <2> HIDE DEF S
  <2>. QED
    BY <1>1, <1>2, <1>3, Counting
<1>. QED
  BY <1>4

\* Every player has a first track, and FirstTrack finds it.
LEMMA FirstTracks ==
  ASSUME NEW p \in Players
  PROVE  /\ FirstTrack(p) \in Tracks /\ Owner[FirstTrack(p)] = p
         /\ \A t \in Tracks : Owner[t] = p => FirstTrack(p) <= t
<1> USE SizeAssumption DEF Tracks, Players
<1> DEFINE First(t) == Owner[t] = p /\ (t = 1 \/ Owner[t - 1] # p)
<1>1. \E t \in Tracks : First(t)
  <2> SUFFICES ASSUME \A t \in Tracks : ~First(t) PROVE FALSE
    OBVIOUS
  <2> DEFINE S == {n \in 0 .. NumTracks - 1 : Owner[n + 1] < p}
  <2>1. 0 \in S
    OBVIOUS
  <2>2. \A n \in 0 .. (NumTracks - 1) - 1 : n \in S => n + 1 \in S
    <3> TAKE n \in 0 .. (NumTracks - 1) - 1
    <3> HAVE n \in S
    <3>1. n + 1 \in Tracks \ {NumTracks} /\ n + 2 \in Tracks /\ (n + 1) + 1 = n + 2
          /\ (n + 2) - 1 = n + 1
      OBVIOUS
    <3>2. Owner[n + 2] \in {Owner[n + 1], Owner[n + 1] + 1} /\ Owner[n + 2] # p
      BY <3>1
    <3>. QED
      BY <3>1, <3>2
  <2>3. NumTracks - 1 \in Nat /\ NumTracks - 1 \in 0 .. NumTracks - 1
    OBVIOUS
  <2>4. NumTracks - 1 \in S
    <3> HIDE DEF S
    <3>. QED
      BY <2>1, <2>2, <2>3, Counting
  <2>. QED
    BY <2>4
<1>2. FirstTrack(p) \in Tracks /\ First(FirstTrack(p))
  BY <1>1 DEF FirstTrack
<1>3. ASSUME NEW t \in Tracks, Owner[t] = p, t < FirstTrack(p) PROVE FALSE
  <2>1. FirstTrack(p) - 1 \in Tracks /\ FirstTrack(p) # 1
    BY <1>2, <1>3
  <2>2. Owner[t] <= Owner[FirstTrack(p) - 1]
    BY <1>2, <1>3, <2>1, OwnerOrder
  <2>3. Owner[FirstTrack(p) - 1] <= Owner[FirstTrack(p)]
    BY <1>2, <2>1, OwnerOrder
  <2>. QED
    BY <1>2, <1>3, <2>1, <2>2, <2>3
<1>. QED
  BY <1>2, <1>3

\* NextTrack goes through the tracks of a player in order, to the last one.
LEMMA NextTracks ==
  ASSUME NEW t \in Tracks
  PROVE  /\ NextTrack(t) # 0 =>
              NextTrack(t) = t + 1 /\ NextTrack(t) \in Tracks /\ Owner[NextTrack(t)] = Owner[t]
         /\ NextTrack(t) = 0 => \A u \in Tracks : Owner[u] = Owner[t] => u <= t
<1> USE SizeAssumption DEF Tracks, Players, NextTrack
<1>1. ASSUME NextTrack(t) = 0, NEW u \in Tracks, Owner[u] = Owner[t], t < u PROVE FALSE
  <2>1. t + 1 \in Tracks /\ t \in Tracks \ {NumTracks} /\ t + 1 <= u
    BY <1>1
  <2>2. Owner[t + 1] = Owner[t] + 1
    BY <1>1, <2>1
  <2>3. Owner[t + 1] <= Owner[u]
    BY <1>1, <2>1, OwnerOrder
  <2>. QED
    BY <1>1, <2>1, <2>2, <2>3
<1>. QED
  BY <1>1

-----------------------------------------------------------------------------
(***************************************************************************)
(* The search for a channel.                                               *)
(***************************************************************************)

\* The candidate after channel c, from the one before it.
Start(t, p) == [chan |-> 0, prio |-> p, track |-> t, stopping |-> FALSE, free |-> FALSE]

Compared(c, b, pr) ==
    IF b.free THEN b
    ELSE IF status[c] = "off" THEN [b EXCEPT !.chan = c, !.free = TRUE]
    ELSE IF Candidate(c, b, pr)
         THEN [b EXCEPT !.chan = c, !.prio = pr[c], !.track = track[c],
                        !.stopping = (status[c] = "stop") \/ b.stopping]
         ELSE b

Candidates ==
    [chan : Direct \cup {0}, prio : Nat, track : Nat, stopping : BOOLEAN, free : BOOLEAN]

\* One comparison yields a candidate again.
LEMMA ComparedType ==
  ASSUME NEW c \in Direct, NEW b \in Candidates, NEW pr, \A d \in Direct : pr[d] \in Nat, TypeOK
  PROVE  Compared(c, b, pr) \in Candidates
<1>1. track[c] \in Nat
  <2>1. c \in Channels
    BY SizeAssumption DEF Channels, Direct
  <2>2. track[c] \in Tracks \cup {0}
    BY <2>1 DEF TypeOK
  <2>. QED
    BY <2>2, SizeAssumption DEF Tracks
<1>2. pr[c] \in Nat
  OBVIOUS
<1>. QED
  BY <1>1, <1>2 DEF Compared, Candidates

\* DirectChoice compares the channels one after the other.
LEMMA Scanning ==
  ASSUME NEW t \in Tracks, NEW p \in Nat, NEW pr, \A d \in Direct : pr[d] \in Nat, TypeOK
  PROVE  \E f \in [0 .. NumDirect -> Candidates] :
            /\ DirectChoice(t, p, pr) = f[NumDirect].chan
            /\ f[0] = Start(t, p)
            /\ \A c \in Direct : f[c] = Compared(c, f[c - 1], pr)
<1> DEFINE G == [c \in 1 .. NumDirect |-> [b \in Candidates |-> Compared(c, b, pr)]]
           Scan(f) == [c \in 0 .. NumDirect |->
                          IF c = 0 THEN Start(t, p) ELSE Compared(c, f[c - 1], pr)]
           scan == CHOOSE f : f = Scan(f)
<1>1. NumDirect \in Nat /\ Direct = 1 .. NumDirect
  BY SizeAssumption DEF Direct
<1>2. Start(t, p) \in Candidates
  BY SizeAssumption DEF Start, Candidates, Tracks
<1>3. G \in [1 .. NumDirect -> [Candidates -> Candidates]]
  BY <1>1, ComparedType
<1>4. PICK f : IsRecursive(f, NumDirect, Candidates, Start(t, p), G)
  <2> HIDE DEF G
  <2>. QED
    BY <1>1, <1>2, <1>3, RecursiveFunction
<1>5. \A n \in 1 .. NumDirect : f[n] = Compared(n, f[n - 1], pr)
  <2> TAKE n \in 1 .. NumDirect
  <2>1. f[n - 1] \in Candidates
    BY <1>1, <1>4 DEF IsRecursive
  <2>. QED
    BY <1>4, <2>1 DEF IsRecursive
<1>6. f = Scan(f)
  BY <1>1, <1>4, <1>5 DEF IsRecursive
<1>7. scan = Scan(scan)
  <2> HIDE DEF Scan
  <2>. QED
    BY <1>6
<1>8. DirectChoice(t, p, pr) = scan[NumDirect].chan
  BY DEF DirectChoice, Start, Compared
<1>9. scan[0] = Start(t, p) /\ \A c \in Direct : scan[c] = Compared(c, scan[c - 1], pr)
  <2> HIDE DEF scan
  <2>. QED
    BY <1>1, <1>7
<1>10. scan \in [0 .. NumDirect -> Candidates]
  <2> HIDE DEF scan
  <2> DEFINE S == {n \in 0 .. NumDirect : scan[n] \in Candidates}
  <2>1. 0 \in S
    BY <1>1, <1>2, <1>9
  <2>2. \A n \in 0 .. NumDirect - 1 : n \in S => n + 1 \in S
    <3> TAKE n \in 0 .. NumDirect - 1
    <3> HAVE n \in S
    <3>1. n + 1 \in Direct /\ (n + 1) - 1 = n /\ n + 1 \in 0 .. NumDirect
      BY <1>1
    <3>2. scan[n + 1] = Compared(n + 1, scan[n], pr)
      BY <3>1, <1>9
    <3>. QED
      BY <3>1, <3>2, ComparedType
  <2>3. \A n \in 0 .. NumDirect : n \in S
    <3> HIDE DEF S
    <3>. QED
      BY <1>1, <2>1, <2>2, Counting
  <2>. QED
    BY <1>7, <2>3
<1>. QED
  <2> HIDE DEF scan
  <2>. QED
    BY <1>8, <1>9, <1>10

\* The channel the search finds is a direct sound channel or none.
LEMMA ChoiceType ==
  ASSUME NEW t \in Tracks, NEW p \in Nat, NEW pr, \A d \in Direct : pr[d] \in Nat, TypeOK
  PROVE  DirectChoice(t, p, pr) \in Direct \cup {0}
<1>1. PICK f \in [0 .. NumDirect -> Candidates] : DirectChoice(t, p, pr) = f[NumDirect].chan
  BY Scanning
<1>2. f[NumDirect] \in Candidates
  BY SizeAssumption
<1>. QED
  BY <1>1, <1>2 DEF Candidates

\* c may be displaced by a note of track t and priority p; c is less important
\* than d, which decides between channels that are both released or both held.
Yields(c, t, p, pr) == pr[c] < p \/ (pr[c] = p /\ track[c] >= t)

Below(c, d, pr) ==
    \/ pr[c] < pr[d]
    \/ pr[c] = pr[d] /\ track[c] > track[d]
    \/ pr[c] = pr[d] /\ track[c] = track[d] /\ c > d

\* b names channel c, with its priority and its track.
Names(b, c, pr) == b.chan = c /\ b.prio = pr[c] /\ b.track = track[c]

\* b is the candidate to have after comparing the first n channels.
BestOf(n, b, t, p, pr) ==
    /\ b.free =>
        /\ b.chan \in 1 .. n /\ status[b.chan] = "off"
        /\ \A d \in 1 .. n : status[d] = "off" => b.chan <= d
    /\ ~b.free => \A d \in 1 .. n : status[d] # "off"
    /\ ~b.free /\ b.stopping =>
        \E c \in 1 .. n :
            /\ Names(b, c, pr) /\ status[c] = "stop"
            /\ \A d \in 1 .. n : status[d] = "stop" => d = c \/ Below(c, d, pr)
    /\ ~b.free /\ ~b.stopping => \A d \in 1 .. n : status[d] # "stop"
    /\ ~b.free /\ ~b.stopping /\ b.chan = 0 =>
        b.prio = p /\ b.track = t /\ \A d \in 1 .. n : ~Yields(d, t, p, pr)
    /\ ~b.free /\ ~b.stopping /\ b.chan # 0 =>
        \E c \in 1 .. n :
            /\ Names(b, c, pr) /\ Yields(c, t, p, pr)
            /\ \A d \in 1 .. n : Yields(d, t, p, pr) => d = c \/ Below(c, d, pr)

\* A comparison keeps the candidate the best one.
LEMMA BestStep ==
  ASSUME NEW t \in Tracks, NEW p \in Nat, NEW pr, \A d \in Direct : pr[d] \in Nat, TypeOK,
         NEW c \in Direct, NEW b \in Candidates, BestOf(c - 1, b, t, p, pr)
  PROVE  BestOf(c, Compared(c, b, pr), t, p, pr)
<1> DEFINE n == Compared(c, b, pr)
<1>1. /\ c \in Nat /\ c > 0 /\ t \in Nat
      /\ \A d \in 1 .. c : d \in Direct /\ (d = c \/ d \in 1 .. c - 1)
      /\ 1 .. c - 1 \subseteq 1 .. c /\ c \in 1 .. c
  BY SizeAssumption DEF Direct, Tracks
<1>2. \A d \in 1 .. c : track[d] \in Nat /\ pr[d] \in Nat /\ status[d] \in {"off", "on", "stop"}
  <2> TAKE d \in 1 .. c
  <2>1. d \in Direct /\ d \in Channels
    BY <1>1, SizeAssumption DEF Direct, Channels
  <2>2. track[d] \in Tracks \cup {0} /\ status[d] \in {"off", "on", "stop"}
    BY <2>1 DEF TypeOK
  <2>. QED
    BY <2>1, <2>2, SizeAssumption DEF Tracks
<1>3. CASE b.free
  <2>1. n = b
    BY <1>3 DEF Compared
  <2>2. \A d \in 1 .. c : status[d] = "off" => b.chan <= d
    BY <1>1, <1>3 DEF BestOf
  <2>. QED
    BY <1>1, <1>3, <2>1, <2>2 DEF BestOf
<1>4. CASE ~b.free /\ status[c] = "off"
  <2>1. n.free /\ n.chan = c
    BY <1>4 DEF Compared, Candidates
  <2>2. \A d \in 1 .. c : status[d] = "off" => c <= d
    BY <1>1, <1>4 DEF BestOf
  <2>. QED
    BY <1>1, <1>4, <2>1, <2>2 DEF BestOf
<1>5. CASE ~b.free /\ status[c] # "off" /\ ~Candidate(c, b, pr)
  <2>1. n = b
    BY <1>5 DEF Compared
  <2>2. status[c] = "stop" => b.stopping
    BY <1>5 DEF Candidate
  <2>3. \A d \in 1 .. c : status[d] # "off"
    BY <1>1, <1>5 DEF BestOf
  <2>4. CASE b.stopping
    <3>1. PICK k \in 1 .. c - 1 :
            /\ Names(b, k, pr) /\ status[k] = "stop"
            /\ \A d \in 1 .. c - 1 : status[d] = "stop" => d = k \/ Below(k, d, pr)
      BY <1>5, <2>4 DEF BestOf
    <3>2. status[c] = "stop" => Below(k, c, pr)
      BY <1>1, <1>2, <1>5, <3>1, <2>4 DEF Candidate, LessImportant, Names, Below
    <3>3. \A d \in 1 .. c : status[d] = "stop" => d = k \/ Below(k, d, pr)
      BY <1>1, <3>1, <3>2
    <3>. QED
      BY <1>1, <1>5, <2>1, <2>3, <2>4, <3>1, <3>3 DEF BestOf
  <2>5. CASE ~b.stopping
    <3>1. status[c] = "on" /\ \A d \in 1 .. c : status[d] # "stop"
      BY <1>1, <1>2, <1>5, <2>2, <2>5 DEF BestOf
    <3>2. ~LessImportant(c, b, pr)
      BY <1>5, <2>5, <3>1 DEF Candidate
    <3>3. CASE b.chan = 0
      <4>1. ~Yields(c, t, p, pr)
        BY <1>5, <2>5, <3>2, <3>3 DEF BestOf, LessImportant, Yields
      <4>2. \A d \in 1 .. c : ~Yields(d, t, p, pr)
        BY <1>1, <1>5, <2>5, <3>3, <4>1 DEF BestOf
      <4>. QED
        BY <1>1, <1>5, <2>1, <2>3, <2>5, <3>1, <3>3, <4>2 DEF BestOf
    <3>4. CASE b.chan # 0
      <4>1. PICK k \in 1 .. c - 1 :
              /\ Names(b, k, pr) /\ Yields(k, t, p, pr)
              /\ \A d \in 1 .. c - 1 : Yields(d, t, p, pr) => d = k \/ Below(k, d, pr)
        BY <1>5, <2>5, <3>4 DEF BestOf
      <4>2. Below(k, c, pr)
        BY <1>1, <1>2, <3>2, <4>1 DEF LessImportant, Names, Below
      <4>3. \A d \in 1 .. c : Yields(d, t, p, pr) => d = k \/ Below(k, d, pr)
        BY <1>1, <4>1, <4>2
      <4>. QED
        BY <1>1, <1>5, <2>1, <2>3, <2>5, <3>1, <3>4, <4>1, <4>3 DEF BestOf
    <3>. QED
      BY <3>3, <3>4
  <2>. QED
    BY <2>4, <2>5
<1>6. CASE ~b.free /\ status[c] # "off" /\ Candidate(c, b, pr)
  <2>1. /\ ~n.free /\ Names(n, c, pr) /\ n.chan # 0
        /\ n.stopping <=> status[c] = "stop" \/ b.stopping
    <3>1. ~n.free /\ Names(n, c, pr) /\ n.chan # 0
      BY <1>1, <1>6 DEF Compared, Candidates, Names
    <3>2. n.stopping = ((status[c] = "stop") \/ b.stopping)
      BY <1>6 DEF Compared, Candidates
    <3>. QED
      BY <3>1, <3>2
  <2>2. \A d \in 1 .. c : status[d] # "off"
    BY <1>1, <1>6 DEF BestOf
  <2>3. b.stopping => status[c] = "stop"
    BY <1>1, <1>2, <1>6 DEF Candidate
  <2>4. CASE b.stopping
    <3>1. PICK k \in 1 .. c - 1 :
            /\ Names(b, k, pr) /\ status[k] = "stop"
            /\ \A d \in 1 .. c - 1 : status[d] = "stop" => d = k \/ Below(k, d, pr)
      BY <1>6, <2>4 DEF BestOf
    <3>2. Below(c, k, pr)
      BY <1>1, <1>2, <1>6, <2>3, <2>4, <3>1 DEF Candidate, LessImportant, Names, Below
    <3>3. \A d \in 1 .. c : status[d] = "stop" => d = c \/ Below(c, d, pr)
      BY <1>1, <1>2, <3>1, <3>2 DEF Below
    <3>. QED
      BY <1>1, <2>1, <2>2, <2>3, <2>4, <3>3 DEF BestOf
  <2>5. CASE ~b.stopping /\ status[c] = "stop"
    <3>1. \A d \in 1 .. c : status[d] = "stop" => d = c \/ Below(c, d, pr)
      BY <1>1, <1>6, <2>5 DEF BestOf
    <3>. QED
      BY <1>1, <2>1, <2>2, <2>5, <3>1 DEF BestOf
  <2>6. CASE ~b.stopping /\ status[c] # "stop"
    <3>1. LessImportant(c, b, pr)
      BY <1>6, <2>6 DEF Candidate
    <3>2. \A d \in 1 .. c : status[d] # "stop"
      BY <1>1, <1>6, <2>6 DEF BestOf
    <3>3. Yields(c, t, p, pr) /\ \A d \in 1 .. c : Yields(d, t, p, pr) => d = c \/ Below(c, d, pr)
      <4>1. CASE b.chan = 0
        BY <1>1, <1>2, <1>6, <2>6, <3>1, <4>1 DEF BestOf, LessImportant, Yields
      <4>2. CASE b.chan # 0
        <5>1. PICK k \in 1 .. c - 1 :
                /\ Names(b, k, pr) /\ Yields(k, t, p, pr)
                /\ \A d \in 1 .. c - 1 : Yields(d, t, p, pr) => d = k \/ Below(k, d, pr)
          BY <1>6, <2>6, <4>2 DEF BestOf
        <5>2. Below(c, k, pr) /\ Yields(c, t, p, pr)
          BY <1>1, <1>2, <3>1, <5>1 DEF LessImportant, Names, Below, Yields
        <5>. QED
          BY <1>1, <1>2, <5>1, <5>2 DEF Below
      <4>. QED
        BY <4>1, <4>2
    <3>. QED
      BY <1>1, <2>1, <2>2, <2>6, <3>2, <3>3 DEF BestOf
  <2>. QED
    BY <2>4, <2>5, <2>6
<1>. QED
  BY <1>3, <1>4, <1>5, <1>6

\* The pass ends with the best of all channels.
LEMMA PassFindsBest ==
  ASSUME NEW t \in Tracks, NEW p \in Nat, NEW pr, \A d \in Direct : pr[d] \in Nat, TypeOK
  PROVE  \E b \in Candidates : DirectChoice(t, p, pr) = b.chan /\ BestOf(NumDirect, b, t, p, pr)
<1>1. PICK f \in [0 .. NumDirect -> Candidates] :
        /\ DirectChoice(t, p, pr) = f[NumDirect].chan
        /\ f[0] = Start(t, p)
        /\ \A c \in Direct : f[c] = Compared(c, f[c - 1], pr)
  BY Scanning
<1> DEFINE S == {n \in 0 .. NumDirect : BestOf(n, f[n], t, p, pr)}
<1>2. NumDirect \in Nat /\ Direct = 1 .. NumDirect
  BY SizeAssumption DEF Direct
<1>3. 0 \in S
  BY <1>1, <1>2 DEF BestOf, Start
<1>4. \A n \in 0 .. NumDirect - 1 : n \in S => n + 1 \in S
  <2> TAKE n \in 0 .. NumDirect - 1
  <2> HAVE n \in S
  <2>1. n + 1 \in Direct /\ (n + 1) - 1 = n /\ n \in 0 .. NumDirect /\ n + 1 \in 0 .. NumDirect
    BY <1>2
  <2>2. f[n + 1] = Compared(n + 1, f[n], pr) /\ f[n] \in Candidates
    BY <1>1, <2>1
  <2>. QED
    BY <2>1, <2>2, BestStep
<1>5. NumDirect \in S
  <2> HIDE DEF S
  <2>1. NumDirect \in 0 .. NumDirect
    BY <1>2
  <2>. QED
    BY <1>2, <1>3, <1>4, <2>1, Counting
<1>. QED
  BY <1>1, <1>2, <1>5

\* The channel DirectChoice finds in one pass is the wanted one.
LEMMA ChoiceIsWanted ==
  ASSUME TypeOK PROVE NoteTakesBest
<1> SUFFICES ASSUME NEW t \in Tracks, NEW p \in 1 .. MaxPrio, NEW pr \in [Direct -> 1 .. MaxPrio]
             PROVE  DirectChoice(t, p, pr) = Wanted(t, p, pr)
  BY DEF NoteTakesBest
<1> DEFINE free     == {c \in Direct : status[c] = "off"}
           released == {c \in Direct : status[c] = "stop"}
           yielding == {c \in Direct : Yields(c, t, p, pr)}
           Least(S) == CHOOSE c \in S : \A d \in S \ {c} : Below(c, d, pr)
<1>1. Wanted(t, p, pr) =
        IF free # {} THEN CHOOSE c \in free : \A d \in free : c <= d
        ELSE IF released # {} THEN Least(released)
        ELSE IF yielding # {} THEN Least(yielding) ELSE 0
  BY DEF Wanted, Yields, Below
<1>2. p \in Nat /\ \A d \in Direct : pr[d] \in Nat
  BY ValueAssumption
<1>3. PICK b \in Candidates : DirectChoice(t, p, pr) = b.chan /\ BestOf(NumDirect, b, t, p, pr)
  BY <1>2, PassFindsBest
<1>4. Direct = 1 .. NumDirect /\ NumDirect \in Nat
  BY SizeAssumption DEF Direct
<1>5. \A d \in Direct : track[d] \in Nat /\ d \in Nat
  <2> TAKE d \in Direct
  <2>1. d \in Channels
    BY SizeAssumption DEF Direct, Channels
  <2>2. track[d] \in Tracks \cup {0}
    BY <2>1 DEF TypeOK
  <2>. QED
    BY <2>2, SizeAssumption DEF Tracks, Direct
<1>6. ASSUME NEW S \in SUBSET Direct, NEW c \in S, \A d \in S : d = c \/ Below(c, d, pr)
      PROVE  Least(S) = c
  <2>1. \A d \in S \ {c} : Below(c, d, pr)
    BY <1>6
  <2>2. ASSUME NEW e \in S, \A d \in S \ {e} : Below(e, d, pr), e # c PROVE FALSE
    <3>1. Below(e, c, pr) /\ Below(c, e, pr)
      BY <2>1, <2>2
    <3>. QED
      BY <1>2, <1>5, <1>6, <2>2, <3>1 DEF Below
  <2>3. Least(S) \in S /\ \A d \in S \ {Least(S)} : Below(Least(S), d, pr)
    BY <2>1
  <2>. QED
    BY <2>2, <2>3
<1>7. CASE free # {}
  <2>1. b.free
    BY <1>3, <1>4, <1>7 DEF BestOf
  <2>2. b.chan \in free /\ \A d \in free : b.chan <= d
    BY <1>3, <1>4, <2>1 DEF BestOf
  <2>3. ASSUME NEW e \in free, \A d \in free : e <= d PROVE e = b.chan
    BY <1>5, <2>2, <2>3
  <2>4. (CHOOSE c \in free : \A d \in free : c <= d) = b.chan
    BY <2>2, <2>3
  <2>. QED
    BY <1>1, <1>3, <1>7, <2>4
<1>8. CASE free = {} /\ released # {}
  <2>1. ~b.free /\ b.stopping
    BY <1>3, <1>4, <1>8 DEF BestOf, Candidates
  <2>2. b.chan \in released /\ \A d \in released : d = b.chan \/ Below(b.chan, d, pr)
    BY <1>3, <1>4, <2>1 DEF BestOf, Names
  <2>3. Least(released) = b.chan
    BY <1>6, <2>2
  <2>. QED
    BY <1>1, <1>3, <1>8, <2>3
<1>9. CASE free = {} /\ released = {}
  <2>1. ~b.free /\ ~b.stopping
    BY <1>3, <1>4, <1>9 DEF BestOf, Candidates
  <2>2. CASE b.chan = 0
    <3>1. yielding = {}
      BY <1>3, <1>4, <2>1, <2>2 DEF BestOf
    <3>. QED
      BY <1>1, <1>3, <1>9, <2>2, <3>1
  <2>3. CASE b.chan # 0
    <3>1. b.chan \in yielding /\ \A d \in yielding : d = b.chan \/ Below(b.chan, d, pr)
      BY <1>3, <1>4, <2>1, <2>3 DEF BestOf, Names
    <3>2. Least(yielding) = b.chan
      BY <1>6, <3>1
    <3>. QED
      BY <1>1, <1>3, <1>9, <3>1, <3>2
  <2>. QED
    BY <2>2, <2>3
<1>. QED
  BY <1>7, <1>8, <1>9

-----------------------------------------------------------------------------
(***************************************************************************)
(* Lists of channels.                                                      *)
(***************************************************************************)

\* What a walk from the head of t's list meets: the least set of channels that
\* holds the head and with each channel the next one.
LEMMA Walk ==
  ASSUME TypeOK, NEW t \in Tracks
  PROVE  /\ Listed(t) \subseteq Channels
         /\ chan[t] # 0 => chan[t] \in Listed(t)
         /\ \A c \in Listed(t) : np[c] # 0 => np[c] \in Listed(t)
         /\ \A C \in SUBSET Channels :
              (chan[t] # 0 => chan[t] \in C) /\ (\A c \in C : np[c] # 0 => np[c] \in C)
                => Listed(t) \subseteq C
<1> DEFINE N == NumDirect + NumCgb
           a == {chan[t]} \ {0}
           More(X) == X \cup ({np[c] : c \in X} \ {0})
           V == SUBSET Channels
           G == [n \in 1 .. N |-> [X \in V |-> More(X)]]
           Met(f) == [n \in 0 .. N |-> IF n = 0 THEN a ELSE More(f[n - 1])]
           met == CHOOSE f : f = Met(f)
<1>1. N \in Nat /\ Channels = 1 .. N
  BY SizeAssumption DEF Channels
<1>2. a \in V
  BY DEF TypeOK
<1>3. \A X \in V : More(X) \in V
  BY DEF TypeOK
<1>4. G \in [1 .. N -> [V -> V]]
  BY <1>3
<1>5. PICK f : IsRecursive(f, N, V, a, G)
  <2> HIDE DEF N, a, V, G
  <2>. QED
    BY <1>1, <1>2, <1>4, RecursiveFunction
<1>6. \A n \in 1 .. N : f[n] = More(f[n - 1])
  <2> TAKE n \in 1 .. N
  <2> HIDE DEF N, V
  <2>1. f[n - 1] \in V
    BY <1>1, <1>5 DEF IsRecursive
  <2>. QED
    BY <1>5, <2>1 DEF IsRecursive
<1>7. f = Met(f)
  <2> HIDE DEF N, V, a, More
  <2>. QED
    BY <1>1, <1>5, <1>6 DEF IsRecursive
<1>8. met = Met(met)
  <2> HIDE DEF Met
  <2>. QED
    BY <1>7
<1>9. Listed(t) = met[N]
  BY DEF Listed
<1>10. met[0] = a /\ \A n \in 0 .. N - 1 : met[n + 1] = More(met[n])
  <2> HIDE DEF met, N, a, More
  <2>1. met[0] = a
    BY <1>1, <1>8
  <2>2. ASSUME NEW n \in 0 .. N - 1 PROVE met[n + 1] = More(met[n])
    <3>1. n + 1 \in 0 .. N /\ n + 1 # 0 /\ (n + 1) - 1 = n
      BY <1>1
    <3>. QED
      BY <1>8, <3>1
  <2>. QED
    BY <2>1, <2>2
<1> HIDE DEF met, N
<1>11. N \in 0 .. N
  BY <1>1
<1>12. \A n \in 0 .. N : met[n] \in V
  <2> DEFINE S == {n \in 0 .. N : met[n] \in V}
  <2>1. 0 \in S
    BY <1>1, <1>2, <1>10
  <2>2. \A n \in 0 .. N - 1 : n \in S => n + 1 \in S
    BY <1>1, <1>3, <1>10
  <2>3. \A n \in 0 .. N : n \in S
    <3> HIDE DEF S
    <3>. QED
      BY <1>1, <2>1, <2>2, Counting
  <2>. QED
    BY <2>3
<1>13. chan[t] # 0 => chan[t] \in met[N]
  <2> DEFINE S == {n \in 0 .. N : chan[t] # 0 => chan[t] \in met[n]}
  <2>1. 0 \in S
    BY <1>1, <1>10
  <2>2. \A n \in 0 .. N - 1 : n \in S => n + 1 \in S
    BY <1>1, <1>10
  <2>3. \A n \in 0 .. N : n \in S
    <3> HIDE DEF S
    <3>. QED
      BY <1>1, <2>1, <2>2, Counting
  <2>. QED
    BY <1>11, <2>3
<1>14. ASSUME NEW C \in SUBSET Channels, chan[t] # 0 => chan[t] \in C,
              \A c \in C : np[c] # 0 => np[c] \in C
       PROVE  met[N] \subseteq C
  <2> DEFINE S == {n \in 0 .. N : met[n] \subseteq C}
  <2>1. 0 \in S
    BY <1>1, <1>10, <1>14
  <2>2. ASSUME NEW n \in 0 .. N - 1, n \in S PROVE n + 1 \in S
    <3>1. n + 1 \in 0 .. N /\ met[n + 1] = More(met[n])
      BY <1>1, <1>10
    <3>2. More(met[n]) \subseteq C
      BY <1>14, <2>2
    <3>. QED
      BY <3>1, <3>2
  <2>3. \A n \in 0 .. N : n \in S
    <3> HIDE DEF S
    <3>. QED
      BY <1>1, <2>1, <2>2, Counting
  <2>. QED
    BY <1>11, <2>3
<1>15. \A c \in met[N] : np[c] # 0 => np[c] \in met[N]
  <2> DEFINE Closed(X) == \A c \in X : np[c] # 0 => np[c] \in X
             S == {n \in 0 .. N : Closed(met[n]) \/ Cardinality(met[n]) > n}
  <2>1. IsFiniteSet(Channels) /\ Cardinality(Channels) = N
    BY <1>1, FS_Interval
  <2>2. \A X \in V : IsFiniteSet(X) /\ Cardinality(X) \in Nat /\ Cardinality(X) <= N
    BY <2>1, FS_Subset, FS_CardinalityType
  <2>3. 0 \in S
    <3>1. CASE chan[t] = 0
      BY <1>1, <1>10, <3>1
    <3>2. CASE chan[t] # 0
      <4>1. met[0] = {chan[t]}
        BY <1>10, <3>2
      <4>2. Cardinality(met[0]) = 1
        BY <4>1, FS_Singleton
      <4>. QED
        BY <1>1, <4>2
    <3>. QED
      BY <3>1, <3>2
  <2>4. ASSUME NEW n \in 0 .. N - 1, n \in S PROVE n + 1 \in S
    <3>1. met[n] \in V /\ met[n + 1] = More(met[n]) /\ met[n + 1] \in V /\ n + 1 \in 0 .. N
      <4> HIDE DEF V, More, S
      <4>1. n \in 0 .. N /\ n + 1 \in 0 .. N
        BY <1>1
      <4>. QED
        BY <1>10, <1>12, <4>1
    <3>2. CASE Closed(met[n])
      <4>1. met[n + 1] = met[n]
        BY <3>1, <3>2
      <4>. QED
        BY <3>1, <3>2, <4>1
    <3>3. CASE ~Closed(met[n])
      <4>1. met[n] \subseteq met[n + 1] /\ met[n] # met[n + 1]
        BY <3>1, <3>3
      <4>2. Cardinality(met[n]) <= Cardinality(met[n + 1])
            /\ Cardinality(met[n]) # Cardinality(met[n + 1])
        BY <2>2, <3>1, <4>1, FS_Subset
      <4>3. Cardinality(met[n]) > n
        BY <2>4, <3>3
      <4>4. Cardinality(met[n + 1]) > n + 1
        BY <2>2, <3>1, <4>2, <4>3
      <4>. QED
        BY <3>1, <4>4
    <3>. QED
      BY <3>2, <3>3
  <2>5. N \in S
    <3> HIDE DEF S
    <3>. QED
      BY <1>1, <1>11, <2>3, <2>4, Counting
  <2>6. Cardinality(met[N]) <= N /\ Cardinality(met[N]) \in Nat
    BY <1>11, <1>12, <2>2
  <2>. QED
    BY <1>1, <2>5, <2>6
<1>. QED
  BY <1>9, <1>11, <1>12, <1>13, <1>14, <1>15

\* A channel list without a cycle whose links agree is all the walk meets.
LEMMA ListedIsOf ==
  ASSUME TypeOK, NEW t \in Tracks, List(t), ~Walking(t)
  PROVE  Listed(t) = Of(t)
<1>1. Of(t) \subseteq Channels /\ ListHead(t) = chan[t] /\ 0 \notin Of(t)
  BY SizeAssumption DEF Of, ListHead, Channels
<1>2. Listed(t) \subseteq Of(t)
  BY <1>1, Walk DEF List, Chain
<1>3. ASSUME Of(t) \ Listed(t) # {} PROVE FALSE
  <2>1. PICK c \in Of(t) \ Listed(t) : pp[c] \notin Of(t) \ Listed(t)
    BY <1>3 DEF List, Chain
  <2>2. c # chan[t]
    BY <1>1, <2>1, Walk
  <2>3. pp[c] \in Of(t) /\ np[pp[c]] = c
    BY <1>1, <2>1, <2>2 DEF List, Chain
  <2>4. pp[c] \in Listed(t) /\ c # 0
    BY <1>1, <2>1, <2>3
  <2>. QED
    BY <2>1, <2>3, <2>4, Walk
<1>. QED
  BY <1>2, <1>3

\* A list without a head is empty.
LEMMA NoHead ==
  ASSUME NEW t \in Tracks, List(t), ListHead(t) = 0
  PROVE  Of(t) = {}
<1> SUFFICES ASSUME Of(t) # {} PROVE FALSE
  OBVIOUS
<1>1. PICK c \in Of(t) : pp[c] \notin Of(t)
  BY DEF List, Chain
<1>2. c # 0
  BY SizeAssumption DEF Of, Channels
<1>. QED
  BY <1>1, <1>2 DEF List, Chain

-----------------------------------------------------------------------------
(***************************************************************************)
(* Types, places and locks.                                                *)
(***************************************************************************)

\* Taking a channel from its list leaves channels and none in the links.
LEMMA ClearedTypes ==
  ASSUME TypeOK, NEW c \in Channels
  PROVE  /\ Cleared(c).np \in [Channels -> Channels \cup {0}]
         /\ Cleared(c).pp \in [Channels -> Channels \cup {0}]
         /\ Cleared(c).chan \in [Tracks -> Channels \cup {0}]
         /\ Cleared(c).track \in [Channels -> Tracks \cup {0}]
<1>1. CASE track[c] = 0
  BY <1>1 DEF Cleared, TypeOK
<1>2. CASE track[c] # 0
  BY <1>2 DEF Cleared, TypeOK
<1>. QED
  BY <1>1, <1>2

\* The priority of a note fits a byte, and the channel it gets is a channel.
LEMMA NoteTypes ==
  ASSUME IInv, hpc = "cmd", NEW d \in TrackPrios, NEW k \in 0 .. NumCgb
  PROVE  /\ NotePrio(hp, d) \in 0 .. MaxPrio
         /\ k = 0 => DirectChoice(ht, NotePrio(hp, d), prio) \in Channels \cup {0}
         /\ k # 0 => CgbChoice(ht, NotePrio(hp, d), k) \in Channels \cup {0}
         /\ ht \in Tracks /\ hp \in Players
<1>1. ht \in Tracks /\ hp \in Players /\ song[hp] \in 0 .. MaxPrio
  BY DEF IInv, TypeOK, MainInv, OnTrack, Bodies
<1>2. NotePrio(hp, d) \in 0 .. MaxPrio
  BY <1>1, ValueAssumption DEF NotePrio
<1>3. \A c \in Direct : c \in Channels /\ prio[c] \in Nat
  <2> TAKE c \in Direct
  <2>1. c \in Channels
    BY SizeAssumption DEF Direct, Channels
  <2>. QED
    BY <2>1, ValueAssumption DEF IInv, TypeOK
<1>4. DirectChoice(ht, NotePrio(hp, d), prio) \in Direct \cup {0}
  <2>1. NotePrio(hp, d) \in Nat
    BY <1>2, ValueAssumption
  <2>. QED
    BY <1>1, <1>3, <2>1, ChoiceType DEF IInv
<1>5. k # 0 => NumDirect + k \in Channels
  BY SizeAssumption DEF Channels
<1>. QED
  BY <1>1, <1>2, <1>3, <1>4, <1>5 DEF CgbChoice

\* Channels and tracks keep their types.
LEMMA ChannelTypes ==
  ASSUME IInv, [Next]_vars
  PROVE  /\ status' \in [Channels -> {"off", "on", "stop"}]
         /\ track' \in [Channels -> Tracks \cup {0}]
         /\ np' \in [Channels -> Channels \cup {0}] /\ pp' \in [Channels -> Channels \cup {0}]
         /\ prio' \in [Channels -> 0 .. MaxPrio]
         /\ flags' \in [Tracks -> {"none", "start", "exist"}]
         /\ chan' \in [Tracks -> Channels \cup {0}]
<1> USE DEF IInv, TypeOK, CallInv, MainInv
<1>1. CASE \E p \in Players : MPlayStart(p)
  BY <1>1 DEF MPlayStart, Call, Running, channels, tracks, infos, handler
<1>2. CASE \E p \in Players : \E f \in {"stop", "continue", "control"} : Simple(f, p)
  BY <1>2 DEF Simple, Call, Running, channels, tracks, infos, handler
<1>3. CASE \E p \in Players : \E f \in {"fadeout", "fadetemp", "fadein"} : FadeCall(f, p)
  BY <1>3 DEF FadeCall, Call, Running, channels, tracks, infos, handler
<1>4. CASE \E p \in Players : m4aMPlayImmInit(p)
  BY <1>4 DEF m4aMPlayImmInit, Call, Running, channels, tracks, infos, handler
<1>5. CASE MPlayStart_look
  BY <1>5 DEF MPlayStart_look, Goto, Return, Running, channels, tracks, infos, handler
<1>6. CASE MPlayStart_look2
  BY <1>6 DEF MPlayStart_look2, Goto, Return, Running, channels, tracks, infos, handler
<1>7. CASE MPlayStart_lock
  BY <1>7 DEF MPlayStart_lock, Locked, Running, channels, tracks, handler
<1>8. CASE m4aMPlayStop_lock
  BY <1>8 DEF m4aMPlayStop_lock, Locked, Running, channels, tracks, handler
<1>9. CASE MPlayContinue
  BY <1>9 DEF MPlayContinue, Locked, Goto, Running, channels, tracks, handler
<1>10. CASE m4aMPlayControl
  BY <1>10 DEF m4aMPlayControl, Locked, Goto, Running, channels, tracks, handler
<1>11. CASE MPlayFadeOut
  BY <1>11 DEF MPlayFadeOut, FadeStart, Locked, Goto, Running, channels, tracks, handler
<1>12. CASE m4aMPlayFadeOutTemporarily
  BY <1>12 DEF m4aMPlayFadeOutTemporarily, FadeStart, Locked, Goto, Running, channels,
     tracks, handler
<1>13. CASE m4aMPlayFadeIn
  BY <1>13 DEF m4aMPlayFadeIn, FadeStart, Locked, Goto, Running, channels, tracks, handler
<1>14. CASE TrackStop
  BY <1>14 DEF TrackStop, Running, channels, tracks, infos, handler
<1>15. CASE TrackStop_silence
  BY <1>15 DEF TrackStop_silence, Goto, Running, tracks, infos, handler
<1>16. CASE TrackStop_disown
  BY <1>16 DEF TrackStop_disown, Goto, Running, tracks, infos, handler
<1>17. CASE TrackStop_follow
  BY <1>17 DEF TrackStop_follow, Running, channels, tracks, infos, handler
<1>18. CASE TrackStop_forget
  BY <1>18 DEF TrackStop_forget, Goto, Running, channels, infos, handler
<1>19. CASE AfterStop
  BY <1>19 DEF AfterStop, Running, channels, tracks, infos, handler
<1>20. CASE Unlock
  BY <1>20 DEF Unlock, Return, Running, channels, tracks, handler
<1>21. CASE m4aMPlayImmInit_test
  BY <1>21 DEF m4aMPlayImmInit_test, ImmNext, Goto, Return, Running, channels, tracks,
     infos, handler
<1>22. CASE m4aMPlayImmInit_clear
  BY <1>22 DEF m4aMPlayImmInit_clear, ImmNext, Goto, Return, Running, channels, infos,
     handler
<1>23. CASE SoundMain
  BY <1>23 DEF SoundMain, Running, channels, tracks, infos, program
<1>24. CASE MPlayMain
  BY <1>24 DEF MPlayMain, channels, tracks, program
<1>25. CASE MPlayMain_paused
  BY <1>25 DEF MPlayMain_paused, channels, tracks, program
<1>26. CASE FadeOutBody
  BY <1>26 DEF FadeOutBody, channels, tracks, program
<1>27. CASE FadeOutBody_stop
  BY <1>27 DEF FadeOutBody_stop, channels, tracks, infos, program
<1>28. CASE FadeOutBody_walk
  BY <1>28 DEF FadeOutBody_walk, tracks, infos, program
<1>29. CASE FadeOutBody_next
  BY <1>29 DEF FadeOutBody_next, channels, tracks, infos, program
<1>30. CASE MPlayMain_tick
  BY <1>30 DEF MPlayMain_tick, channels, tracks, infos, program
<1>31. CASE MPlayMain_tempoDone
  BY <1>31 DEF MPlayMain_tempoDone, channels, tracks, infos, program
<1>32. CASE MPlayMain_noTrack
  BY <1>32 DEF MPlayMain_noTrack, NextInTick, channels, tracks, infos, program
<1>33. CASE MPlayMain_track
  BY <1>33 DEF MPlayMain_track, channels, tracks, infos, program
<1>34. CASE MPlayMain_walk
  <2>1. hc \in Channels
    BY <1>34 DEF MPlayMain_walk
  <2>2. /\ Cleared(hc).np \in [Channels -> Channels \cup {0}]
        /\ Cleared(hc).pp \in [Channels -> Channels \cup {0}]
        /\ Cleared(hc).chan \in [Tracks -> Channels \cup {0}]
        /\ Cleared(hc).track \in [Channels -> Tracks \cup {0}]
    BY <2>1, ClearedTypes
  <2>. QED
    BY <1>34, <2>1, <2>2 DEF MPlayMain_walk, ClearChain, channels, tracks, infos,
       program, handler
<1>35. CASE MPlayMain_ready
  BY <1>35 DEF MPlayMain_ready, channels, tracks, infos, program
<1>36. CASE \E d \in TrackPrios, k \in 0 .. NumCgb : ply_note(d, k)
  <2>1. PICK d \in TrackPrios, k \in 0 .. NumCgb : ply_note(d, k)
    BY <1>36
  <2> DEFINE p == NotePrio(hp, d)
             c == IF k = 0 THEN DirectChoice(ht, p, prio) ELSE CgbChoice(ht, p, k)
  <2>2. p \in 0 .. MaxPrio /\ c \in Channels \cup {0} /\ ht \in Tracks
    BY <2>1, NoteTypes DEF ply_note
  <2>3. CASE c = 0
    BY <2>1, <2>3 DEF ply_note, channels, tracks, infos, program, handler
  <2>4. CASE c # 0
    <3>1. /\ Attach(c, ht) /\ status' = [status EXCEPT ![c] = "on"]
          /\ prio' = [prio EXCEPT ![c] = p] /\ UNCHANGED flags
      BY <2>1, <2>4 DEF ply_note
    <3>2. c \in Channels
      BY <2>2, <2>4
    <3> HIDE DEF c, p
    <3>3. /\ Cleared(c).np \in [Channels -> Channels \cup {0}]
          /\ Cleared(c).pp \in [Channels -> Channels \cup {0}]
          /\ Cleared(c).chan \in [Tracks -> Channels \cup {0}]
          /\ Cleared(c).track \in [Channels -> Tracks \cup {0}]
      BY <3>2, ClearedTypes
    <3>. QED
      BY <2>2, <3>1, <3>2, <3>3 DEF Attach
  <2>. QED
    BY <2>3, <2>4
<1>37. CASE \E c \in Channels : ply_endtie(c)
  BY <1>37 DEF ply_endtie, tracks, infos, program, handler
<1>38. CASE ply_fine
  BY <1>38 DEF ply_fine, channels, tracks, infos, program
<1>39. CASE ply_fine_walk
  <2>1. hc \in Channels
    BY <1>39 DEF ply_fine_walk
  <2>2. /\ Cleared(hc).np \in [Channels -> Channels \cup {0}]
        /\ Cleared(hc).pp \in [Channels -> Channels \cup {0}]
        /\ Cleared(hc).chan \in [Tracks -> Channels \cup {0}]
        /\ Cleared(hc).track \in [Channels -> Tracks \cup {0}]
    BY <2>1, ClearedTypes
  <2>. QED
    BY <1>39, <2>1, <2>2 DEF ply_fine_walk, ClearChain, channels, tracks, infos,
       program, handler
<1>40. CASE ply_fine_end
  BY <1>40 DEF ply_fine_end, NextInTick, channels, infos, program
<1>41. CASE MPlayMain_wait
  BY <1>41 DEF MPlayMain_wait, NextInTick, channels, tracks, infos, program
<1>42. CASE MPlayMain_vol
  BY <1>42 DEF MPlayMain_vol, channels, tracks, infos, program
<1>43. CASE MPlayMain_volNext
  BY <1>43 DEF MPlayMain_volNext, NextInVol, channels, tracks, program
<1>44. CASE SoundMainRAM
  BY <1>44 DEF SoundMainRAM, tracks, infos, program
<1>45. CASE UNCHANGED vars
  BY <1>45 DEF vars, channels, tracks, infos, program, handler
<1>. QED
  BY <1>1, <1>2, <1>3, <1>4, <1>5, <1>6, <1>7, <1>8, <1>9, <1>10, <1>11, <1>12, <1>13,
     <1>14, <1>15, <1>16, <1>17, <1>18, <1>19, <1>20, <1>21, <1>22, <1>23, <1>24, <1>25,
     <1>26, <1>27, <1>28, <1>29, <1>30, <1>31, <1>32, <1>33, <1>34, <1>35, <1>36, <1>37,
     <1>38, <1>39, <1>40, <1>41, <1>42, <1>43, <1>44, <1>45 DEF Next, Program, Interrupt

\* The players keep their types, and fades have frames and volume left.
LEMMA InfoTypes ==
  ASSUME IInv, [Next]_vars
  PROVE  /\ lock' \in [Players -> 0 .. 1] /\ pause' \in [Players -> 0 .. 1]
         /\ mask' \in [Players -> 0 .. 1] /\ song' \in [Players -> 0 .. MaxPrio]
         /\ oi' \in [Players -> Nat] /\ oc' \in [Players -> Nat]
         /\ ov' \in [Players -> -15 .. 4 * VolMax + 2]
         /\ FadeInv'
<1> USE DEF IInv, TypeOK, CallInv, MainInv, FadeInv
<1>1. CASE \E p \in Players : MPlayStart(p)
  BY <1>1 DEF MPlayStart, Call, Running, channels, tracks, infos, handler
<1>2. CASE \E p \in Players : \E f \in {"stop", "continue", "control"} : Simple(f, p)
  BY <1>2 DEF Simple, Call, Running, channels, tracks, infos, handler
<1>3. CASE \E p \in Players : \E f \in {"fadeout", "fadetemp", "fadein"} : FadeCall(f, p)
  BY <1>3 DEF FadeCall, Call, Running, channels, tracks, infos, handler
<1>4. CASE \E p \in Players : m4aMPlayImmInit(p)
  BY <1>4 DEF m4aMPlayImmInit, Call, Running, channels, tracks, infos, handler
<1>5. CASE MPlayStart_look
  BY <1>5 DEF MPlayStart_look, Goto, Return, Running, channels, tracks, infos, handler
<1>6. CASE MPlayStart_look2
  BY <1>6 DEF MPlayStart_look2, Goto, Return, Running, channels, tracks, infos, handler
<1>7. CASE MPlayStart_lock
  BY <1>7, ValueAssumption DEF MPlayStart_lock, Locked, Running, channels, tracks, handler
<1>8. CASE m4aMPlayStop_lock
  BY <1>8 DEF m4aMPlayStop_lock, Locked, Running, channels, tracks, handler
<1>9. CASE MPlayContinue
  BY <1>9 DEF MPlayContinue, Locked, Goto, Running, channels, tracks, handler
<1>10. CASE m4aMPlayControl
  BY <1>10 DEF m4aMPlayControl, Locked, Goto, Running, channels, tracks, handler
<1>11. CASE MPlayFadeOut
  BY <1>11, ValueAssumption DEF MPlayFadeOut, FadeStart, Locked, Goto, Running, channels,
     tracks, handler
<1>12. CASE m4aMPlayFadeOutTemporarily
  BY <1>12, ValueAssumption DEF m4aMPlayFadeOutTemporarily, FadeStart, Locked, Goto,
     Running, channels, tracks, handler
<1>13. CASE m4aMPlayFadeIn
  BY <1>13, ValueAssumption DEF m4aMPlayFadeIn, FadeStart, Locked, Goto, Running,
     channels, tracks, handler
<1>14. CASE TrackStop
  BY <1>14 DEF TrackStop, Running, channels, tracks, infos, handler
<1>15. CASE TrackStop_silence
  BY <1>15 DEF TrackStop_silence, Goto, Running, tracks, infos, handler
<1>16. CASE TrackStop_disown
  BY <1>16 DEF TrackStop_disown, Goto, Running, tracks, infos, handler
<1>17. CASE TrackStop_follow
  BY <1>17 DEF TrackStop_follow, Running, channels, tracks, infos, handler
<1>18. CASE TrackStop_forget
  BY <1>18 DEF TrackStop_forget, Goto, Running, channels, infos, handler
<1>19. CASE AfterStop
  BY <1>19 DEF AfterStop, Running, channels, tracks, infos, handler
<1>20. CASE Unlock
  BY <1>20 DEF Unlock, Return, Running, channels, tracks, handler
<1>21. CASE m4aMPlayImmInit_test
  BY <1>21 DEF m4aMPlayImmInit_test, ImmNext, Goto, Return, Running, channels, tracks,
     infos, handler
<1>22. CASE m4aMPlayImmInit_clear
  BY <1>22 DEF m4aMPlayImmInit_clear, ImmNext, Goto, Return, Running, channels, infos,
     handler
<1>23. CASE SoundMain
  BY <1>23 DEF SoundMain, Running, channels, tracks, infos, program
<1>24. CASE MPlayMain
  BY <1>24 DEF MPlayMain, channels, tracks, program
<1>25. CASE MPlayMain_paused
  BY <1>25 DEF MPlayMain_paused, Done, WorkOn, channels, tracks, program
<1>26. CASE FadeOutBody
  <2>1. hp \in Players /\ hpc = "body"
    BY <1>26 DEF FadeOutBody, Bodies
  <2>2. /\ oi[hp] \in Nat /\ oc[hp] \in Nat /\ ov[hp] \in -15 .. 4 * VolMax + 2
        /\ oi[hp] # 0 => oc[hp] > 0 /\ ov[hp] > 0
    BY <2>1
  <2>3. FadeCount(hp) \in Nat /\ (oi[hp] # 0 => FadeCount(hp) > 0)
    BY <2>2 DEF FadeCount
  <2> DEFINE steps == oi[hp] # 0 /\ oc[hp] = 1
             v == IF ~steps THEN ov[hp]
                  ELSE IF FadesIn(ov[hp]) /\ FadeOver(hp) THEN 4 * VolMax ELSE FadeLeft(hp)
  <2>4. v \in -15 .. 4 * VolMax + 2
    BY <2>2, ValueAssumption DEF FadeOver, FadeLeft
  <2>5. oi'[hp] # 0 => v > 0 \/ hpc' = "fade"
    BY <1>26, <2>1, <2>2, ValueAssumption DEF FadeOutBody, FadeOver, FadeLeft
  <2>6. /\ oc' = [oc EXCEPT ![hp] = FadeCount(hp)]
        /\ ov' = [ov EXCEPT ![hp] = v]
        /\ oi' = oi \/ oi' = [oi EXCEPT ![hp] = 0]
        /\ UNCHANGED <<lock, pause, mask, song, hp>>
    BY <1>26, <2>1 DEF FadeOutBody
  <2> HIDE DEF v
  <2>7. oi' \in [Players -> Nat] /\ oc' \in [Players -> Nat]
        /\ ov' \in [Players -> -15 .. 4 * VolMax + 2]
    BY <2>1, <2>3, <2>4, <2>6
  <2>8. ASSUME NEW q \in Players, oi'[q] # 0
        PROVE  oc'[q] > 0 /\ (ov'[q] > 0 \/ (hp' = q /\ hpc' \in {"fade", "fadewalk"}))
    BY <2>1, <2>2, <2>3, <2>5, <2>6, <2>8
  <2>. QED
    BY <2>6, <2>7, <2>8
<1>27. CASE FadeOutBody_stop
  BY <1>27 DEF FadeOutBody_stop, channels, tracks, infos, program
<1>28. CASE FadeOutBody_walk
  BY <1>28 DEF FadeOutBody_walk, tracks, infos, program
<1>29. CASE FadeOutBody_next
  BY <1>29 DEF FadeOutBody_next, Done, WorkOn, channels, tracks, infos, program
<1>30. CASE MPlayMain_tick
  BY <1>30 DEF MPlayMain_tick, channels, tracks, infos, program
<1>31. CASE MPlayMain_tempoDone
  BY <1>31 DEF MPlayMain_tempoDone, channels, tracks, infos, program
<1>32. CASE MPlayMain_noTrack
  BY <1>32 DEF MPlayMain_noTrack, NextInTick, Done, WorkOn, channels, tracks, infos,
     program
<1>33. CASE MPlayMain_track
  BY <1>33 DEF MPlayMain_track, channels, tracks, infos, program
<1>34. CASE MPlayMain_walk
  BY <1>34 DEF MPlayMain_walk, infos, program
<1>35. CASE MPlayMain_ready
  BY <1>35 DEF MPlayMain_ready, channels, tracks, infos, program
<1>36. CASE \E d \in TrackPrios, k \in 0 .. NumCgb : ply_note(d, k)
  BY <1>36 DEF ply_note, channels, tracks, infos, program, handler
<1>37. CASE \E c \in Channels : ply_endtie(c)
  BY <1>37 DEF ply_endtie, tracks, infos, program, handler
<1>38. CASE ply_fine
  BY <1>38 DEF ply_fine, channels, tracks, infos, program
<1>39. CASE ply_fine_walk
  BY <1>39 DEF ply_fine_walk, infos, program
<1>40. CASE ply_fine_end
  BY <1>40 DEF ply_fine_end, NextInTick, Done, WorkOn, channels, infos, program
<1>41. CASE MPlayMain_wait
  BY <1>41 DEF MPlayMain_wait, NextInTick, Done, WorkOn, channels, tracks, infos, program
<1>42. CASE MPlayMain_vol
  BY <1>42 DEF MPlayMain_vol, channels, tracks, infos, program
<1>43. CASE MPlayMain_volNext
  BY <1>43 DEF MPlayMain_volNext, NextInVol, Done, WorkOn, channels, tracks, program
<1>44. CASE SoundMainRAM
  BY <1>44 DEF SoundMainRAM, tracks, infos, program
<1>45. CASE UNCHANGED vars
  BY <1>45 DEF vars, channels, tracks, infos, program, handler
<1>. QED
  BY <1>1, <1>2, <1>3, <1>4, <1>5, <1>6, <1>7, <1>8, <1>9, <1>10, <1>11, <1>12, <1>13,
     <1>14, <1>15, <1>16, <1>17, <1>18, <1>19, <1>20, <1>21, <1>22, <1>23, <1>24, <1>25,
     <1>26, <1>27, <1>28, <1>29, <1>30, <1>31, <1>32, <1>33, <1>34, <1>35, <1>36, <1>37,
     <1>38, <1>39, <1>40, <1>41, <1>42, <1>43, <1>44, <1>45 DEF Next, Program, Interrupt

\* The program keeps to its places.
LEMMA CallStep ==
  ASSUME IInv, [Next]_vars
  PROVE  /\ call' \in AllCalls \cup {"none"} /\ cp' \in Players \cup {0}
         /\ ct' \in Tracks \cup {0} /\ r4' \in Channels \cup {0}
         /\ CallInv'
<1> USE DEF IInv, TypeOK, CallInv, Stopping, Holding
<1>1. CASE \E p \in Players : MPlayStart(p)
  BY <1>1, ValueAssumption DEF MPlayStart, Call, Running, channels, tracks, infos, handler
<1>2. CASE \E p \in Players : \E f \in {"stop", "continue", "control"} : Simple(f, p)
  BY <1>2, ValueAssumption DEF Simple, Call, Running, channels, tracks, infos, handler
<1>3. CASE \E p \in Players : \E f \in {"fadeout", "fadetemp", "fadein"} : FadeCall(f, p)
  BY <1>3, ValueAssumption DEF FadeCall, Call, Running, channels, tracks, infos, handler
<1>4. CASE \E p \in Players : m4aMPlayImmInit(p)
  BY <1>4, ValueAssumption, FirstTracks DEF m4aMPlayImmInit, Call, Running, channels,
     tracks, infos, handler
<1>5. CASE MPlayStart_look
  BY <1>5 DEF MPlayStart_look, Goto, Return, Running, channels, tracks, infos, handler
<1>6. CASE MPlayStart_look2
  BY <1>6 DEF MPlayStart_look2, Goto, Return, Running, channels, tracks, infos, handler
<1>7. CASE MPlayStart_lock
  BY <1>7, SizeAssumption, FirstTracks DEF MPlayStart_lock, Locked, Running, Tracks,
     channels, tracks, handler
<1>8. CASE m4aMPlayStop_lock
  BY <1>8, FirstTracks DEF m4aMPlayStop_lock, Locked, Running, channels, tracks, handler
<1>9. CASE MPlayContinue
  BY <1>9 DEF MPlayContinue, Locked, Goto, Running, channels, tracks, handler
<1>10. CASE m4aMPlayControl
  BY <1>10 DEF m4aMPlayControl, Locked, Goto, Running, channels, tracks, handler
<1>11. CASE MPlayFadeOut
  BY <1>11 DEF MPlayFadeOut, FadeStart, Locked, Goto, Running, channels, tracks, handler
<1>12. CASE m4aMPlayFadeOutTemporarily
  BY <1>12 DEF m4aMPlayFadeOutTemporarily, FadeStart, Locked, Goto, Running, channels,
     tracks, handler
<1>13. CASE m4aMPlayFadeIn
  BY <1>13 DEF m4aMPlayFadeIn, FadeStart, Locked, Goto, Running, channels, tracks, handler
<1>14. CASE TrackStop
  BY <1>14 DEF TrackStop, Running, channels, tracks, infos, handler
<1>15. CASE TrackStop_silence
  BY <1>15 DEF TrackStop_silence, Goto, Running, tracks, infos, handler
<1>16. CASE TrackStop_disown
  BY <1>16 DEF TrackStop_disown, Goto, Running, tracks, infos, handler
<1>17. CASE TrackStop_follow
  BY <1>17 DEF TrackStop_follow, Running, channels, tracks, infos, handler
<1>18. CASE TrackStop_forget
  BY <1>18 DEF TrackStop_forget, Goto, Running, channels, infos, handler
<1>19. CASE AfterStop
  BY <1>19, NextTracks DEF AfterStop, Running, channels, tracks, infos, handler
<1>20. CASE Unlock
  BY <1>20 DEF Unlock, Return, Running, channels, tracks, handler
<1>21. CASE m4aMPlayImmInit_test
  BY <1>21, NextTracks DEF m4aMPlayImmInit_test, ImmNext, Goto, Return, Running, channels,
     tracks, infos, handler
<1>22. CASE m4aMPlayImmInit_clear
  BY <1>22, NextTracks DEF m4aMPlayImmInit_clear, ImmNext, Goto, Return, Running,
     channels, infos, handler
<1>23. CASE SoundMain
  BY <1>23 DEF SoundMain, Running, channels, tracks, infos, program
<1>24. CASE MPlayMain
  BY <1>24 DEF MPlayMain, channels, tracks, program
<1>25. CASE MPlayMain_paused
  BY <1>25 DEF MPlayMain_paused, channels, tracks, program
<1>26. CASE FadeOutBody
  BY <1>26 DEF FadeOutBody, channels, tracks, program
<1>27. CASE FadeOutBody_stop
  BY <1>27 DEF FadeOutBody_stop, channels, tracks, infos, program
<1>28. CASE FadeOutBody_walk
  BY <1>28 DEF FadeOutBody_walk, tracks, infos, program
<1>29. CASE FadeOutBody_next
  BY <1>29 DEF FadeOutBody_next, channels, tracks, infos, program
<1>30. CASE MPlayMain_tick
  BY <1>30 DEF MPlayMain_tick, channels, tracks, infos, program
<1>31. CASE MPlayMain_tempoDone
  BY <1>31 DEF MPlayMain_tempoDone, channels, tracks, infos, program
<1>32. CASE MPlayMain_noTrack
  BY <1>32 DEF MPlayMain_noTrack, NextInTick, channels, tracks, infos, program
<1>33. CASE MPlayMain_track
  BY <1>33 DEF MPlayMain_track, channels, tracks, infos, program
<1>34. CASE MPlayMain_walk
  BY <1>34 DEF MPlayMain_walk, infos, program
<1>35. CASE MPlayMain_ready
  BY <1>35 DEF MPlayMain_ready, channels, tracks, infos, program
<1>36. CASE \E d \in TrackPrios, k \in 0 .. NumCgb : ply_note(d, k)
  BY <1>36 DEF ply_note, channels, tracks, infos, program, handler
<1>37. CASE \E c \in Channels : ply_endtie(c)
  BY <1>37 DEF ply_endtie, tracks, infos, program, handler
<1>38. CASE ply_fine
  BY <1>38 DEF ply_fine, channels, tracks, infos, program
<1>39. CASE ply_fine_walk
  BY <1>39 DEF ply_fine_walk, infos, program
<1>40. CASE ply_fine_end
  BY <1>40 DEF ply_fine_end, NextInTick, channels, infos, program
<1>41. CASE MPlayMain_wait
  BY <1>41 DEF MPlayMain_wait, NextInTick, channels, tracks, infos, program
<1>42. CASE MPlayMain_vol
  BY <1>42 DEF MPlayMain_vol, channels, tracks, infos, program
<1>43. CASE MPlayMain_volNext
  BY <1>43 DEF MPlayMain_volNext, NextInVol, channels, tracks, program
<1>44. CASE SoundMainRAM
  BY <1>44 DEF SoundMainRAM, tracks, infos, program
<1>45. CASE UNCHANGED vars
  BY <1>45 DEF vars, channels, tracks, infos, program, handler
<1>. QED
  BY <1>1, <1>2, <1>3, <1>4, <1>5, <1>6, <1>7, <1>8, <1>9, <1>10, <1>11, <1>12, <1>13,
     <1>14, <1>15, <1>16, <1>17, <1>18, <1>19, <1>20, <1>21, <1>22, <1>23, <1>24, <1>25,
     <1>26, <1>27, <1>28, <1>29, <1>30, <1>31, <1>32, <1>33, <1>34, <1>35, <1>36, <1>37,
     <1>38, <1>39, <1>40, <1>41, <1>42, <1>43, <1>44, <1>45 DEF Next, Program, Interrupt

\* SoundMain comes to the next player, or to the mixer.
LEMMA WorkOnNext ==
  ASSUME NEW q \in Players, WorkOn(q + 1)
  PROVE  \/ q + 1 \in Players /\ hpc' = "body" /\ hp' = q + 1
         \/ q = NumPlayers /\ hpc' = "mix" /\ hp' = 0
  BY SizeAssumption DEF WorkOn, Players

\* SoundMain keeps to its places.
LEMMA MainStep ==
  ASSUME IInv, [Next]_vars
  PROVE  /\ hp' \in Players \cup {0} /\ ht' \in Tracks \cup {0} /\ hc' \in Channels \cup {0}
         /\ MainInv'
<1> USE DEF IInv, TypeOK, CallInv, MainInv, OnTrack, Bodies
<1>1. CASE \E p \in Players : MPlayStart(p)
  BY <1>1 DEF MPlayStart, Call, Running, channels, tracks, infos, handler
<1>2. CASE \E p \in Players : \E f \in {"stop", "continue", "control"} : Simple(f, p)
  BY <1>2 DEF Simple, Call, Running, channels, tracks, infos, handler
<1>3. CASE \E p \in Players : \E f \in {"fadeout", "fadetemp", "fadein"} : FadeCall(f, p)
  BY <1>3 DEF FadeCall, Call, Running, channels, tracks, infos, handler
<1>4. CASE \E p \in Players : m4aMPlayImmInit(p)
  BY <1>4 DEF m4aMPlayImmInit, Call, Running, channels, tracks, infos, handler
<1>5. CASE MPlayStart_look
  BY <1>5 DEF MPlayStart_look, Goto, Return, Running, channels, tracks, infos, handler
<1>6. CASE MPlayStart_look2
  BY <1>6 DEF MPlayStart_look2, Goto, Return, Running, channels, tracks, infos, handler
<1>7. CASE MPlayStart_lock
  BY <1>7 DEF MPlayStart_lock, Locked, Running, channels, tracks, handler
<1>8. CASE m4aMPlayStop_lock
  BY <1>8 DEF m4aMPlayStop_lock, Locked, Running, channels, tracks, handler
<1>9. CASE MPlayContinue
  BY <1>9 DEF MPlayContinue, Locked, Goto, Running, channels, tracks, handler
<1>10. CASE m4aMPlayControl
  BY <1>10 DEF m4aMPlayControl, Locked, Goto, Running, channels, tracks, handler
<1>11. CASE MPlayFadeOut
  BY <1>11 DEF MPlayFadeOut, FadeStart, Locked, Goto, Running, channels, tracks, handler
<1>12. CASE m4aMPlayFadeOutTemporarily
  BY <1>12 DEF m4aMPlayFadeOutTemporarily, FadeStart, Locked, Goto, Running, channels,
     tracks, handler
<1>13. CASE m4aMPlayFadeIn
  BY <1>13 DEF m4aMPlayFadeIn, FadeStart, Locked, Goto, Running, channels, tracks, handler
<1>14. CASE TrackStop
  BY <1>14 DEF TrackStop, Running, channels, tracks, infos, handler
<1>15. CASE TrackStop_silence
  BY <1>15 DEF TrackStop_silence, Goto, Running, tracks, infos, handler
<1>16. CASE TrackStop_disown
  BY <1>16 DEF TrackStop_disown, Goto, Running, tracks, infos, handler
<1>17. CASE TrackStop_follow
  BY <1>17 DEF TrackStop_follow, Running, channels, tracks, infos, handler
<1>18. CASE TrackStop_forget
  BY <1>18 DEF TrackStop_forget, Goto, Running, channels, infos, handler
<1>19. CASE AfterStop
  BY <1>19 DEF AfterStop, Running, channels, tracks, infos, handler
<1>20. CASE Unlock
  BY <1>20 DEF Unlock, Return, Running, channels, tracks, handler
<1>21. CASE m4aMPlayImmInit_test
  BY <1>21 DEF m4aMPlayImmInit_test, ImmNext, Goto, Return, Running, channels, tracks,
     infos, handler
<1>22. CASE m4aMPlayImmInit_clear
  BY <1>22 DEF m4aMPlayImmInit_clear, ImmNext, Goto, Return, Running, channels, infos,
     handler
<1>23. CASE SoundMain
  BY <1>23, SizeAssumption DEF SoundMain, Running, Players, channels, tracks, infos,
     program
<1>24. CASE MPlayMain
  <2>1. hp \in Players /\ hpc = "enter"
    BY <1>24 DEF MPlayMain
  <2>2. /\ hpc' \in {"body", "mix", "enter"} /\ hp' \in Players \cup {0}
        /\ hpc' # "mix" => hp' \in Players
    <3>1. CASE lock[hp] # 0
      BY <1>24, <2>1, <3>1, WorkOnNext DEF MPlayMain
    <3>2. CASE lock[hp] = 0 /\ hp = 1
      BY <1>24, <2>1, <3>2 DEF MPlayMain, WorkOn
    <3>3. CASE lock[hp] = 0 /\ hp # 1
      BY <1>24, <2>1, <3>3, SizeAssumption DEF MPlayMain, Players
    <3>. QED
      BY <3>1, <3>2, <3>3
  <2>3. UNCHANGED <<ht, hc, alive, pause>>
    BY <1>24 DEF MPlayMain
  <2>. QED
    BY <2>2, <2>3
<1>25. CASE MPlayMain_paused
  BY <1>25 DEF MPlayMain_paused, Done, WorkOn, channels, tracks, program
<1>26. CASE FadeOutBody
  BY <1>26, FirstTracks DEF FadeOutBody, channels, tracks, program
<1>27. CASE FadeOutBody_stop
  BY <1>27 DEF FadeOutBody_stop, channels, tracks, infos, program
<1>28. CASE FadeOutBody_walk
  BY <1>28 DEF FadeOutBody_walk, tracks, infos, program
<1>29. CASE FadeOutBody_next
  BY <1>29, NextTracks DEF FadeOutBody_next, Done, WorkOn, channels, tracks, infos,
     program
<1>30. CASE MPlayMain_tick
  BY <1>30, FirstTracks DEF MPlayMain_tick, channels, tracks, infos, program
<1>31. CASE MPlayMain_tempoDone
  BY <1>31, FirstTracks DEF MPlayMain_tempoDone, channels, tracks, infos, program
<1>32. CASE MPlayMain_noTrack
  BY <1>32, NextTracks DEF MPlayMain_noTrack, NextInTick, Done, WorkOn, channels, tracks,
     infos, program
<1>33. CASE MPlayMain_track
  BY <1>33 DEF MPlayMain_track, channels, tracks, infos, program
<1>34. CASE MPlayMain_walk
  BY <1>34 DEF MPlayMain_walk, infos, program
<1>35. CASE MPlayMain_ready
  BY <1>35 DEF MPlayMain_ready, channels, tracks, infos, program
<1>36. CASE \E d \in TrackPrios, k \in 0 .. NumCgb : ply_note(d, k)
  BY <1>36 DEF ply_note, channels, tracks, infos, program, handler
<1>37. CASE \E c \in Channels : ply_endtie(c)
  BY <1>37 DEF ply_endtie, tracks, infos, program, handler
<1>38. CASE ply_fine
  BY <1>38 DEF ply_fine, channels, tracks, infos, program
<1>39. CASE ply_fine_walk
  BY <1>39 DEF ply_fine_walk, infos, program
<1>40. CASE ply_fine_end
  BY <1>40, NextTracks DEF ply_fine_end, NextInTick, Done, WorkOn, channels, infos,
     program
<1>41. CASE MPlayMain_wait
  BY <1>41, NextTracks DEF MPlayMain_wait, NextInTick, Done, WorkOn, channels, tracks,
     infos, program
<1>42. CASE MPlayMain_vol
  BY <1>42 DEF MPlayMain_vol, channels, tracks, infos, program
<1>43. CASE MPlayMain_volNext
  BY <1>43, NextTracks DEF MPlayMain_volNext, NextInVol, Done, WorkOn, channels, tracks,
     program
<1>44. CASE SoundMainRAM
  BY <1>44 DEF SoundMainRAM, tracks, infos, program
<1>45. CASE UNCHANGED vars
  BY <1>45 DEF vars, channels, tracks, infos, program, handler
<1>. QED
  BY <1>1, <1>2, <1>3, <1>4, <1>5, <1>6, <1>7, <1>8, <1>9, <1>10, <1>11, <1>12, <1>13,
     <1>14, <1>15, <1>16, <1>17, <1>18, <1>19, <1>20, <1>21, <1>22, <1>23, <1>24, <1>25,
     <1>26, <1>27, <1>28, <1>29, <1>30, <1>31, <1>32, <1>33, <1>34, <1>35, <1>36, <1>37,
     <1>38, <1>39, <1>40, <1>41, <1>42, <1>43, <1>44, <1>45 DEF Next, Program, Interrupt

\* At the end of its work on a player SoundMain gives its lock back.
LEMMA DoneLocks ==
  ASSUME IInv, hpc \in Bodies, Done, UNCHANGED <<pc, cp>>
  PROVE  LockInv'
<1>1. hp \in Players /\ hp \in Nat /\ \A p \in Players : p \in Nat /\ p <= NumPlayers
  BY SizeAssumption DEF IInv, MainInv, Players
<1>2. lock' = [lock EXCEPT ![hp] = 0] /\ lock \in [Players -> 0 .. 1]
  BY DEF Done, IInv, TypeOK
<1>3. \A p \in Players : CallHolds(p)' <=> CallHolds(p)
  BY DEF CallHolds
<1>4. \A p \in Players : MainHolds(p) <=> p >= hp
  BY DEF MainHolds, Bodies, OnTrack
<1>5. \A p \in Players : MainHolds(p)' <=> p >= hp /\ p # hp
  <2>1. WorkOn(hp + 1)
    BY DEF Done
  <2>2. CASE hpc' = "body" /\ hp' = hp + 1
    BY <1>1, <2>2 DEF MainHolds, Bodies, OnTrack
  <2>3. CASE hp = NumPlayers /\ hpc' = "mix"
    BY <1>1, <2>3 DEF MainHolds, Bodies, OnTrack
  <2>. QED
    BY <1>1, <2>1, <2>2, <2>3, WorkOnNext
<1>6. \A p \in Players :
        (lock[p] = 1 <=> CallHolds(p) \/ MainHolds(p)) /\ ~(CallHolds(p) /\ MainHolds(p))
  BY DEF IInv, LockInv
<1>7. ASSUME NEW p \in Players
      PROVE  /\ lock'[p] = 1 <=> CallHolds(p)' \/ MainHolds(p)'
             /\ ~(CallHolds(p)' /\ MainHolds(p)')
  BY <1>1, <1>2, <1>3, <1>4, <1>5, <1>6
<1>. QED
  BY <1>7 DEF LockInv

\* While SoundMain works on a player nobody's lock changes.
LEMMA WorkLocks ==
  ASSUME IInv, hpc \in Bodies, hpc' \in Bodies, UNCHANGED <<lock, hp, pc, cp>>
  PROVE  LockInv'
  BY DEF IInv, LockInv, CallHolds, MainHolds, Bodies, OnTrack

\* A lock is held by the call that took it or by SoundMain.
LEMMA LockStep ==
  ASSUME IInv, [Next]_vars
  PROVE  LockInv'
<1>1. CASE \E p \in Players : MPlayStart(p)
  BY <1>1 DEF MPlayStart, Call, Running, IInv, LockInv, CallHolds, MainHolds, Stopping,
     Holding, channels, tracks, infos, handler
<1>2. CASE \E p \in Players : \E f \in {"stop", "continue", "control"} : Simple(f, p)
  BY <1>2 DEF Simple, Call, Running, IInv, LockInv, CallHolds, MainHolds, Stopping,
     Holding, channels, tracks, infos, handler
<1>3. CASE \E p \in Players : \E f \in {"fadeout", "fadetemp", "fadein"} : FadeCall(f, p)
  BY <1>3 DEF FadeCall, Call, Running, IInv, LockInv, CallHolds, MainHolds, Stopping,
     Holding, channels, tracks, infos, handler
<1>4. CASE \E p \in Players : m4aMPlayImmInit(p)
  BY <1>4 DEF m4aMPlayImmInit, Call, Running, IInv, LockInv, CallHolds, MainHolds,
     Stopping, Holding, channels, tracks, infos, handler
<1>5. CASE MPlayStart_look
  BY <1>5 DEF MPlayStart_look, Goto, Return, Running, IInv, LockInv, CallHolds, MainHolds,
     Stopping, Holding, channels, tracks, infos, handler
<1>6. CASE MPlayStart_look2
  BY <1>6 DEF MPlayStart_look2, Goto, Return, Running, IInv, LockInv, CallHolds,
     MainHolds, Stopping, Holding, channels, tracks, infos, handler
<1>7. CASE MPlayStart_lock
  BY <1>7 DEF MPlayStart_lock, Locked, Running, IInv, TypeOK, LockInv, CallHolds,
     MainHolds, Stopping, Holding, OnTrack, Bodies, channels, tracks, handler
<1>8. CASE m4aMPlayStop_lock
  BY <1>8 DEF m4aMPlayStop_lock, Locked, Running, IInv, TypeOK, LockInv, CallHolds,
     MainHolds, Stopping, Holding, OnTrack, Bodies, channels, tracks, handler
<1>9. CASE MPlayContinue
  BY <1>9 DEF MPlayContinue, Locked, Goto, Running, IInv, TypeOK, LockInv, CallHolds,
     MainHolds, Stopping, Holding, OnTrack, Bodies, channels, tracks, handler
<1>10. CASE m4aMPlayControl
  BY <1>10 DEF m4aMPlayControl, Locked, Goto, Running, IInv, TypeOK, LockInv, CallHolds,
     MainHolds, Stopping, Holding, OnTrack, Bodies, channels, tracks, handler
<1>11. CASE MPlayFadeOut
  BY <1>11 DEF MPlayFadeOut, FadeStart, Locked, Goto, Running, IInv, TypeOK, LockInv,
     CallHolds, MainHolds, Stopping, Holding, OnTrack, Bodies, channels, tracks, handler
<1>12. CASE m4aMPlayFadeOutTemporarily
  BY <1>12 DEF m4aMPlayFadeOutTemporarily, FadeStart, Locked, Goto, Running, IInv, TypeOK,
     LockInv, CallHolds, MainHolds, Stopping, Holding, OnTrack, Bodies, channels, tracks,
     handler
<1>13. CASE m4aMPlayFadeIn
  BY <1>13 DEF m4aMPlayFadeIn, FadeStart, Locked, Goto, Running, IInv, TypeOK, LockInv,
     CallHolds, MainHolds, Stopping, Holding, OnTrack, Bodies, channels, tracks, handler
<1>14. CASE TrackStop
  BY <1>14 DEF TrackStop, Running, IInv, LockInv, CallHolds, MainHolds, Stopping, Holding,
     channels, tracks, infos, handler
<1>15. CASE TrackStop_silence
  BY <1>15 DEF TrackStop_silence, Goto, Running, IInv, LockInv, CallHolds, MainHolds,
     Stopping, Holding, tracks, infos, handler
<1>16. CASE TrackStop_disown
  BY <1>16 DEF TrackStop_disown, Goto, Running, IInv, LockInv, CallHolds, MainHolds,
     Stopping, Holding, tracks, infos, handler
<1>17. CASE TrackStop_follow
  BY <1>17 DEF TrackStop_follow, Running, IInv, LockInv, CallHolds, MainHolds, Stopping,
     Holding, channels, tracks, infos, handler
<1>18. CASE TrackStop_forget
  BY <1>18 DEF TrackStop_forget, Goto, Running, IInv, LockInv, CallHolds, MainHolds,
     Stopping, Holding, channels, infos, handler
<1>19. CASE AfterStop
  BY <1>19 DEF AfterStop, Running, IInv, LockInv, CallHolds, MainHolds, Stopping, Holding,
     channels, tracks, infos, handler
<1>20. CASE Unlock
  BY <1>20 DEF Unlock, Return, Running, IInv, TypeOK, LockInv, CallHolds, MainHolds,
     Stopping, Holding, channels, tracks, handler
<1>21. CASE m4aMPlayImmInit_test
  BY <1>21 DEF m4aMPlayImmInit_test, ImmNext, Goto, Return, Running, IInv, LockInv,
     CallHolds, MainHolds, Stopping, Holding, channels, tracks, infos, handler
<1>22. CASE m4aMPlayImmInit_clear
  BY <1>22 DEF m4aMPlayImmInit_clear, ImmNext, Goto, Return, Running, IInv, LockInv,
     CallHolds, MainHolds, Stopping, Holding, channels, infos, handler
<1>23. CASE SoundMain
  <2>1. \A p \in Players : ~MainHolds(p) /\ ~MainHolds(p)' /\ CallHolds(p)' = CallHolds(p)
    BY <1>23, SizeAssumption DEF SoundMain, Running, MainHolds, CallHolds, Bodies, OnTrack,
       Players, program
  <2>2. UNCHANGED lock
    BY <1>23 DEF SoundMain, infos
  <2>. QED
    BY <2>1, <2>2 DEF IInv, LockInv
<1>24. CASE MPlayMain
  <2>1. hp \in Players /\ hpc = "enter" /\ UNCHANGED <<pc, cp>>
    BY <1>24 DEF MPlayMain, IInv, MainInv, program
  <2>2. \A p \in Players : CallHolds(p)' <=> CallHolds(p)
    BY <2>1 DEF CallHolds
  <2>3. \A p \in Players : p \in Nat /\ p <= NumPlayers /\ p >= 1
    BY SizeAssumption DEF Players
  <2>4. \A p \in Players : MainHolds(p) <=> p > hp
    BY <2>1 DEF MainHolds, Bodies, OnTrack
  <2>5. \A p \in Players :
          (lock[p] = 1 <=> CallHolds(p) \/ MainHolds(p)) /\ ~(CallHolds(p) /\ MainHolds(p))
    BY DEF IInv, LockInv
  <2>6. lock \in [Players -> 0 .. 1]
    BY DEF IInv, TypeOK
  <2>7. CASE lock[hp] # 0
    <3>1. WorkOn(hp + 1) /\ UNCHANGED lock
      BY <1>24, <2>7 DEF MPlayMain
    <3>2. \A p \in Players : MainHolds(p)' <=> p > hp
      <4>1. CASE hpc' = "body" /\ hp' = hp + 1
        BY <2>1, <2>3, <4>1 DEF MainHolds, Bodies, OnTrack
      <4>2. CASE hp = NumPlayers /\ hpc' = "mix"
        BY <2>1, <2>3, <4>2 DEF MainHolds, Bodies, OnTrack
      <4>. QED
        BY <2>1, <3>1, <4>1, <4>2, WorkOnNext
    <3>. QED
      BY <2>2, <2>4, <2>5, <3>1, <3>2 DEF LockInv
  <2>8. CASE lock[hp] = 0
    <3>1. lock' = [lock EXCEPT ![hp] = 1]
      BY <1>24, <2>8 DEF MPlayMain
    <3>2. \A p \in Players : MainHolds(p)' <=> p >= hp
      <4>1. CASE hp = 1
        <5>1. WorkOn(1)
          BY <1>24, <2>8, <4>1 DEF MPlayMain
        <5>2. hpc' = "body" /\ hp' = hp
          BY <2>1, <4>1, <5>1 DEF WorkOn
        <5>. QED
          BY <5>2 DEF MainHolds, Bodies, OnTrack
      <4>2. CASE hp # 1
        <5>1. hpc' = "enter" /\ hp' = hp - 1
          BY <1>24, <2>8, <4>2 DEF MPlayMain
        <5>. QED
          BY <2>1, <2>3, <5>1 DEF MainHolds, Bodies, OnTrack
      <4>. QED
        BY <4>1, <4>2
    <3>3. ASSUME NEW p \in Players
          PROVE  /\ lock'[p] = 1 <=> CallHolds(p)' \/ MainHolds(p)'
                 /\ ~(CallHolds(p)' /\ MainHolds(p)')
      BY <2>1, <2>2, <2>3, <2>4, <2>5, <2>6, <2>8, <3>1, <3>2
    <3>. QED
      BY <3>3 DEF LockInv
  <2>. QED
    BY <2>7, <2>8
<1>25. CASE MPlayMain_paused
  <2>1. hpc \in Bodies /\ UNCHANGED <<pc, cp>>
    BY <1>25 DEF MPlayMain_paused, Bodies, OnTrack, channels, tracks, infos, program, handler
  <2>2. Done \/ (hpc' \in Bodies /\ UNCHANGED <<lock, hp>>)
    BY <1>25 DEF MPlayMain_paused, Bodies, OnTrack, channels, tracks, infos, program, handler
  <2>. QED
    BY <2>1, <2>2, DoneLocks, WorkLocks
<1>26. CASE FadeOutBody
  BY <1>26 DEF FadeOutBody, IInv, LockInv, CallHolds, MainHolds, OnTrack, Bodies,
     channels, tracks, program
<1>27. CASE FadeOutBody_stop
  BY <1>27 DEF FadeOutBody_stop, IInv, LockInv, CallHolds, MainHolds, OnTrack, Bodies,
     channels, tracks, infos, program
<1>28. CASE FadeOutBody_walk
  BY <1>28 DEF FadeOutBody_walk, IInv, LockInv, CallHolds, MainHolds, tracks, infos,
     program
<1>29. CASE FadeOutBody_next
  <2>1. hpc \in Bodies /\ UNCHANGED <<pc, cp>>
    BY <1>29 DEF FadeOutBody_next, Bodies, OnTrack, channels, tracks, infos, program, handler
  <2>2. Done \/ (hpc' \in Bodies /\ UNCHANGED <<lock, hp>>)
    BY <1>29 DEF FadeOutBody_next, Bodies, OnTrack, channels, tracks, infos, program, handler
  <2>. QED
    BY <2>1, <2>2, DoneLocks, WorkLocks
<1>30. CASE MPlayMain_tick
  BY <1>30 DEF MPlayMain_tick, IInv, LockInv, CallHolds, MainHolds, OnTrack, Bodies,
     channels, tracks, infos, program
<1>31. CASE MPlayMain_tempoDone
  BY <1>31 DEF MPlayMain_tempoDone, IInv, LockInv, CallHolds, MainHolds, OnTrack, Bodies,
     channels, tracks, infos, program
<1>32. CASE MPlayMain_noTrack
  <2>1. hpc \in Bodies /\ UNCHANGED <<pc, cp>>
    BY <1>32 DEF MPlayMain_noTrack, Bodies, OnTrack, channels, tracks, infos, program, handler
  <2>2. Done \/ (hpc' \in Bodies /\ UNCHANGED <<lock, hp>>)
    BY <1>32 DEF MPlayMain_noTrack, NextInTick, Bodies, OnTrack, channels, tracks,
       infos, program, handler
  <2>. QED
    BY <2>1, <2>2, DoneLocks, WorkLocks
<1>33. CASE MPlayMain_track
  BY <1>33 DEF MPlayMain_track, IInv, LockInv, CallHolds, MainHolds, OnTrack, Bodies,
     channels, tracks, infos, program
<1>34. CASE MPlayMain_walk
  BY <1>34 DEF MPlayMain_walk, IInv, LockInv, CallHolds, MainHolds, infos, program
<1>35. CASE MPlayMain_ready
  BY <1>35 DEF MPlayMain_ready, IInv, LockInv, CallHolds, MainHolds, OnTrack, Bodies,
     channels, tracks, infos, program
<1>36. CASE \E d \in TrackPrios, k \in 0 .. NumCgb : ply_note(d, k)
  BY <1>36 DEF ply_note, IInv, LockInv, CallHolds, MainHolds, channels, tracks, infos,
     program, handler
<1>37. CASE \E c \in Channels : ply_endtie(c)
  BY <1>37 DEF ply_endtie, IInv, LockInv, CallHolds, MainHolds, tracks, infos, program,
     handler
<1>38. CASE ply_fine
  BY <1>38 DEF ply_fine, IInv, LockInv, CallHolds, MainHolds, OnTrack, Bodies, channels,
     tracks, infos, program
<1>39. CASE ply_fine_walk
  BY <1>39 DEF ply_fine_walk, IInv, LockInv, CallHolds, MainHolds, infos, program
<1>40. CASE ply_fine_end
  <2>1. hpc \in Bodies /\ UNCHANGED <<pc, cp>>
    BY <1>40 DEF ply_fine_end, Bodies, OnTrack, channels, tracks, infos, program, handler
  <2>2. Done \/ (hpc' \in Bodies /\ UNCHANGED <<lock, hp>>)
    BY <1>40 DEF ply_fine_end, NextInTick, Bodies, OnTrack, channels, tracks, infos,
       program, handler
  <2>. QED
    BY <2>1, <2>2, DoneLocks, WorkLocks
<1>41. CASE MPlayMain_wait
  <2>1. hpc \in Bodies /\ UNCHANGED <<pc, cp>>
    BY <1>41 DEF MPlayMain_wait, Bodies, OnTrack, channels, tracks, infos, program, handler
  <2>2. Done \/ (hpc' \in Bodies /\ UNCHANGED <<lock, hp>>)
    BY <1>41 DEF MPlayMain_wait, NextInTick, Bodies, OnTrack, channels, tracks, infos,
       program, handler
  <2>. QED
    BY <2>1, <2>2, DoneLocks, WorkLocks
<1>42. CASE MPlayMain_vol
  BY <1>42 DEF MPlayMain_vol, IInv, LockInv, CallHolds, MainHolds, OnTrack, Bodies,
     channels, tracks, infos, program
<1>43. CASE MPlayMain_volNext
  <2>1. hpc \in Bodies /\ UNCHANGED <<pc, cp>>
    BY <1>43 DEF MPlayMain_volNext, Bodies, OnTrack, channels, tracks, infos, program, handler
  <2>2. Done \/ (hpc' \in Bodies /\ UNCHANGED <<lock, hp>>)
    BY <1>43 DEF MPlayMain_volNext, NextInVol, Bodies, OnTrack, channels, tracks, infos,
       program, handler
  <2>. QED
    BY <2>1, <2>2, DoneLocks, WorkLocks
<1>44. CASE SoundMainRAM
  BY <1>44 DEF SoundMainRAM, IInv, LockInv, CallHolds, MainHolds, OnTrack, Bodies, tracks,
     infos, program
<1>45. CASE UNCHANGED vars
  BY <1>45 DEF vars, IInv, LockInv, CallHolds, MainHolds, channels, tracks, infos,
     program, handler
<1>. QED
  BY <1>1, <1>2, <1>3, <1>4, <1>5, <1>6, <1>7, <1>8, <1>9, <1>10, <1>11, <1>12, <1>13,
     <1>14, <1>15, <1>16, <1>17, <1>18, <1>19, <1>20, <1>21, <1>22, <1>23, <1>24, <1>25,
     <1>26, <1>27, <1>28, <1>29, <1>30, <1>31, <1>32, <1>33, <1>34, <1>35, <1>36, <1>37,
     <1>38, <1>39, <1>40, <1>41, <1>42, <1>43, <1>44, <1>45 DEF Next, Program, Interrupt

\* Every step keeps the types, places, locks and fades as they should be.
LEMMA StepIInv ==
  ASSUME IInv, [Next]_vars PROVE IInv'
<1>1. CallInv' /\ MainInv' /\ LockInv' /\ FadeInv'
  BY CallStep, MainStep, LockStep, InfoTypes
<1>2. TypeOK'
  BY ChannelTypes, InfoTypes, CallStep, MainStep DEF TypeOK
<1>. QED
  BY <1>1, <1>2 DEF IInv

\* All players are open, and nothing plays.
LEMMA InitIInv == Init => IInv
<1> SUFFICES ASSUME Init PROVE IInv
  OBVIOUS
<1> USE SizeAssumption, ValueAssumption DEF Init
<1>1. TypeOK
  BY DEF TypeOK, AllCalls
<1>2. CallInv /\ MainInv
  BY DEF CallInv, MainInv, Stopping, Holding, Bodies, OnTrack
<1>3. LockInv /\ FadeInv
  BY DEF LockInv, FadeInv, CallHolds, MainHolds, Holding, Stopping, Bodies, OnTrack
<1>. QED
  BY <1>1, <1>2, <1>3 DEF IInv

\* Types, places, locks and fades are as they should be, whatever the program
\* calls and wherever SoundMain interrupts it.
THEOREM Invariance == SafeSpec => []IInv
<1>1. IInv /\ [Next]_vars => IInv'
  BY StepIInv
<1>. QED
  BY <1>1, InitIInv, PTL DEF SafeSpec

\* Every variable keeps its type: links and cursors are channels or none, the
\* priority of a note fits a byte, fade counters stay in range (m4a_1.s, m4a_2.c).
THEOREM TypeCorrect == SafeSpec => []TypeOK
<1>1. IInv => TypeOK
  BY DEF IInv
<1>. QED
  BY <1>1, Invariance, PTL

\* In every state, for any number of direct sound channels: the single pass of
\* ply_note over the channels finds the channel the note should get (m4a_1.s:1697).
THEOREM NoteFindsBest == SafeSpec => []NoteTakesBest
<1>1. TypeOK => NoteTakesBest
  BY ChoiceIsWanted
<1>. QED
  BY <1>1, TypeCorrect, PTL

-----------------------------------------------------------------------------
(***************************************************************************)
(* Songs and their priorities.                                             *)
(***************************************************************************)

\* The program and SoundMain never hold the same player.
LEMMA Apart ==
  ASSUME IInv, pc \in Holding, hpc \in Bodies PROVE cp # hp
<1>1. hp \in Players /\ hp >= hp
  BY Numbers DEF IInv, MainInv
<1>. QED
  BY <1>1 DEF IInv, LockInv, CallHolds, MainHolds

\* What the end of a fade does to a track, and where it goes on.
LEMMA FadeNext ==
  ASSUME PInv, FadeOutBody_next
  PROVE  /\ hp \in Players /\ ht \in Tracks /\ Owner[ht] = hp /\ hpc \in {"fade", "fadewalk"}
         /\ \A t \in Tracks : flags'[t] = flags[t] \/ (t = ht /\ flags'[t] = "none")
         /\ FadesTemp(ov[hp]) => flags' = flags /\ mask' = mask
         /\ ~FadesTemp(ov[hp]) =>
              \A t \in Tracks : Owner[t] = hp /\ t <= ht => flags'[t] = "none"
         /\ UNCHANGED <<song, ov, program>>
         /\ \/ /\ NextTrack(ht) # 0 /\ hpc' = "fade" /\ ht' = NextTrack(ht)
               /\ UNCHANGED <<mask, pause, hp>>
            \/ /\ NextTrack(ht) = 0 /\ hpc' \in {"body", "mix"}
               /\ pause' = [pause EXCEPT ![hp] = 1]
               /\ mask' = mask \/ mask' = [mask EXCEPT ![hp] = 0]
<1>1. hp \in Players /\ ht \in Tracks /\ Owner[ht] = hp /\ hpc \in {"fade", "fadewalk"}
  BY DEF FadeOutBody_next, PInv, IInv, MainInv, Bodies, OnTrack
<1>2. flags' = flags \/ (~FadesTemp(ov[hp]) /\ flags' = [flags EXCEPT ![ht] = "none"])
  BY DEF FadeOutBody_next, tracks
<1>3. flags \in [Tracks -> {"none", "start", "exist"}]
  BY DEF PInv, IInv, TypeOK
<1>4. ~FadesTemp(ov[hp]) => flags'[ht] = "none"
  BY <1>1, <1>3 DEF FadeOutBody_next, tracks
<1>5. ~FadesTemp(ov[hp]) => \A t \in Tracks : Owner[t] = hp /\ t < ht => flags[t] = "none"
  BY <1>1 DEF PInv, FlagInv
<1>6. ~FadesTemp(ov[hp]) => \A t \in Tracks : Owner[t] = hp /\ t <= ht => flags'[t] = "none"
  BY <1>1, <1>2, <1>3, <1>4, <1>5, Numbers
<1>7. /\ FadesTemp(ov[hp]) => mask' = mask
      /\ UNCHANGED <<song, ov, program>>
  BY DEF FadeOutBody_next, infos
<1>8. \/ /\ NextTrack(ht) # 0 /\ hpc' = "fade" /\ ht' = NextTrack(ht)
         /\ UNCHANGED <<mask, pause, hp>>
      \/ /\ NextTrack(ht) = 0 /\ hpc' \in {"body", "mix"}
         /\ pause' = [pause EXCEPT ![hp] = 1]
         /\ mask' = mask \/ mask' = [mask EXCEPT ![hp] = 0]
  BY DEF FadeOutBody_next, infos, Done, WorkOn
<1>. QED
  BY <1>1, <1>2, <1>3, <1>6, <1>7, <1>8

\* Where a tick goes on behind a track that had no song left.
LEMMA TickNext ==
  ASSUME PInv, hpc \in {"track", "cmd", "finewalk"}, NextInTick
  PROVE  /\ hp \in Players /\ ht \in Tracks /\ Owner[ht] = hp
         /\ \/ /\ NextTrack(ht) # 0 /\ hpc' = "track" /\ ht' = NextTrack(ht)
               /\ UNCHANGED <<infos, hp, alive>>
            \/ /\ NextTrack(ht) = 0 /\ alive = 1 /\ hpc' = "tempo"
               /\ mask' = [mask EXCEPT ![hp] = 1]
            \/ /\ NextTrack(ht) = 0 /\ alive = 0 /\ hpc' \in {"body", "mix"}
               /\ mask' = [mask EXCEPT ![hp] = 0]
  BY DEF NextInTick, Done, WorkOn, PInv, IInv, MainInv, OnTrack, Bodies

\* MPlayStart has started the first track of its player, or, for a song without
\* tracks, stopped all it has passed.
LEMMA FirstStarted ==
  ASSUME PInv, AfterStop, call = "start"
  PROVE  /\ cs # 0 => flags'[FirstTrack(cp)] = "start"
         /\ cs = 0 => \A t \in Tracks : Owner[t] = cp /\ t <= ct => flags'[t] = "none"
<1>1. /\ cp \in Players /\ ct \in Tracks /\ Owner[ct] = cp /\ pc = "set"
      /\ cs # 0 => cs \in Tracks /\ Owner[cs] = cp
  BY DEF AfterStop, PInv, IInv, CallInv, Stopping
<1>2. FirstTrack(cp) \in Tracks /\ FirstTrack(cp) <= ct
  BY <1>1, FirstTracks
<1>3. flags' = [flags EXCEPT ![ct] = IF ct <= cs THEN "start" ELSE "none"]
  BY DEF AfterStop
<1>4. flags \in [Tracks -> {"none", "start", "exist"}]
  BY DEF PInv, IInv, TypeOK
<1>5. ASSUME cs # 0 PROVE flags'[FirstTrack(cp)] = "start"
  <2>1. FirstTrack(cp) <= cs
    BY <1>1, <1>5, FirstTracks
  <2>2. FirstTrack(cp) < ct => flags[FirstTrack(cp)] = "start"
    BY <1>1, <1>5 DEF PInv, LookInv, Stopping
  <2>. QED
    BY <1>1, <1>2, <1>3, <1>4, <2>1, <2>2, Numbers
<1>6. ASSUME cs = 0, NEW t \in Tracks, Owner[t] = cp, t <= ct PROVE flags'[t] = "none"
  <2>1. t < ct => flags[t] = "none"
    BY <1>1, <1>6 DEF PInv, LookInv, Stopping
  <2>2. ~(ct <= cs)
    BY <1>1, <1>6, Numbers
  <2>. QED
    BY <1>1, <1>3, <1>4, <1>6, <2>1, <2>2, Numbers
<1>. QED
  BY <1>5, <1>6

\* SoundMain knows the flags of the tracks it has passed.
LEMMA FlagStep ==
  ASSUME PInv, [Next]_vars
  PROVE  FlagInv'
<1>1. CASE \E p \in Players : MPlayStart(p)
  BY <1>1 DEF MPlayStart, Call, Running, PInv, FlagInv, channels, tracks, infos, handler
<1>2. CASE \E p \in Players : \E f \in {"stop", "continue", "control"} : Simple(f, p)
  BY <1>2 DEF Simple, Call, Running, PInv, FlagInv, channels, tracks, infos, handler
<1>3. CASE \E p \in Players : \E f \in {"fadeout", "fadetemp", "fadein"} : FadeCall(f, p)
  BY <1>3 DEF FadeCall, Call, Running, PInv, FlagInv, channels, tracks, infos, handler
<1>4. CASE \E p \in Players : m4aMPlayImmInit(p)
  BY <1>4 DEF m4aMPlayImmInit, Call, Running, PInv, FlagInv, channels, tracks, infos,
     handler
<1>5. CASE MPlayStart_look
  BY <1>5 DEF MPlayStart_look, Goto, Return, Running, PInv, FlagInv, channels, tracks,
     infos, handler
<1>6. CASE MPlayStart_look2
  BY <1>6 DEF MPlayStart_look2, Goto, Return, Running, PInv, FlagInv, channels, tracks,
     infos, handler
<1>7. CASE MPlayStart_lock
  BY <1>7 DEF MPlayStart_lock, Locked, Running, PInv, FlagInv, channels, tracks, handler
<1>8. CASE m4aMPlayStop_lock
  BY <1>8 DEF m4aMPlayStop_lock, Locked, Running, PInv, FlagInv, channels, tracks, handler
<1>9. CASE MPlayContinue
  BY <1>9 DEF MPlayContinue, Locked, Goto, Running, PInv, FlagInv, channels, tracks,
     handler
<1>10. CASE m4aMPlayControl
  BY <1>10 DEF m4aMPlayControl, Locked, Goto, Running, PInv, FlagInv, channels, tracks,
     handler
<1>11. CASE MPlayFadeOut
  BY <1>11 DEF MPlayFadeOut, FadeStart, Locked, Goto, Running, PInv, FlagInv, channels,
     tracks, handler
<1>12. CASE m4aMPlayFadeOutTemporarily
  BY <1>12 DEF m4aMPlayFadeOutTemporarily, FadeStart, Locked, Goto, Running, PInv,
     FlagInv, channels, tracks, handler
<1>13. CASE m4aMPlayFadeIn
  BY <1>13 DEF m4aMPlayFadeIn, FadeStart, Locked, Goto, Running, PInv, FlagInv, channels,
     tracks, handler
<1>14. CASE TrackStop
  BY <1>14 DEF TrackStop, Running, PInv, FlagInv, channels, tracks, infos, handler
<1>15. CASE TrackStop_silence
  BY <1>15 DEF TrackStop_silence, Goto, Running, PInv, FlagInv, tracks, infos, handler
<1>16. CASE TrackStop_disown
  BY <1>16 DEF TrackStop_disown, Goto, Running, PInv, FlagInv, tracks, infos, handler
<1>17. CASE TrackStop_follow
  BY <1>17 DEF TrackStop_follow, Running, PInv, FlagInv, channels, tracks, infos, handler
<1>18. CASE TrackStop_forget
  BY <1>18 DEF TrackStop_forget, Goto, Running, PInv, FlagInv, channels, infos, handler
<1>19. CASE AfterStop
  BY <1>19 DEF AfterStop, Running, PInv, FlagInv, channels, tracks, infos, handler
<1>20. CASE Unlock
  BY <1>20 DEF Unlock, Return, Running, PInv, FlagInv, channels, tracks, handler
<1>21. CASE m4aMPlayImmInit_test
  BY <1>21 DEF m4aMPlayImmInit_test, ImmNext, Goto, Return, Running, PInv, FlagInv,
     channels, tracks, infos, handler
<1>22. CASE m4aMPlayImmInit_clear
  BY <1>22 DEF m4aMPlayImmInit_clear, ImmNext, Goto, Return, Running, PInv, FlagInv,
     channels, infos, handler
<1>23. CASE SoundMain
  BY <1>23 DEF SoundMain, Running, PInv, FlagInv, channels, tracks, infos, program
<1>24. CASE MPlayMain
  BY <1>24 DEF MPlayMain, WorkOn, PInv, FlagInv, channels, tracks, program
<1>25. CASE MPlayMain_paused
  BY <1>25 DEF MPlayMain_paused, Done, WorkOn, PInv, FlagInv, channels, tracks, program
<1>26. CASE FadeOutBody
  BY <1>26, FirstTracks, Numbers DEF FadeOutBody, PInv, FlagInv, IInv, MainInv, channels,
     tracks, program
<1>27. CASE FadeOutBody_stop
  BY <1>27 DEF FadeOutBody_stop, PInv, FlagInv, channels, tracks, infos, program
<1>28. CASE FadeOutBody_walk
  BY <1>28 DEF FadeOutBody_walk, PInv, FlagInv, tracks, infos, program
<1>29. CASE FadeOutBody_next
  <2>1. hpc' = "fade" => ht' = ht + 1 /\ hp' = hp /\ ov' = ov
    BY <1>29, FadeNext, NextTracks
  <2>2. hpc' \in {"fade", "body", "mix"}
    BY <1>29, FadeNext
  <2>3. ASSUME hpc' = "fade", ~FadesTemp(ov[hp]), NEW t \in Tracks, Owner[t] = hp, t < ht'
        PROVE  flags'[t] = "none"
    <3>1. t <= ht
      BY <1>29, <2>1, <2>3, FadeNext, Numbers
    <3>. QED
      BY <1>29, <2>3, <3>1, FadeNext
  <2>. QED
    BY <2>1, <2>2, <2>3 DEF FlagInv
<1>30. CASE MPlayMain_tick
  BY <1>30, FirstTracks, Numbers DEF MPlayMain_tick, PInv, FlagInv, IInv, MainInv,
     channels, tracks, infos, program
<1>31. CASE MPlayMain_tempoDone
  BY <1>31 DEF MPlayMain_tempoDone, PInv, FlagInv, channels, tracks, infos, program
<1>32. CASE MPlayMain_noTrack
  <2>1. hpc = "track" /\ flags[ht] = "none" /\ NextInTick /\ UNCHANGED flags
    BY <1>32 DEF MPlayMain_noTrack, tracks
  <2>2. hpc' \in {"track", "tempo", "body", "mix"}
    BY <2>1, TickNext
  <2>3. ASSUME hpc' = "track", alive' = 0, NEW t \in Tracks, Owner[t] = hp', t < ht'
        PROVE  flags'[t] = "none"
    <3>1. ht \in Tracks /\ ht' = ht + 1 /\ hp' = hp /\ alive = 0
      BY <2>1, <2>3, TickNext, NextTracks
    <3>2. t = ht \/ t < ht
      BY <2>3, <3>1, Numbers
    <3>. QED
      BY <2>1, <2>3, <3>1, <3>2 DEF PInv, FlagInv
  <2>. QED
    BY <2>2, <2>3 DEF FlagInv
<1>33. CASE MPlayMain_track
  BY <1>33 DEF MPlayMain_track, PInv, FlagInv, channels, tracks, infos, program
<1>34. CASE MPlayMain_walk
  BY <1>34 DEF MPlayMain_walk, PInv, FlagInv, infos, program
<1>35. CASE MPlayMain_ready
  BY <1>35 DEF MPlayMain_ready, PInv, FlagInv, IInv, TypeOK, MainInv, OnTrack, Bodies,
     channels, tracks, infos, program
<1>36. CASE \E d \in TrackPrios, k \in 0 .. NumCgb : ply_note(d, k)
  BY <1>36 DEF ply_note, PInv, FlagInv, channels, tracks, infos, program, handler
<1>37. CASE \E c \in Channels : ply_endtie(c)
  BY <1>37 DEF ply_endtie, PInv, FlagInv, tracks, infos, program, handler
<1>38. CASE ply_fine
  BY <1>38 DEF ply_fine, PInv, FlagInv, channels, tracks, infos, program
<1>39. CASE ply_fine_walk
  BY <1>39 DEF ply_fine_walk, PInv, FlagInv, infos, program
<1>40. CASE ply_fine_end
  BY <1>40 DEF ply_fine_end, NextInTick, PInv, FlagInv, channels, infos, program
<1>41. CASE MPlayMain_wait
  BY <1>41 DEF MPlayMain_wait, NextInTick, PInv, FlagInv, channels, tracks, infos, program
<1>42. CASE MPlayMain_vol
  BY <1>42 DEF MPlayMain_vol, PInv, FlagInv, channels, tracks, infos, program
<1>43. CASE MPlayMain_volNext
  BY <1>43 DEF MPlayMain_volNext, NextInVol, Done, WorkOn, PInv, FlagInv, channels,
     tracks, program
<1>44. CASE SoundMainRAM
  BY <1>44 DEF SoundMainRAM, PInv, FlagInv, tracks, infos, program
<1>45. CASE UNCHANGED vars
  BY <1>45 DEF vars, PInv, FlagInv, channels, tracks, infos, program, handler
<1>. QED
  BY <1>1, <1>2, <1>3, <1>4, <1>5, <1>6, <1>7, <1>8, <1>9, <1>10, <1>11, <1>12, <1>13,
     <1>14, <1>15, <1>16, <1>17, <1>18, <1>19, <1>20, <1>21, <1>22, <1>23, <1>24, <1>25,
     <1>26, <1>27, <1>28, <1>29, <1>30, <1>31, <1>32, <1>33, <1>34, <1>35, <1>36, <1>37,
     <1>38, <1>39, <1>40, <1>41, <1>42, <1>43, <1>44, <1>45 DEF Next, Program, Interrupt

\* A player SoundMain may interrupt has its first track started, or no track left,
\* until it is stepped.
LEMMA SongStep ==
  ASSUME PInv, [Next]_vars
  PROVE  SongInv'
<1>1. CASE \E p \in Players : MPlayStart(p)
  BY <1>1 DEF MPlayStart, Call, Running, PInv, SongInv, IInv, Stopping, Gone, Starting,
     Ticking, Ending, channels, tracks, infos, handler
<1>2. CASE \E p \in Players : \E f \in {"stop", "continue", "control"} : Simple(f, p)
  BY <1>2 DEF Simple, Call, Running, PInv, SongInv, IInv, Stopping, Gone, Starting,
     Ticking, Ending, channels, tracks, infos, handler
<1>3. CASE \E p \in Players : \E f \in {"fadeout", "fadetemp", "fadein"} : FadeCall(f, p)
  BY <1>3 DEF FadeCall, Call, Running, PInv, SongInv, IInv, Stopping, Gone, Starting,
     Ticking, Ending, channels, tracks, infos, handler
<1>4. CASE \E p \in Players : m4aMPlayImmInit(p)
  BY <1>4 DEF m4aMPlayImmInit, Call, Running, PInv, SongInv, IInv, Stopping, Gone,
     Starting, Ticking, Ending, channels, tracks, infos, handler
<1>5. CASE MPlayStart_look
  BY <1>5 DEF MPlayStart_look, Goto, Return, Running, PInv, SongInv, IInv, Stopping, Gone,
     Starting, Ticking, Ending, channels, tracks, infos, handler
<1>6. CASE MPlayStart_look2
  BY <1>6 DEF MPlayStart_look2, Goto, Return, Running, PInv, SongInv, IInv, Stopping,
     Gone, Starting, Ticking, Ending, channels, tracks, infos, handler
<1>7. CASE MPlayStart_lock
  BY <1>7 DEF MPlayStart_lock, Locked, Running, PInv, SongInv, IInv, Stopping, Gone,
     Starting, Ticking, Ending, channels, tracks, handler
<1>8. CASE m4aMPlayStop_lock
  BY <1>8 DEF m4aMPlayStop_lock, Locked, Running, PInv, SongInv, Gone, Starting, Ticking,
     Ending, channels, tracks, handler
<1>9. CASE MPlayContinue
  BY <1>9 DEF MPlayContinue, Locked, Goto, Running, PInv, SongInv, Gone, Starting,
     Ticking, Ending, channels, tracks, handler
<1>10. CASE m4aMPlayControl
  BY <1>10 DEF m4aMPlayControl, Locked, Goto, Running, PInv, SongInv, Gone, Starting,
     Ticking, Ending, channels, tracks, handler
<1>11. CASE MPlayFadeOut
  BY <1>11 DEF MPlayFadeOut, FadeStart, Locked, Goto, Running, PInv, SongInv, Gone,
     Starting, Ticking, Ending, channels, tracks, handler
<1>12. CASE m4aMPlayFadeOutTemporarily
  BY <1>12 DEF m4aMPlayFadeOutTemporarily, FadeStart, Locked, Goto, Running, PInv,
     SongInv, Gone, Starting, Ticking, Ending, channels, tracks, handler
<1>13. CASE m4aMPlayFadeIn
  BY <1>13 DEF m4aMPlayFadeIn, FadeStart, Locked, Goto, Running, PInv, SongInv, Gone,
     Starting, Ticking, Ending, channels, tracks, handler
<1>14. CASE TrackStop
  BY <1>14 DEF TrackStop, Running, PInv, SongInv, IInv, Stopping, Gone, Starting, Ticking,
     Ending, channels, tracks, infos, handler
<1>15. CASE TrackStop_silence
  BY <1>15 DEF TrackStop_silence, Goto, Running, PInv, SongInv, IInv, Stopping, Gone,
     Starting, Ticking, Ending, tracks, infos, handler
<1>16. CASE TrackStop_disown
  BY <1>16 DEF TrackStop_disown, Goto, Running, PInv, SongInv, IInv, Stopping, Gone,
     Starting, Ticking, Ending, tracks, infos, handler
<1>17. CASE TrackStop_follow
  BY <1>17 DEF TrackStop_follow, Running, PInv, SongInv, IInv, Stopping, Gone, Starting,
     Ticking, Ending, channels, tracks, infos, handler
<1>18. CASE TrackStop_forget
  BY <1>18 DEF TrackStop_forget, Goto, Running, PInv, SongInv, IInv, Stopping, Gone,
     Starting, Ticking, Ending, channels, infos, handler
<1>19. CASE AfterStop
  <2>1. /\ pc = "set" /\ cp \in Players /\ ct \in Tracks /\ Owner[ct] = cp
        /\ flags \in [Tracks -> {"none", "start", "exist"}]
        /\ UNCHANGED <<mask, call, cp, handler, ov>>
    BY <1>19 DEF AfterStop, PInv, IInv, TypeOK, CallInv, Stopping, infos
  <2>2. CASE call # "start"
    <3>1. UNCHANGED flags
      BY <1>19, <2>2 DEF AfterStop, tracks
    <3>. QED
      BY <2>1, <2>2, <3>1 DEF PInv, SongInv, Gone, Starting, Ticking, Ending, handler
  <2>3. CASE call = "start"
    <3>1. \/ flags'[FirstTrack(cp)] = "start" \/ Gone(cp)'
          \/ pc' = "stop"
      <4>1. CASE cs = 0 /\ NextTrack(ct) = 0
        <5>1. \A t \in Tracks : Owner[t] = cp => t <= ct
          BY <2>1, <4>1, NextTracks
        <5>2. \A t \in Tracks : Owner[t] = cp /\ t <= ct => flags'[t] = "none"
          BY <1>19, <2>3, <4>1, FirstStarted
        <5>. QED
          BY <2>1, <5>1, <5>2 DEF Gone
      <4>2. CASE cs # 0
        BY <1>19, <2>3, <4>2, FirstStarted
      <4>3. CASE NextTrack(ct) # 0
        BY <1>19, <4>3 DEF AfterStop
      <4>. QED
        BY <4>1, <4>2, <4>3
    <3>2. \A t \in Tracks : t # ct => flags'[t] = flags[t]
      BY <1>19, <2>1, <2>3 DEF AfterStop
    <3>3. ASSUME NEW p \in Preempt, p # cp
          PROVE  \/ mask'[p] = 1 \/ flags'[FirstTrack(p)] = "start" \/ Gone(p)'
                 \/ Ticking(p)' \/ Ending(p)'
      <4>1. p \in Players
        BY ValueAssumption
      <4>2. FirstTrack(p) \in Tracks /\ FirstTrack(p) # ct
        BY <2>1, <3>3, <4>1, FirstTracks
      <4>3. Gone(p) => Gone(p)'
        BY <2>1, <3>2, <3>3 DEF Gone
      <4>. QED
        BY <2>1, <3>2, <3>3, <4>2, <4>3 DEF PInv, SongInv, Starting, Ticking, Ending, handler
    <3>4. pc' = "stop" => Starting(cp)'
      BY <2>1, <2>3 DEF Starting, Stopping
    <3>. QED
      BY <2>1, <3>1, <3>3, <3>4 DEF SongInv
  <2>. QED
    BY <2>2, <2>3
<1>20. CASE Unlock
  BY <1>20 DEF Unlock, Return, Running, PInv, SongInv, IInv, Stopping, Gone, Starting,
     Ticking, Ending, channels, tracks, handler
<1>21. CASE m4aMPlayImmInit_test
  BY <1>21 DEF m4aMPlayImmInit_test, ImmNext, Goto, Return, Running, PInv, SongInv, IInv,
     Stopping, Gone, Starting, Ticking, Ending, channels, tracks, infos, handler
<1>22. CASE m4aMPlayImmInit_clear
  BY <1>22, ValueAssumption, FirstTracks DEF m4aMPlayImmInit_clear, ImmNext, Goto, Return,
     Running, PInv, SongInv, IInv, CallInv, Gone, Starting, Ticking, Ending, channels,
     infos, handler
<1>23. CASE SoundMain
  BY <1>23 DEF SoundMain, Running, PInv, SongInv, Gone, Starting, Ticking, Ending,
     channels, tracks, infos, program
<1>24. CASE MPlayMain
  BY <1>24 DEF MPlayMain, PInv, SongInv, Gone, Starting, Ticking, Ending, channels,
     tracks, program
<1>25. CASE MPlayMain_paused
  BY <1>25 DEF MPlayMain_paused, PInv, SongInv, Gone, Starting, Ticking, Ending, channels,
     tracks, program
<1>26. CASE FadeOutBody
  BY <1>26 DEF FadeOutBody, PInv, SongInv, Gone, Starting, Ticking, Ending, channels,
     tracks, program
<1>27. CASE FadeOutBody_stop
  BY <1>27 DEF FadeOutBody_stop, PInv, SongInv, Gone, Starting, Ticking, Ending, channels,
     tracks, infos, program
<1>28. CASE FadeOutBody_walk
  BY <1>28 DEF FadeOutBody_walk, PInv, SongInv, Gone, Starting, Ticking, Ending, tracks,
     infos, program
<1>29. CASE FadeOutBody_next
  <2>1. ASSUME NEW p \in Preempt, p # hp
        PROVE  \/ mask'[p] = 1 \/ flags'[FirstTrack(p)] = "start" \/ Gone(p)' \/ Starting(p)'
    <3>1. p \in Players /\ FirstTrack(p) \in Tracks /\ Owner[FirstTrack(p)] = p
      BY FirstTracks, ValueAssumption
    <3>2. \A t \in Tracks : Owner[t] = p => flags'[t] = flags[t]
      BY <1>29, <2>1, FadeNext
    <3>3. mask[p] = 1 => mask'[p] = 1
      BY <1>29, <2>1, <3>1, FadeNext DEF PInv, IInv, TypeOK
    <3>4. mask[p] = 1 \/ flags[FirstTrack(p)] = "start" \/ Gone(p) \/ Starting(p)
      BY <2>1 DEF PInv, SongInv, Ticking, Ending
    <3>. QED
      BY <1>29, <3>1, <3>2, <3>3, <3>4, FadeNext DEF Gone, Starting, program
  <2>2. ASSUME NEW p \in Preempt, p = hp, FadesTemp(ov[hp])
        PROVE  \/ mask'[p] = 1 \/ flags'[FirstTrack(p)] = "start" \/ Gone(p)' \/ Starting(p)'
    <3>1. UNCHANGED <<flags, mask, program>> /\ hpc \in {"fade", "fadewalk"}
      BY <1>29, <2>2, FadeNext
    <3>2. mask[p] = 1 \/ flags[FirstTrack(p)] = "start" \/ Gone(p) \/ Starting(p)
      BY <2>2, <3>1 DEF PInv, SongInv, Ticking, Ending
    <3>. QED
      BY <3>1, <3>2 DEF Gone, Starting, program
  <2>3. ASSUME NEW p \in Preempt, p = hp, ~FadesTemp(ov[hp])
        PROVE  Gone(p)' \/ Ending(p)'
    <3>1. CASE NextTrack(ht) # 0
      BY <1>29, <2>3, <3>1, FadeNext DEF Ending
    <3>2. CASE NextTrack(ht) = 0
      <4>1. \A t \in Tracks : Owner[t] = hp => t <= ht
        BY <1>29, <3>2, FadeNext, NextTracks
      <4>. QED
        BY <1>29, <2>3, <4>1, FadeNext DEF Gone
    <3>. QED
      BY <3>1, <3>2
  <2>. QED
    BY <2>1, <2>2, <2>3 DEF SongInv
<1>30. CASE MPlayMain_tick
  BY <1>30 DEF MPlayMain_tick, PInv, SongInv, Gone, Starting, Ticking, Ending, channels,
     tracks, infos, program
<1>31. CASE MPlayMain_tempoDone
  BY <1>31 DEF MPlayMain_tempoDone, PInv, SongInv, Gone, Starting, Ticking, Ending,
     channels, tracks, infos, program
<1>32. CASE MPlayMain_noTrack
  <2>1. hpc = "track" /\ flags[ht] = "none" /\ NextInTick /\ UNCHANGED <<flags, program>>
    BY <1>32 DEF MPlayMain_noTrack, tracks
  <2>2. CASE NextTrack(ht) # 0
    <3>1. hpc' = hpc /\ UNCHANGED <<mask, hp, alive>>
      BY <2>1, <2>2, TickNext DEF infos
    <3>. QED
      BY <2>1, <3>1 DEF PInv, SongInv, Gone, Starting, Ticking, Ending, program
  <2>3. CASE NextTrack(ht) = 0
    <3>1. /\ hp \in Players /\ ht \in Tracks /\ Owner[ht] = hp /\ mask \in [Players -> 0 .. 1]
          /\ mask' = [mask EXCEPT ![hp] = 1] \/ mask' = [mask EXCEPT ![hp] = 0]
          /\ mask' = [mask EXCEPT ![hp] = 0] => alive = 0
      BY <2>1, <2>3, TickNext DEF PInv, IInv, TypeOK
    <3>2. alive = 0 => \A t \in Tracks : Owner[t] = hp => flags'[t] = "none"
      <4>1. \A t \in Tracks : Owner[t] = hp => t = ht \/ t < ht
        BY <2>3, <3>1, NextTracks, Numbers
      <4>. QED
        BY <2>1, <4>1 DEF PInv, FlagInv
    <3>3. ASSUME NEW p \in Preempt, p # hp
          PROVE  mask'[p] = 1 \/ flags'[FirstTrack(p)] = "start" \/ Gone(p)' \/ Starting(p)'
      <4>1. mask'[p] = mask[p]
        BY <3>1, <3>3, ValueAssumption
      <4>. QED
        BY <2>1, <3>3, <4>1 DEF PInv, SongInv, Gone, Starting, Ticking, Ending, program
    <3>4. ASSUME NEW p \in Preempt, p = hp PROVE mask'[p] = 1 \/ Gone(p)'
      BY <3>1, <3>2, <3>4 DEF Gone
    <3>. QED
      BY <3>3, <3>4 DEF SongInv
  <2>. QED
    BY <2>2, <2>3
<1>33. CASE MPlayMain_track
  BY <1>33 DEF MPlayMain_track, PInv, SongInv, Gone, Starting, Ticking, Ending, channels,
     tracks, infos, program
<1>34. CASE MPlayMain_walk
  BY <1>34 DEF MPlayMain_walk, PInv, SongInv, Gone, Starting, Ticking, Ending, infos,
     program
<1>35. CASE MPlayMain_ready
  BY <1>35, SizeAssumption, FirstTracks DEF MPlayMain_ready, PInv, SongInv, IInv, TypeOK,
     MainInv, OnTrack, Bodies, Gone, Starting, Ticking, Ending, channels, tracks, infos,
     program
<1>36. CASE \E d \in TrackPrios, k \in 0 .. NumCgb : ply_note(d, k)
  BY <1>36 DEF ply_note, PInv, SongInv, Gone, Starting, Ticking, Ending, channels, tracks,
     infos, program, handler
<1>37. CASE \E c \in Channels : ply_endtie(c)
  BY <1>37 DEF ply_endtie, PInv, SongInv, Gone, Starting, Ticking, Ending, tracks, infos,
     program, handler
<1>38. CASE ply_fine
  BY <1>38 DEF ply_fine, PInv, SongInv, Gone, Starting, Ticking, Ending, channels, tracks,
     infos, program
<1>39. CASE ply_fine_walk
  BY <1>39 DEF ply_fine_walk, PInv, SongInv, Gone, Starting, Ticking, Ending, infos,
     program
<1>40. CASE ply_fine_end
  BY <1>40, ValueAssumption, Numbers DEF ply_fine_end, NextInTick, PInv, SongInv, FlagInv,
     IInv, TypeOK, Gone, Starting, Ticking, Ending, channels, infos, program
<1>41. CASE MPlayMain_wait
  BY <1>41, SizeAssumption DEF MPlayMain_wait, NextInTick, PInv, SongInv, FlagInv, IInv,
     TypeOK, Gone, Starting, Ticking, Ending, channels, tracks, infos, program
<1>42. CASE MPlayMain_vol
  BY <1>42 DEF MPlayMain_vol, PInv, SongInv, Gone, Starting, Ticking, Ending, channels,
     tracks, infos, program
<1>43. CASE MPlayMain_volNext
  BY <1>43 DEF MPlayMain_volNext, NextInVol, PInv, SongInv, Gone, Starting, Ticking,
     Ending, channels, tracks, program
<1>44. CASE SoundMainRAM
  BY <1>44 DEF SoundMainRAM, PInv, SongInv, Gone, Starting, Ticking, Ending, tracks,
     infos, program
<1>45. CASE UNCHANGED vars
  BY <1>45 DEF vars, PInv, SongInv, Gone, Starting, Ticking, Ending, channels, tracks,
     infos, program, handler
<1>. QED
  BY <1>1, <1>2, <1>3, <1>4, <1>5, <1>6, <1>7, <1>8, <1>9, <1>10, <1>11, <1>12, <1>13,
     <1>14, <1>15, <1>16, <1>17, <1>18, <1>19, <1>20, <1>21, <1>22, <1>23, <1>24, <1>25,
     <1>26, <1>27, <1>28, <1>29, <1>30, <1>31, <1>32, <1>33, <1>34, <1>35, <1>36, <1>37,
     <1>38, <1>39, <1>40, <1>41, <1>42, <1>43, <1>44, <1>45 DEF Next, Program, Interrupt

\* What MPlayStart has seen stays so.
LEMMA LookStep ==
  ASSUME PInv, [Next]_vars
  PROVE  LookInv'
<1>1. CASE \E p \in Players : MPlayStart(p)
  BY <1>1 DEF MPlayStart, Call, Running, PInv, LookInv, SongInv, IInv, Stopping, channels,
     tracks, infos, handler
<1>2. CASE \E p \in Players : \E f \in {"stop", "continue", "control"} : Simple(f, p)
  BY <1>2 DEF Simple, Call, Running, PInv, LookInv, channels, tracks, infos, handler
<1>3. CASE \E p \in Players : \E f \in {"fadeout", "fadetemp", "fadein"} : FadeCall(f, p)
  BY <1>3 DEF FadeCall, Call, Running, PInv, LookInv, channels, tracks, infos, handler
<1>4. CASE \E p \in Players : m4aMPlayImmInit(p)
  BY <1>4 DEF m4aMPlayImmInit, Call, Running, PInv, LookInv, channels, tracks, infos,
     handler
<1>5. CASE MPlayStart_look
  BY <1>5 DEF MPlayStart_look, Goto, Return, Running, PInv, LookInv, SongInv, IInv,
     CallInv, Stopping, channels, tracks, infos, handler
<1>6. CASE MPlayStart_look2
  BY <1>6 DEF MPlayStart_look2, Goto, Return, Running, PInv, LookInv, SongInv, IInv,
     Stopping, Gone, Starting, Ticking, Ending, channels, tracks, infos, handler
<1>7. CASE MPlayStart_lock
  BY <1>7, FirstTracks, Numbers DEF MPlayStart_lock, Locked, Running, PInv, LookInv,
     SongInv, IInv, CallInv, channels, tracks, handler
<1>8. CASE m4aMPlayStop_lock
  BY <1>8 DEF m4aMPlayStop_lock, Locked, Running, PInv, LookInv, channels, tracks, handler
<1>9. CASE MPlayContinue
  BY <1>9 DEF MPlayContinue, Locked, Goto, Running, PInv, LookInv, channels, tracks,
     handler
<1>10. CASE m4aMPlayControl
  BY <1>10 DEF m4aMPlayControl, Locked, Goto, Running, PInv, LookInv, channels, tracks,
     handler
<1>11. CASE MPlayFadeOut
  BY <1>11 DEF MPlayFadeOut, FadeStart, Locked, Goto, Running, PInv, LookInv, channels,
     tracks, handler
<1>12. CASE m4aMPlayFadeOutTemporarily
  BY <1>12 DEF m4aMPlayFadeOutTemporarily, FadeStart, Locked, Goto, Running, PInv,
     LookInv, channels, tracks, handler
<1>13. CASE m4aMPlayFadeIn
  BY <1>13 DEF m4aMPlayFadeIn, FadeStart, Locked, Goto, Running, PInv, LookInv, channels,
     tracks, handler
<1>14. CASE TrackStop
  BY <1>14 DEF TrackStop, Running, PInv, LookInv, SongInv, IInv, Stopping, channels,
     tracks, infos, handler
<1>15. CASE TrackStop_silence
  BY <1>15 DEF TrackStop_silence, Goto, Running, PInv, LookInv, SongInv, IInv, Stopping,
     tracks, infos, handler
<1>16. CASE TrackStop_disown
  BY <1>16 DEF TrackStop_disown, Goto, Running, PInv, LookInv, SongInv, IInv, Stopping,
     tracks, infos, handler
<1>17. CASE TrackStop_follow
  BY <1>17 DEF TrackStop_follow, Running, PInv, LookInv, SongInv, IInv, Stopping,
     channels, tracks, infos, handler
<1>18. CASE TrackStop_forget
  BY <1>18 DEF TrackStop_forget, Goto, Running, PInv, LookInv, SongInv, IInv, Stopping,
     channels, infos, handler
<1>19. CASE AfterStop
  <2>1. /\ pc' \in {"stop", "unlock"} /\ UNCHANGED <<call, cp, cs>>
        /\ ct' = ct \/ (NextTrack(ct) # 0 /\ ct' = NextTrack(ct))
        /\ ct \in Tracks
    BY <1>19 DEF AfterStop, PInv, IInv, CallInv, Stopping
  <2>2. call = "start" /\ cs # 0 => flags'[FirstTrack(cp)] = "start"
    BY <1>19, FirstStarted
  <2>3. call = "start" /\ cs = 0 =>
          \A t \in Tracks : Owner[t] = cp /\ t <= ct => flags'[t] = "none"
    BY <1>19, FirstStarted
  <2>4. \A t \in Tracks : t < ct' => t <= ct
    BY <2>1, NextTracks, Numbers
  <2>5. (pc \in Stopping /\ call = "start" /\ cs = 0 =>
          \A t \in Tracks : Owner[t] = cp /\ t < ct => flags[t] = "none")'
    BY <2>1, <2>3, <2>4
  <2>. QED
    BY <2>1, <2>2, <2>5 DEF LookInv
<1>20. CASE Unlock
  BY <1>20 DEF Unlock, Return, Running, PInv, LookInv, channels, tracks, handler
<1>21. CASE m4aMPlayImmInit_test
  BY <1>21 DEF m4aMPlayImmInit_test, ImmNext, Goto, Return, Running, PInv, LookInv,
     SongInv, IInv, Stopping, channels, tracks, infos, handler
<1>22. CASE m4aMPlayImmInit_clear
  BY <1>22 DEF m4aMPlayImmInit_clear, ImmNext, Goto, Return, Running, PInv, LookInv,
     SongInv, IInv, Stopping, channels, infos, handler
<1>23. CASE SoundMain
  BY <1>23 DEF SoundMain, Running, PInv, LookInv, Gone, Ticking, channels, tracks, infos,
     program
<1>24. CASE MPlayMain
  BY <1>24 DEF MPlayMain, WorkOn, PInv, LookInv, Gone, Ticking, channels, tracks, program
<1>25. CASE MPlayMain_paused
  BY <1>25 DEF MPlayMain_paused, Done, WorkOn, PInv, LookInv, Gone, Ticking, channels,
     tracks, program
<1>26. CASE FadeOutBody
  BY <1>26 DEF FadeOutBody, PInv, LookInv, Gone, Ticking, channels, tracks, program
<1>27. CASE FadeOutBody_stop
  BY <1>27 DEF FadeOutBody_stop, PInv, LookInv, Gone, Ticking, channels, tracks, infos,
     program
<1>28. CASE FadeOutBody_walk
  BY <1>28 DEF FadeOutBody_walk, PInv, LookInv, Gone, Ticking, tracks, infos, program
<1>29. CASE FadeOutBody_next
  <2>1. /\ UNCHANGED <<song, program>> /\ hpc \in Bodies
        /\ hpc' \in {"fade", "body", "mix"}
    BY <1>29, FadeNext DEF Bodies, OnTrack
  <2>2. \A t \in Tracks : flags[t] # "start" => flags'[t] # "start"
    BY <1>29, FadeNext
  <2>3. \A p \in Players :
          (pause[p] = 1 => pause'[p] = 1) /\ (mask[p] = 0 => mask'[p] = 0) /\ (Gone(p) => Gone(p)')
    BY <1>29, FadeNext DEF Gone, PInv, IInv, TypeOK
  <2>4. pc # "idle" => cp \in Players /\ FirstTrack(cp) \in Tracks /\ Owner[FirstTrack(cp)] = cp
    BY FirstTracks DEF PInv, IInv, CallInv
  <2>5. pc \in Stopping => flags'[FirstTrack(cp)] = flags[FirstTrack(cp)]
    <3>1. pc \in Stopping => cp # hp /\ pc # "idle"
      BY <2>1, Apart DEF Holding, PInv, Stopping
    <3>. QED
      BY <1>29, <2>4, <3>1, FadeNext
  <2>6. \A p \in Players : ~Ticking(p)'
    BY <2>1 DEF Ticking
  <2>7. (pc \in Stopping /\ call = "start" /\ cs # 0 /\ FirstTrack(cp) < ct =>
          flags[FirstTrack(cp)] = "start")'
    BY <2>1, <2>5 DEF PInv, LookInv, program
  <2>10. (pc \in Stopping /\ call = "start" /\ cs = 0 =>
           \A t \in Tracks : Owner[t] = cp /\ t < ct => flags[t] = "none")'
    <3>1. \A t \in Tracks : flags[t] = "none" => flags'[t] = "none"
      BY <1>29, FadeNext
    <3>. QED
      BY <2>1, <3>1 DEF PInv, LookInv, program
  <2>8. (pc = "look2" /\ cp \in Guarded =>
          song[cp] <= cs \/ flags[FirstTrack(cp)] # "start")'
    BY <2>1, <2>2, <2>4 DEF PInv, LookInv, program
  <2>9. (pc = "lock" /\ call = "start" /\ cp \in Guarded =>
            \/ song[cp] <= cs
            \/ /\ flags[FirstTrack(cp)] # "start"
               /\ \/ pause[cp] = 1
                  \/ mask[cp] = 0 /\ cp \notin Preempt
                  \/ mask[cp] = 0 /\ Gone(cp) /\ ~Ticking(cp))'
    BY <2>1, <2>2, <2>3, <2>4, <2>6 DEF PInv, LookInv, program
  <2>. QED
    BY <2>7, <2>8, <2>9, <2>10 DEF LookInv
<1>30. CASE MPlayMain_tick
  BY <1>30 DEF MPlayMain_tick, PInv, LookInv, Gone, Ticking, channels, tracks, infos,
     program
<1>31. CASE MPlayMain_tempoDone
  BY <1>31 DEF MPlayMain_tempoDone, PInv, LookInv, Gone, Ticking, channels, tracks, infos,
     program
<1>32. CASE MPlayMain_noTrack
  BY <1>32 DEF MPlayMain_noTrack, NextInTick, Done, WorkOn, PInv, LookInv, SongInv, IInv,
     TypeOK, CallInv, Gone, Starting, Ticking, Ending, channels, tracks, infos, program
<1>33. CASE MPlayMain_track
  BY <1>33 DEF MPlayMain_track, PInv, LookInv, SongInv, IInv, MainInv, OnTrack, Bodies,
     Gone, Starting, Ticking, Ending, channels, tracks, infos, program
<1>34. CASE MPlayMain_walk
  BY <1>34 DEF MPlayMain_walk, PInv, LookInv, Gone, Ticking, infos, program
<1>35. CASE MPlayMain_ready
  <2>1. /\ hpc = "tickwalk" /\ hpc' = "cmd" /\ UNCHANGED <<infos, program, hp>>
        /\ hp \in Players /\ ht \in Tracks /\ Owner[ht] = hp /\ flags[ht] # "none" /\ alive' = alive
    BY <1>35 DEF MPlayMain_ready, PInv, IInv, MainInv, FlagInv, OnTrack, Bodies
  <2>2. \A t \in Tracks : flags'[t] = flags[t] \/ (t = ht /\ flags'[t] = "exist")
    BY <1>35, <2>1 DEF MPlayMain_ready, tracks, PInv, IInv, TypeOK
  <2>3. pc # "idle" => cp \in Players /\ FirstTrack(cp) \in Tracks /\ Owner[FirstTrack(cp)] = cp
    BY FirstTracks DEF PInv, IInv, CallInv
  <2>4. pc \in Stopping => flags'[FirstTrack(cp)] = flags[FirstTrack(cp)]
    <3>1. pc \in Stopping => cp # hp /\ pc # "idle"
      BY <2>1, Apart DEF Holding, PInv, Stopping, Bodies, OnTrack
    <3>. QED
      BY <2>1, <2>2, <2>3, <3>1
  <2>5. \A p \in Players : Gone(p) => Gone(p)' /\ p # hp
    BY <2>1, <2>2 DEF Gone
  <2>6. \A p \in Players : p # hp => ~Ticking(p)'
    BY <2>1 DEF Ticking
  <2>7. (pc \in Stopping /\ call = "start" /\ cs # 0 /\ FirstTrack(cp) < ct =>
          flags[FirstTrack(cp)] = "start")'
    BY <2>1, <2>4 DEF PInv, LookInv, program
  <2>10. (pc \in Stopping /\ call = "start" /\ cs = 0 =>
           \A t \in Tracks : Owner[t] = cp /\ t < ct => flags[t] = "none")'
    <3>1. \A t \in Tracks : flags[t] = "none" => flags'[t] = "none"
      BY <2>1, <2>2
    <3>. QED
      BY <2>1, <3>1 DEF PInv, LookInv, program
  <2>8. (pc = "look2" /\ cp \in Guarded =>
          song[cp] <= cs \/ flags[FirstTrack(cp)] # "start")'
    BY <2>1, <2>2, <2>3 DEF PInv, LookInv, program, infos
  <2>9. (pc = "lock" /\ call = "start" /\ cp \in Guarded =>
            \/ song[cp] <= cs
            \/ /\ flags[FirstTrack(cp)] # "start"
               /\ \/ pause[cp] = 1
                  \/ mask[cp] = 0 /\ cp \notin Preempt
                  \/ mask[cp] = 0 /\ Gone(cp) /\ ~Ticking(cp))'
    BY <2>1, <2>2, <2>3, <2>5, <2>6 DEF PInv, LookInv, program, infos
  <2>. QED
    BY <2>7, <2>8, <2>9, <2>10 DEF LookInv
<1>36. CASE \E d \in TrackPrios, k \in 0 .. NumCgb : ply_note(d, k)
  BY <1>36 DEF ply_note, PInv, LookInv, Gone, Ticking, channels, tracks, infos, program,
     handler
<1>37. CASE \E c \in Channels : ply_endtie(c)
  BY <1>37 DEF ply_endtie, PInv, LookInv, Gone, Ticking, tracks, infos, program, handler
<1>38. CASE ply_fine
  BY <1>38 DEF ply_fine, PInv, LookInv, Gone, Ticking, channels, tracks, infos, program
<1>39. CASE ply_fine_walk
  BY <1>39 DEF ply_fine_walk, PInv, LookInv, Gone, Ticking, infos, program
<1>40. CASE ply_fine_end
  BY <1>40 DEF ply_fine_end, NextInTick, PInv, LookInv, SongInv, FlagInv, IInv, TypeOK,
     CallInv, Gone, Starting, Ticking, Ending, channels, infos, program
<1>41. CASE MPlayMain_wait
  BY <1>41 DEF MPlayMain_wait, NextInTick, Done, WorkOn, PInv, LookInv, SongInv, IInv,
     TypeOK, CallInv, Gone, Starting, Ticking, Ending, channels, tracks, infos, program
<1>42. CASE MPlayMain_vol
  BY <1>42 DEF MPlayMain_vol, PInv, LookInv, Gone, Ticking, channels, tracks, infos,
     program
<1>43. CASE MPlayMain_volNext
  BY <1>43 DEF MPlayMain_volNext, NextInVol, Done, WorkOn, PInv, LookInv, Gone, Ticking,
     channels, tracks, program
<1>44. CASE SoundMainRAM
  BY <1>44 DEF SoundMainRAM, PInv, LookInv, Gone, Ticking, tracks, infos, program
<1>45. CASE UNCHANGED vars
  BY <1>45 DEF vars, PInv, LookInv, Gone, Ticking, channels, tracks, infos, program,
     handler
<1>. QED
  BY <1>1, <1>2, <1>3, <1>4, <1>5, <1>6, <1>7, <1>8, <1>9, <1>10, <1>11, <1>12, <1>13,
     <1>14, <1>15, <1>16, <1>17, <1>18, <1>19, <1>20, <1>21, <1>22, <1>23, <1>24, <1>25,
     <1>26, <1>27, <1>28, <1>29, <1>30, <1>31, <1>32, <1>33, <1>34, <1>35, <1>36, <1>37,
     <1>38, <1>39, <1>40, <1>41, <1>42, <1>43, <1>44, <1>45 DEF Next, Program, Interrupt

\* Every step keeps what is known of songs.
LEMMA StepPInv ==
  ASSUME PInv, [Next]_vars PROVE PInv'
<1>1. IInv'
  BY StepIInv DEF PInv
<1>. QED
  BY <1>1, FlagStep, SongStep, LookStep DEF PInv

\* What is known of songs holds initially: no track has one.
LEMMA InitPInv == Init => PInv
<1> SUFFICES ASSUME Init PROVE PInv
  OBVIOUS
<1>1. IInv
  BY InitIInv
<1>2. FlagInv /\ SongInv
  BY DEF Init, FlagInv, SongInv, Gone
<1>3. LookInv
  BY DEF Init, LookInv, Stopping
<1>. QED
  BY <1>1, <1>2, <1>3 DEF PInv

\* On a guarded player a song gives way to one of lower priority only when it is
\* over, though MPlayStart decides before it takes the lock and SoundMain may step
\* the player in between: whichever players SoundMain may interrupt (m4a_2.c:591).
THEOREM SongsGiveWay == SafeSpec => PriorityHolds
<1>1. PInv /\ [Next]_vars => PInv'
  BY StepPInv
<1>2. SafeSpec => []PInv
  BY <1>1, InitPInv, PTL DEF SafeSpec
<1>3. ASSUME PInv, [Next]_vars
      PROVE  [\A p \in Guarded : song'[p] < song[p] => ~Playing(p)]_vars
  <2> SUFFICES ASSUME NEW p \in Guarded, song'[p] < song[p] PROVE ~Playing(p)
    OBVIOUS
  <2>1. p \in Players /\ song[p] \in Nat /\ song \in [Players -> 0 .. MaxPrio]
    BY <1>3, ValueAssumption DEF PInv, IInv, TypeOK
  <2>2. MPlayStart_lock \/ song' = song
    BY <1>3 DEF Next, Program, Interrupt, vars, infos, MPlayStart, Simple, FadeCall,
       m4aMPlayImmInit, Call, MPlayStart_look, MPlayStart_look2, m4aMPlayStop_lock,
       MPlayContinue, m4aMPlayControl, MPlayFadeOut, m4aMPlayFadeOutTemporarily,
       m4aMPlayFadeIn, FadeStart, TrackStop, TrackStop_silence, TrackStop_disown,
       TrackStop_follow, TrackStop_forget, AfterStop, Unlock, m4aMPlayImmInit_test,
       m4aMPlayImmInit_clear, SoundMain, MPlayMain, MPlayMain_paused, FadeOutBody,
       FadeOutBody_stop, FadeOutBody_walk, FadeOutBody_next, MPlayMain_tick,
       MPlayMain_tempoDone, MPlayMain_noTrack, NextInTick, MPlayMain_track, MPlayMain_walk,
       MPlayMain_ready, ply_note, ply_endtie, ply_fine, ply_fine_walk, ply_fine_end,
       MPlayMain_wait, MPlayMain_vol, MPlayMain_volNext, SoundMainRAM
  <2>3. MPlayStart_lock
    BY <2>1, <2>2
  <2>4. song' = [song EXCEPT ![cp] = cs] /\ pc = "lock" /\ call = "start"
    BY <2>3 DEF MPlayStart_lock, Locked
  <2>5. p = cp /\ cs < song[p] /\ cs \in Nat
    BY <1>3, <2>1, <2>4 DEF PInv, IInv, CallInv
  <2>6. flags[FirstTrack(p)] # "start" /\ (pause[p] = 1 \/ mask[p] = 0)
    BY <1>3, <2>1, <2>4, <2>5 DEF PInv, LookInv
  <2>. QED
    BY <2>6 DEF Playing
<1>. QED
  BY <1>2, <1>3, PTL DEF SafeSpec, PriorityHolds

-----------------------------------------------------------------------------
(***************************************************************************)
(* What steps do to the lists, when SoundMain interrupts calls on the last *)
(* opened player only.                                                     *)
(***************************************************************************)

\* While a call holds the last player's lock, SoundMain comes to no player.
LEMMA KeptOut ==
  ASSUME LastOnly, IInv, pc \in Holding PROVE hpc \notin Bodies
<1> SUFFICES ASSUME hpc \in Bodies PROVE FALSE
  OBVIOUS
<1>1. cp \in Players /\ cp \in Preempt
  BY DEF IInv, CallInv, Holding, Stopping, Bodies, OnTrack
<1>2. cp = NumPlayers /\ hp \in Players
  BY <1>1 DEF LastOnly, IInv, MainInv
<1>3. MainHolds(cp) /\ CallHolds(cp)
  BY <1>2, Numbers DEF MainHolds, CallHolds
<1>. QED
  BY <1>1, <1>3 DEF IInv, LockInv

\* A list is a list again if its channels, their links and its head stay.
LEMMA ListFrame ==
  ASSUME NEW t \in Tracks, List(t), Of(t)' = Of(t), ListHead(t)' = ListHead(t),
         \A c \in Of(t) : np'[c] = np[c] /\ pp'[c] = pp[c],
         ~Walking(t)' /\ chan'[t] # 0 => ~Walking(t) /\ chan'[t] = chan[t]
  PROVE  List(t)'
<1> DEFINE S == Of(t)
           h == ListHead(t)
<1>1. Chain(h, S, np, pp) /\ (~Walking(t) /\ chan[t] # 0 => pp[chan[t]] = 0)
  BY DEF List
<1>2. ~Walking(t) => h = chan[t]
  BY DEF ListHead
<1> HIDE DEF S, h
<1>3. \A c \in S : np'[c] = np[c] /\ pp'[c] = pp[c]
  BY DEF S
<1>4. Chain(h, S, np', pp')
  BY <1>1, <1>3 DEF Chain
<1>5. ~Walking(t)' /\ chan'[t] # 0 => pp'[chan'[t]] = 0
  BY <1>1, <1>2, <1>3 DEF Chain
<1>. QED
  BY <1>4, <1>5 DEF List, S, h

\* The rest of a list behind its head is a list.
LEMMA ChainTail ==
  ASSUME NEW h, NEW S, NEW N, NEW P, Chain(h, S, N, P), h # 0
  PROVE  Chain(N[h], S \ {h}, N, P)
<1>1. h \in S /\ P[h] \notin S
  BY DEF Chain
<1>2. N[h] # 0 => N[h] \in S \ {h} /\ P[N[h]] \notin S \ {h}
  BY <1>1 DEF Chain
<1>3. \A c \in S \ {h} : c # N[h] => P[c] \in S \ {h} /\ N[P[c]] = c
  BY <1>1 DEF Chain
<1>4. \A c \in S \ {h} : N[c] # 0 => N[c] \in S \ {h} /\ P[N[c]] = c
  BY <1>1 DEF Chain
<1>5. \A X \in SUBSET (S \ {h}) : X # {} => \E c \in X : P[c] \notin X
  BY DEF Chain
<1>. QED
  BY <1>2, <1>3, <1>4, <1>5 DEF Chain

\* c of the list S with head h is bypassed: the new head is g, the new links M and Q.
Bypassed(c, S, h, N, P, g, M, Q) ==
    /\ g = IF P[c] = 0 THEN N[c] ELSE h
    /\ \A k \in S : M[k] = IF k = P[c] THEN N[c] ELSE N[k]
    /\ \A k \in S : Q[k] = IF k = N[c] THEN P[c] ELSE P[k]

\* A list without one of its channels is a list, when its neighbours are linked.
LEMMA ChainWithout ==
  ASSUME NEW h, NEW S, NEW N, NEW P, NEW M, NEW Q, NEW g, NEW c \in S,
         Chain(h, S, N, P), 0 \notin S, P[h] = 0, Bypassed(c, S, h, N, P, g, M, Q)
  PROVE  Chain(g, S \ {c}, M, Q) /\ (g # 0 => Q[g] = 0)
<1> USE DEF Bypassed
<1>1. h \in S /\ c # 0 /\ h # 0
  <2>1. PICK k \in S : P[k] \notin S
    BY DEF Chain
  <2>. QED
    BY <2>1 DEF Chain
<1>2. P[c] = 0 <=> c = h
  BY <1>1 DEF Chain
<1>3. P[c] # 0 => P[c] \in S /\ N[P[c]] = c
  BY <1>2 DEF Chain
<1>4. N[c] # 0 => N[c] \in S /\ P[N[c]] = c
  BY DEF Chain
<1>5. P[c] # c /\ N[c] # c
  <2>1. {c} \in SUBSET S /\ {c} # {}
    OBVIOUS
  <2>2. \E k \in {c} : P[k] \notin {c}
    BY <2>1 DEF Chain
  <2>. QED
    BY <1>1, <1>4, <2>2
<1>6. g # 0 => g \in S \ {c} /\ Q[g] = 0
  BY <1>1, <1>2, <1>3, <1>4, <1>5 DEF Chain
<1>7. \A k \in S \ {c} : k # g => Q[k] \in S \ {c} /\ M[Q[k]] = k
  <2> TAKE k \in S \ {c}
  <2> HAVE k # g
  <2>1. CASE k = N[c]
    BY <1>1, <1>2, <1>3, <1>4, <1>5, <2>1
  <2>2. CASE k # N[c]
    <3>1. Q[k] = P[k]
      BY <2>2
    <3>2. k # h
      BY <1>2, <2>2
    <3>3. P[k] \in S /\ N[P[k]] = k
      BY <3>2 DEF Chain
    <3>4. P[k] # c /\ P[k] # P[c]
      BY <1>2, <1>3, <2>2, <3>3
    <3>. QED
      BY <3>1, <3>3, <3>4
  <2>. QED
    BY <2>1, <2>2
<1>8. \A k \in S \ {c} : M[k] # 0 => M[k] \in S \ {c} /\ Q[M[k]] = k
  <2> TAKE k \in S \ {c}
  <2> HAVE M[k] # 0
  <2>1. CASE k = P[c]
    BY <1>3, <1>4, <1>5, <2>1
  <2>2. CASE k # P[c]
    <3>1. M[k] = N[k] /\ N[k] \in S /\ P[N[k]] = k
      BY <2>2 DEF Chain
    <3>2. N[k] # c /\ N[k] # N[c]
      BY <1>1, <1>4, <2>2, <3>1
    <3>. QED
      BY <3>1, <3>2
  <2>. QED
    BY <2>1, <2>2
<1>9. ASSUME NEW X \in SUBSET (S \ {c}), X # {} PROVE \E k \in X : Q[k] \notin X
  <2> SUFFICES ASSUME \A k \in X : Q[k] \in X PROVE FALSE
    OBVIOUS
  <2>1. CASE N[c] \in X
    <3>1. P[c] \in X
      BY <1>9, <2>1
    <3>2. X \cup {c} \in SUBSET S /\ X \cup {c} # {}
      BY <1>9
    <3>3. PICK k \in X \cup {c} : P[k] \notin X \cup {c}
      BY <3>2 DEF Chain
    <3>4. k \in X /\ k # N[c]
      BY <1>4, <1>9, <2>1, <3>1, <3>3
    <3>. QED
      BY <1>9, <3>3, <3>4
  <2>2. CASE N[c] \notin X
    <3>1. X \in SUBSET S
      BY <1>9
    <3>2. PICK k \in X : P[k] \notin X
      BY <1>9, <3>1 DEF Chain
    <3>. QED
      BY <1>9, <2>2, <3>2
  <2>. QED
    BY <2>1, <2>2
<1>10. g # 0 => g \in S \ {c} /\ Q[g] \notin S \ {c}
  BY <1>6
<1>. QED
  BY <1>6, <1>7, <1>8, <1>9, <1>10 DEF Chain

\* A list with a channel put before its head is a list.
LEMMA ChainWith ==
  ASSUME NEW h, NEW S, NEW N, NEW P, NEW M, NEW Q, NEW c,
         Chain(h, S, N, P), 0 \notin S, c \notin S, c # 0, h # 0 => P[h] = 0,
         \A k \in S \cup {c} : M[k] = IF k = c THEN h ELSE N[k],
         \A k \in S \cup {c} : Q[k] = IF k = c THEN 0 ELSE IF k = h THEN c ELSE P[k]
  PROVE  Chain(c, S \cup {c}, M, Q) /\ Q[c] = 0
<1>1. M[c] = h /\ Q[c] = 0 /\ (h # 0 => h \in S)
  BY DEF Chain
<1>2. \A k \in S : M[k] = N[k] /\ Q[k] = IF k = h THEN c ELSE P[k]
  OBVIOUS
<1>3. \A k \in S \cup {c} : k # c => Q[k] \in S \cup {c} /\ M[Q[k]] = k
  <2> SUFFICES ASSUME NEW k \in S PROVE Q[k] \in S \cup {c} /\ M[Q[k]] = k
    OBVIOUS
  <2>1. CASE k = h
    BY <1>1, <1>2, <2>1
  <2>2. CASE k # h
    <3>1. P[k] \in S /\ N[P[k]] = k
      BY <2>2 DEF Chain
    <3>. QED
      BY <1>2, <2>2, <3>1
  <2>. QED
    BY <2>1, <2>2
<1>4. \A k \in S \cup {c} : M[k] # 0 => M[k] \in S \cup {c} /\ Q[M[k]] = k
  <2>1. M[c] # 0 => M[c] \in S \cup {c} /\ Q[M[c]] = c
    BY <1>1, <1>2
  <2>2. ASSUME NEW k \in S, N[k] # 0 PROVE N[k] \in S /\ Q[N[k]] = k
    <3>1. N[k] \in S /\ P[N[k]] = k
      BY <2>2 DEF Chain
    <3>2. N[k] # h
      BY <2>2, <3>1
    <3>. QED
      BY <1>2, <3>1, <3>2
  <2>. QED
    BY <1>2, <2>1, <2>2
<1>5. ASSUME NEW X \in SUBSET (S \cup {c}), X # {} PROVE \E k \in X : Q[k] \notin X
  <2>1. CASE c \in X /\ 0 \notin X
    BY <1>1, <2>1
  <2>2. CASE c \notin X
    <3>1. X \in SUBSET S
      BY <2>2
    <3>2. PICK k \in X : P[k] \notin X
      BY <1>5, <3>1 DEF Chain
    <3>. QED
      BY <1>2, <2>2, <3>1, <3>2
  <2>. QED
    BY <2>1, <2>2
<1>. QED
  BY <1>1, <1>3, <1>4, <1>5 DEF Chain

\* With owners tr, heads ch and links N and P, every track has a list.
Lists(tr, ch, N, P) ==
    \A t \in Tracks :
        /\ Chain(ch[t], {c \in Channels : tr[c] = t}, N, P)
        /\ ch[t] # 0 => P[ch[t]] = 0

\* Outside of walks the invariant says just this.
LEMMA NoWalk ==
  ASSUME \A t \in Tracks : ~Walking(t)
  PROVE  ListInv <=> Lists(track, chan, np, pp)
  BY DEF ListInv, List, Lists, ListHead, Of

\* Track t has no channels if its list has no head.
LEMMA NoChannels ==
  ASSUME NEW tr, NEW ch, NEW N, NEW P, Lists(tr, ch, N, P), NEW t \in Tracks, ch[t] = 0
  PROVE  \A c \in Channels : tr[c] # t
<1> DEFINE S == {c \in Channels : tr[c] = t}
<1>1. Chain(0, S, N, P) /\ 0 \notin S
  BY Numbers DEF Lists
<1> HIDE DEF S
<1>2. S = {}
  <2> SUFFICES ASSUME S # {} PROVE FALSE
    OBVIOUS
  <2>1. PICK c \in S : P[c] \notin S
    BY <1>1 DEF Chain
  <2>. QED
    BY <1>1, <2>1 DEF Chain
<1>. QED
  BY <1>2 DEF S

\* RealClearChain leaves every track a list: that of its own track without it.
LEMMA ClearedLists ==
  ASSUME TypeOK, Lists(track, chan, np, pp), NEW c \in Channels, NEW h, h = Cleared(c)
  PROVE  /\ Lists(h.track, h.chan, h.np, h.pp)
         /\ h.track[c] = 0
         /\ \A k \in Channels : k # c => h.track[k] = track[k]
         /\ \A t \in Tracks : chan[t] = 0 => h.chan[t] = 0
         /\ track[c] # 0 /\ chan[track[c]] = c => h.chan[track[c]] = np[c]
<1> USE DEF TypeOK
<1>1. CASE track[c] = 0
  BY <1>1 DEF Cleared
<1>2. CASE track[c] # 0
  <2> DEFINE t == track[c]
             S == {k \in Channels : track[k] = t}
  <2>1. /\ h.np = IF pp[c] # 0 THEN [np EXCEPT ![pp[c]] = np[c]] ELSE np
        /\ h.pp = IF np[c] # 0 THEN [pp EXCEPT ![np[c]] = pp[c]] ELSE pp
        /\ h.chan = IF pp[c] = 0 THEN [chan EXCEPT ![t] = np[c]] ELSE chan
        /\ h.track = [track EXCEPT ![c] = 0]
    BY <1>2 DEF Cleared
  <2>2. t \in Tracks /\ c \in S /\ 0 \notin S /\ 0 \notin Tracks
    BY <1>2, Numbers
  <2>3. Chain(chan[t], S, np, pp) /\ (chan[t] # 0 => pp[chan[t]] = 0)
    BY <2>2 DEF Lists
  <2>4. chan[t] # 0
    BY <2>2, NoChannels
  <2>5. /\ pp[c] # 0 => pp[c] \in S
        /\ np[c] # 0 => np[c] \in S
        /\ pp[c] = 0 <=> chan[t] = c
    BY <2>2, <2>3, <2>4 DEF Chain
  <2>6. /\ \A k \in Channels : h.np[k] = IF k = pp[c] THEN np[c] ELSE np[k]
        /\ \A k \in Channels : h.pp[k] = IF k = np[c] THEN pp[c] ELSE pp[k]
        /\ h.chan[t] = IF pp[c] = 0 THEN np[c] ELSE chan[t]
        /\ \A u \in Tracks : u # t => h.chan[u] = chan[u]
        /\ \A k \in Channels : h.track[k] = IF k = c THEN 0 ELSE track[k]
    BY <2>1, <2>2, Numbers
  <2>7. /\ Chain(h.chan[t], S \ {c}, h.np, h.pp)
        /\ h.chan[t] # 0 => h.pp[h.chan[t]] = 0
    <3>1. Bypassed(c, S, chan[t], np, pp, h.chan[t], h.np, h.pp)
      BY <2>6 DEF Bypassed
    <3>2. c \in S /\ 0 \notin S /\ Chain(chan[t], S, np, pp) /\ pp[chan[t]] = 0
      BY <2>2, <2>3, <2>4
    <3> DEFINE g == h.chan[t]
               M == h.np
               Q == h.pp
               f == chan[t]
    <3>3. Bypassed(c, S, f, np, pp, g, M, Q) /\ Chain(f, S, np, pp) /\ pp[f] = 0
      BY <3>1, <3>2
    <3>4. Chain(g, S \ {c}, M, Q) /\ (g # 0 => Q[g] = 0)
      <4> HIDE DEF S, t, f, g, M, Q, TypeOK
      <4>. QED
        BY <3>2, <3>3, ChainWithout
    <3>. QED
      BY <3>4
  <2>8. S \ {c} = {k \in Channels : h.track[k] = t}
    BY <2>2, <2>6
  <2>9. ASSUME NEW u \in Tracks, u # t
        PROVE  /\ Chain(h.chan[u], {k \in Channels : h.track[k] = u}, h.np, h.pp)
               /\ h.chan[u] # 0 => h.pp[h.chan[u]] = 0
    <3> DEFINE R == {k \in Channels : track[k] = u}
    <3>1. R = {k \in Channels : h.track[k] = u} /\ R \subseteq Channels
      BY <2>2, <2>6, <2>9
    <3>2. Chain(chan[u], R, np, pp) /\ (chan[u] # 0 => pp[chan[u]] = 0) /\ h.chan[u] = chan[u]
      BY <2>6, <2>9 DEF Lists
    <3>3. \A k \in R : h.np[k] = np[k] /\ h.pp[k] = pp[k]
      <4> TAKE k \in R
      <4>1. k \notin S /\ k # 0 /\ k \in Channels
        BY <2>9, Numbers
      <4>. QED
        BY <2>5, <2>6, <4>1
    <3> HIDE DEF R
    <3>4. Chain(chan[u], R, h.np, h.pp)
      BY <3>2, <3>3 DEF Chain
    <3>5. chan[u] # 0 => h.pp[chan[u]] = 0
      BY <3>2, <3>3 DEF Chain
    <3>. QED
      BY <3>1, <3>2, <3>4, <3>5
  <2>10. Lists(h.track, h.chan, h.np, h.pp)
    <3>1. /\ Chain(h.chan[t], {k \in Channels : h.track[k] = t}, h.np, h.pp)
          /\ h.chan[t] # 0 => h.pp[h.chan[t]] = 0
      BY <2>7, <2>8
    <3> HIDE DEF t, S
    <3>. QED
      BY <2>9, <3>1 DEF Lists
  <2>. QED
    BY <2>4, <2>5, <2>6, <2>10
<1>. QED
  BY <1>1, <1>2

\* The end of ply_note leaves every track a list: c is the head of t's.
LEMMA AttachedLists ==
  ASSUME TypeOK, Lists(track, chan, np, pp), NEW c \in Channels, NEW t \in Tracks, Attach(c, t)
  PROVE  /\ Lists(track', chan', np', pp')
         /\ \A u \in Tracks : u # t /\ chan[u] = 0 => chan'[u] = 0
<1> DEFINE h == Cleared(c)
           S == {k \in Channels : h.track[k] = t}
<1>1. /\ Lists(h.track, h.chan, h.np, h.pp) /\ h.track[c] = 0
      /\ \A u \in Tracks : chan[u] = 0 => h.chan[u] = 0
  BY ClearedLists
<1>2. /\ h.np \in [Channels -> Channels \cup {0}] /\ h.pp \in [Channels -> Channels \cup {0}]
      /\ h.chan \in [Tracks -> Channels \cup {0}] /\ h.track \in [Channels -> Tracks \cup {0}]
  BY ClearedTypes
<1>3. /\ np' = [h.np EXCEPT ![c] = h.chan[t]]
      /\ pp' = [k \in Channels |-> IF k = c THEN 0 ELSE IF k = h.chan[t] THEN c ELSE h.pp[k]]
      /\ chan' = [h.chan EXCEPT ![t] = c]
      /\ track' = [h.track EXCEPT ![c] = t]
  BY DEF Attach
<1> HIDE DEF h
<1>4. c # 0 /\ t # 0 /\ c \notin S /\ 0 \notin S /\ S \subseteq Channels
  BY <1>1, Numbers
<1>5. Chain(h.chan[t], S, h.np, h.pp) /\ (h.chan[t] # 0 => h.pp[h.chan[t]] = 0)
  BY <1>1 DEF Lists
<1>6. Chain(c, S \cup {c}, np', pp') /\ pp'[c] = 0
  <2>1. \A k \in S \cup {c} : np'[k] = IF k = c THEN h.chan[t] ELSE h.np[k]
    BY <1>2, <1>3, <1>4
  <2>2. \A k \in S \cup {c} :
          pp'[k] = IF k = c THEN 0 ELSE IF k = h.chan[t] THEN c ELSE h.pp[k]
    BY <1>3, <1>4
  <2> HIDE DEF S
  <2>. QED
    BY <1>4, <1>5, <2>1, <2>2, ChainWith
<1>7. S \cup {c} = {k \in Channels : track'[k] = t} /\ chan'[t] = c
  BY <1>2, <1>3
<1>8. ASSUME NEW u \in Tracks, u # t
      PROVE  /\ Chain(chan'[u], {k \in Channels : track'[k] = u}, np', pp')
             /\ chan'[u] # 0 => pp'[chan'[u]] = 0
  <2> DEFINE R == {k \in Channels : h.track[k] = u}
  <2>1. R = {k \in Channels : track'[k] = u} /\ c \notin R /\ R \subseteq Channels /\ 0 \notin R
    BY <1>1, <1>2, <1>3, <1>8, Numbers
  <2>2. /\ Chain(h.chan[u], R, h.np, h.pp) /\ (h.chan[u] # 0 => h.pp[h.chan[u]] = 0)
        /\ chan'[u] = h.chan[u]
    BY <1>1, <1>2, <1>3, <1>8 DEF Lists
  <2>3. h.chan[t] \notin R
    <3>1. h.chan[t] # 0 => h.chan[t] \in S
      BY <1>5 DEF Chain
    <3>. QED
      BY <1>8, <2>1, <3>1
  <2>4. \A k \in R : np'[k] = h.np[k] /\ pp'[k] = h.pp[k]
    BY <1>2, <1>3, <2>1, <2>3
  <2> HIDE DEF R
  <2>5. Chain(h.chan[u], R, np', pp')
    BY <2>2, <2>4 DEF Chain
  <2>6. h.chan[u] # 0 => pp'[h.chan[u]] = 0
    BY <2>2, <2>4 DEF Chain
  <2>. QED
    BY <2>1, <2>2, <2>5, <2>6
<1>9. Lists(track', chan', np', pp')
  <2>1. /\ Chain(chan'[t], {k \in Channels : track'[k] = t}, np', pp')
        /\ chan'[t] # 0 => pp'[chan'[t]] = 0
    BY <1>6, <1>7
  <2>. QED
    BY <1>8, <2>1 DEF Lists
<1>. QED
  BY <1>1, <1>2, <1>3, <1>9

\* Every track keeps a list.
LEMMA ListStep ==
  ASSUME LastOnly, LInv, [Next]_vars
  PROVE  ListInv'
<1>a. TypeOK /\ IInv /\ (hpc \in Bodies => pc \notin Holding)
  BY KeptOut DEF LInv, PInv, IInv
<1>1. CASE \E p \in Players : MPlayStart(p)
  <2>1. UNCHANGED <<track, np, pp>>
    BY <1>1 DEF MPlayStart, Call, Running, channels
  <2>2. \A t \in Tracks :
          /\ ListHead(t)' = ListHead(t)
          /\ ~Walking(t)' /\ chan'[t] # 0 => ~Walking(t) /\ chan'[t] = chan[t]
    BY <1>1, <1>a DEF MPlayStart, Call, Running, Walking, ListHead, LInv, PInv, WalkInv,
       FlagInv, IInv, TypeOK, CallInv, MainInv, Holding, Stopping, Bodies, OnTrack,
       channels, tracks, infos, program, handler
  <2>. QED
    BY <2>1, <2>2, ListFrame DEF Of, LInv, ListInv
<1>2. CASE \E p \in Players : \E f \in {"stop", "continue", "control"} : Simple(f, p)
  <2>1. UNCHANGED <<track, np, pp>>
    BY <1>2 DEF Simple, Call, Running, channels
  <2>2. \A t \in Tracks :
          /\ ListHead(t)' = ListHead(t)
          /\ ~Walking(t)' /\ chan'[t] # 0 => ~Walking(t) /\ chan'[t] = chan[t]
    BY <1>2, <1>a DEF Simple, Call, Running, Walking, ListHead, LInv, PInv, WalkInv,
       FlagInv, IInv, TypeOK, CallInv, MainInv, Holding, Stopping, Bodies, OnTrack,
       channels, tracks, infos, program, handler
  <2>. QED
    BY <2>1, <2>2, ListFrame DEF Of, LInv, ListInv
<1>3. CASE \E p \in Players : \E f \in {"fadeout", "fadetemp", "fadein"} : FadeCall(f, p)
  <2>1. UNCHANGED <<track, np, pp>>
    BY <1>3 DEF FadeCall, Call, Running, channels
  <2>2. \A t \in Tracks :
          /\ ListHead(t)' = ListHead(t)
          /\ ~Walking(t)' /\ chan'[t] # 0 => ~Walking(t) /\ chan'[t] = chan[t]
    BY <1>3, <1>a DEF FadeCall, Call, Running, Walking, ListHead, LInv, PInv, WalkInv,
       FlagInv, IInv, TypeOK, CallInv, MainInv, Holding, Stopping, Bodies, OnTrack,
       channels, tracks, infos, program, handler
  <2>. QED
    BY <2>1, <2>2, ListFrame DEF Of, LInv, ListInv
<1>4. CASE \E p \in Players : m4aMPlayImmInit(p)
  <2>1. UNCHANGED <<track, np, pp>>
    BY <1>4 DEF m4aMPlayImmInit, Call, Running, channels
  <2>2. \A t \in Tracks :
          /\ ListHead(t)' = ListHead(t)
          /\ ~Walking(t)' /\ chan'[t] # 0 => ~Walking(t) /\ chan'[t] = chan[t]
    BY <1>4, <1>a DEF m4aMPlayImmInit, Call, Running, Walking, ListHead, LInv, PInv,
       WalkInv, FlagInv, IInv, TypeOK, CallInv, MainInv, Holding, Stopping, Bodies,
       OnTrack, channels, tracks, infos, program, handler
  <2>. QED
    BY <2>1, <2>2, ListFrame DEF Of, LInv, ListInv
<1>5. CASE MPlayStart_look
  <2>1. UNCHANGED <<track, np, pp>>
    BY <1>5 DEF MPlayStart_look, Goto, Return, Running, channels
  <2>2. \A t \in Tracks :
          /\ ListHead(t)' = ListHead(t)
          /\ ~Walking(t)' /\ chan'[t] # 0 => ~Walking(t) /\ chan'[t] = chan[t]
    BY <1>5, <1>a DEF MPlayStart_look, Goto, Return, Running, Walking, ListHead, LInv,
       PInv, WalkInv, FlagInv, IInv, TypeOK, CallInv, MainInv, Holding, Stopping,
       Bodies, OnTrack, channels, tracks, infos, program, handler
  <2>. QED
    BY <2>1, <2>2, ListFrame DEF Of, LInv, ListInv
<1>6. CASE MPlayStart_look2
  <2>1. UNCHANGED <<track, np, pp>>
    BY <1>6 DEF MPlayStart_look2, Goto, Return, Running, channels
  <2>2. \A t \in Tracks :
          /\ ListHead(t)' = ListHead(t)
          /\ ~Walking(t)' /\ chan'[t] # 0 => ~Walking(t) /\ chan'[t] = chan[t]
    BY <1>6, <1>a DEF MPlayStart_look2, Goto, Return, Running, Walking, ListHead, LInv,
       PInv, WalkInv, FlagInv, IInv, TypeOK, CallInv, MainInv, Holding, Stopping,
       Bodies, OnTrack, channels, tracks, infos, program, handler
  <2>. QED
    BY <2>1, <2>2, ListFrame DEF Of, LInv, ListInv
<1>7. CASE MPlayStart_lock
  <2>1. UNCHANGED <<track, np, pp>>
    BY <1>7 DEF MPlayStart_lock, Locked, Running, channels
  <2>2. \A t \in Tracks :
          /\ ListHead(t)' = ListHead(t)
          /\ ~Walking(t)' /\ chan'[t] # 0 => ~Walking(t) /\ chan'[t] = chan[t]
    BY <1>7, <1>a DEF MPlayStart_lock, Locked, Running, Walking, ListHead, LInv, PInv,
       WalkInv, FlagInv, IInv, TypeOK, CallInv, MainInv, Holding, Stopping, Bodies,
       OnTrack, channels, tracks, infos, program, handler
  <2>. QED
    BY <2>1, <2>2, ListFrame DEF Of, LInv, ListInv
<1>8. CASE m4aMPlayStop_lock
  <2>1. UNCHANGED <<track, np, pp>>
    BY <1>8 DEF m4aMPlayStop_lock, Locked, Running, channels
  <2>2. \A t \in Tracks :
          /\ ListHead(t)' = ListHead(t)
          /\ ~Walking(t)' /\ chan'[t] # 0 => ~Walking(t) /\ chan'[t] = chan[t]
    BY <1>8, <1>a DEF m4aMPlayStop_lock, Locked, Running, Walking, ListHead, LInv, PInv,
       WalkInv, FlagInv, IInv, TypeOK, CallInv, MainInv, Holding, Stopping, Bodies,
       OnTrack, channels, tracks, infos, program, handler
  <2>. QED
    BY <2>1, <2>2, ListFrame DEF Of, LInv, ListInv
<1>9. CASE MPlayContinue
  <2>1. UNCHANGED <<track, np, pp>>
    BY <1>9 DEF MPlayContinue, Locked, Goto, Running, channels
  <2>2. \A t \in Tracks :
          /\ ListHead(t)' = ListHead(t)
          /\ ~Walking(t)' /\ chan'[t] # 0 => ~Walking(t) /\ chan'[t] = chan[t]
    BY <1>9, <1>a DEF MPlayContinue, Locked, Goto, Running, Walking, ListHead, LInv,
       PInv, WalkInv, FlagInv, IInv, TypeOK, CallInv, MainInv, Holding, Stopping,
       Bodies, OnTrack, channels, tracks, infos, program, handler
  <2>. QED
    BY <2>1, <2>2, ListFrame DEF Of, LInv, ListInv
<1>10. CASE m4aMPlayControl
  <2>1. UNCHANGED <<track, np, pp>>
    BY <1>10 DEF m4aMPlayControl, Locked, Goto, Running, channels
  <2>2. \A t \in Tracks :
          /\ ListHead(t)' = ListHead(t)
          /\ ~Walking(t)' /\ chan'[t] # 0 => ~Walking(t) /\ chan'[t] = chan[t]
    BY <1>10, <1>a DEF m4aMPlayControl, Locked, Goto, Running, Walking, ListHead, LInv,
       PInv, WalkInv, FlagInv, IInv, TypeOK, CallInv, MainInv, Holding, Stopping,
       Bodies, OnTrack, channels, tracks, infos, program, handler
  <2>. QED
    BY <2>1, <2>2, ListFrame DEF Of, LInv, ListInv
<1>11. CASE MPlayFadeOut
  <2>1. UNCHANGED <<track, np, pp>>
    BY <1>11 DEF MPlayFadeOut, FadeStart, Locked, Goto, Running, channels
  <2>2. \A t \in Tracks :
          /\ ListHead(t)' = ListHead(t)
          /\ ~Walking(t)' /\ chan'[t] # 0 => ~Walking(t) /\ chan'[t] = chan[t]
    BY <1>11, <1>a DEF MPlayFadeOut, FadeStart, Locked, Goto, Running, Walking, ListHead,
       LInv, PInv, WalkInv, FlagInv, IInv, TypeOK, CallInv, MainInv, Holding, Stopping,
       Bodies, OnTrack, channels, tracks, infos, program, handler
  <2>. QED
    BY <2>1, <2>2, ListFrame DEF Of, LInv, ListInv
<1>12. CASE m4aMPlayFadeOutTemporarily
  <2>1. UNCHANGED <<track, np, pp>>
    BY <1>12 DEF m4aMPlayFadeOutTemporarily, FadeStart, Locked, Goto, Running, channels
  <2>2. \A t \in Tracks :
          /\ ListHead(t)' = ListHead(t)
          /\ ~Walking(t)' /\ chan'[t] # 0 => ~Walking(t) /\ chan'[t] = chan[t]
    BY <1>12, <1>a DEF m4aMPlayFadeOutTemporarily, FadeStart, Locked, Goto, Running,
       Walking, ListHead, LInv, PInv, WalkInv, FlagInv, IInv, TypeOK, CallInv, MainInv,
       Holding, Stopping, Bodies, OnTrack, channels, tracks, infos, program, handler
  <2>. QED
    BY <2>1, <2>2, ListFrame DEF Of, LInv, ListInv
<1>13. CASE m4aMPlayFadeIn
  <2>1. UNCHANGED <<track, np, pp>>
    BY <1>13 DEF m4aMPlayFadeIn, FadeStart, Locked, Goto, Running, channels
  <2>2. \A t \in Tracks :
          /\ ListHead(t)' = ListHead(t)
          /\ ~Walking(t)' /\ chan'[t] # 0 => ~Walking(t) /\ chan'[t] = chan[t]
    BY <1>13, <1>a DEF m4aMPlayFadeIn, FadeStart, Locked, Goto, Running, Walking,
       ListHead, LInv, PInv, WalkInv, FlagInv, IInv, TypeOK, CallInv, MainInv, Holding,
       Stopping, Bodies, OnTrack, channels, tracks, infos, program, handler
  <2>. QED
    BY <2>1, <2>2, ListFrame DEF Of, LInv, ListInv
<1>14. CASE TrackStop
  <2>1. UNCHANGED <<track, np, pp>>
    BY <1>14 DEF TrackStop, Running, channels
  <2>2. \A t \in Tracks :
          /\ ListHead(t)' = ListHead(t)
          /\ ~Walking(t)' /\ chan'[t] # 0 => ~Walking(t) /\ chan'[t] = chan[t]
    BY <1>14, <1>a DEF TrackStop, Running, Walking, ListHead, LInv, PInv, WalkInv,
       FlagInv, IInv, TypeOK, CallInv, MainInv, Holding, Stopping, Bodies, OnTrack,
       channels, tracks, infos, program, handler
  <2>. QED
    BY <2>1, <2>2, ListFrame DEF Of, LInv, ListInv
<1>15. CASE TrackStop_silence
  <2>1. UNCHANGED <<track, np, pp>>
    BY <1>15 DEF TrackStop_silence, Goto, Running, channels
  <2>2. \A t \in Tracks :
          /\ ListHead(t)' = ListHead(t)
          /\ ~Walking(t)' /\ chan'[t] # 0 => ~Walking(t) /\ chan'[t] = chan[t]
    BY <1>15, <1>a DEF TrackStop_silence, Goto, Running, Walking, ListHead, LInv, PInv,
       WalkInv, FlagInv, IInv, TypeOK, CallInv, MainInv, Holding, Stopping, Bodies,
       OnTrack, channels, tracks, infos, program, handler
  <2>. QED
    BY <2>1, <2>2, ListFrame DEF Of, LInv, ListInv
<1>16. CASE TrackStop_disown
  <2>1. r4 \in Channels /\ ct \in Tracks /\ Walking(ct) /\ ListHead(ct) = r4 /\ r4 # 0
    BY <1>16, <1>a, Numbers DEF TrackStop_disown, Walking, ListHead, CallInv, MainInv,
       IInv, TypeOK, Running, Bodies, OnTrack, Holding, Stopping
  <2>2. /\ UNCHANGED <<np, pp, chan>> /\ track' = [track EXCEPT ![r4] = 0]
        /\ \A t \in Tracks : Walking(t)' <=> t = ct
        /\ \A t \in Tracks : Walking(t) <=> t = ct
        /\ \A t \in Tracks : t = ct => ListHead(t)' = np[r4]
    BY <1>16, <1>a, <2>1 DEF TrackStop_disown, Walking, ListHead, Running, Goto,
       CallInv, MainInv, IInv, Holding, Stopping, Bodies, OnTrack, channels, tracks,
       infos, program, handler
  <2>3. Chain(r4, Of(ct), np, pp)
    BY <2>1 DEF LInv, ListInv, List
  <2>4. ASSUME NEW t \in Tracks, t = ct PROVE List(t)'
    <3>1. Of(t)' = Of(t) \ {r4}
      BY <1>a, <2>1, <2>2, <2>4, Numbers DEF Of, TypeOK
    <3>2. Chain(np[r4], Of(t) \ {r4}, np, pp)
      BY <2>1, <2>3, <2>4, ChainTail
    <3>3. Walking(t)' /\ ListHead(t)' = np[r4]
      BY <2>2, <2>4
    <3>. QED
      BY <2>2, <3>1, <3>2, <3>3 DEF List
  <2>5. ASSUME NEW t \in Tracks, t # ct PROVE List(t)'
    <3>1. Of(t)' = Of(t)
      <4>1. track[r4] = ct
        BY <2>1, <2>3 DEF Chain, Of
      <4>. QED
        BY <1>a, <2>1, <2>2, <2>5, <4>1, Numbers DEF Of, TypeOK
    <3>2. ListHead(t)' = ListHead(t) /\ ~Walking(t)
      BY <2>2, <2>5 DEF ListHead
    <3>. QED
      BY <2>2, <3>1, <3>2, ListFrame DEF LInv, ListInv
  <2>. QED
    BY <2>4, <2>5 DEF ListInv
<1>17. CASE TrackStop_follow
  <2>1. UNCHANGED <<track, np, pp>>
    BY <1>17 DEF TrackStop_follow, Running, channels
  <2>2. \A t \in Tracks :
          /\ ListHead(t)' = ListHead(t)
          /\ ~Walking(t)' /\ chan'[t] # 0 => ~Walking(t) /\ chan'[t] = chan[t]
    BY <1>17, <1>a DEF TrackStop_follow, Running, Walking, ListHead, LInv, PInv, WalkInv,
       FlagInv, IInv, TypeOK, CallInv, MainInv, Holding, Stopping, Bodies, OnTrack,
       channels, tracks, infos, program, handler
  <2>. QED
    BY <2>1, <2>2, ListFrame DEF Of, LInv, ListInv
<1>18. CASE TrackStop_forget
  <2>1. UNCHANGED <<track, np, pp>>
    BY <1>18 DEF TrackStop_forget, Goto, Running, channels
  <2>2. \A t \in Tracks :
          /\ ListHead(t)' = ListHead(t)
          /\ ~Walking(t)' /\ chan'[t] # 0 => ~Walking(t) /\ chan'[t] = chan[t]
    BY <1>18, <1>a DEF TrackStop_forget, Goto, Running, Walking, ListHead, LInv, PInv,
       WalkInv, FlagInv, IInv, TypeOK, CallInv, MainInv, Holding, Stopping, Bodies,
       OnTrack, channels, tracks, infos, program, handler
  <2>. QED
    BY <2>1, <2>2, ListFrame DEF Of, LInv, ListInv
<1>19. CASE AfterStop
  <2>1. UNCHANGED <<track, np, pp>>
    BY <1>19 DEF AfterStop, Running, channels
  <2>2. \A t \in Tracks :
          /\ ListHead(t)' = ListHead(t)
          /\ ~Walking(t)' /\ chan'[t] # 0 => ~Walking(t) /\ chan'[t] = chan[t]
    BY <1>19, <1>a DEF AfterStop, Running, Walking, ListHead, LInv, PInv, WalkInv,
       FlagInv, IInv, TypeOK, CallInv, MainInv, Holding, Stopping, Bodies, OnTrack,
       channels, tracks, infos, program, handler
  <2>. QED
    BY <2>1, <2>2, ListFrame DEF Of, LInv, ListInv
<1>20. CASE Unlock
  <2>1. UNCHANGED <<track, np, pp>>
    BY <1>20 DEF Unlock, Return, Running, channels
  <2>2. \A t \in Tracks :
          /\ ListHead(t)' = ListHead(t)
          /\ ~Walking(t)' /\ chan'[t] # 0 => ~Walking(t) /\ chan'[t] = chan[t]
    BY <1>20, <1>a DEF Unlock, Return, Running, Walking, ListHead, LInv, PInv, WalkInv,
       FlagInv, IInv, TypeOK, CallInv, MainInv, Holding, Stopping, Bodies, OnTrack,
       channels, tracks, infos, program, handler
  <2>. QED
    BY <2>1, <2>2, ListFrame DEF Of, LInv, ListInv
<1>21. CASE m4aMPlayImmInit_test
  <2>1. UNCHANGED <<track, np, pp>>
    BY <1>21 DEF m4aMPlayImmInit_test, ImmNext, Goto, Return, Running, channels
  <2>2. \A t \in Tracks :
          /\ ListHead(t)' = ListHead(t)
          /\ ~Walking(t)' /\ chan'[t] # 0 => ~Walking(t) /\ chan'[t] = chan[t]
    BY <1>21, <1>a DEF m4aMPlayImmInit_test, ImmNext, Goto, Return, Running, Walking,
       ListHead, LInv, PInv, WalkInv, FlagInv, IInv, TypeOK, CallInv, MainInv, Holding,
       Stopping, Bodies, OnTrack, channels, tracks, infos, program, handler
  <2>. QED
    BY <2>1, <2>2, ListFrame DEF Of, LInv, ListInv
<1>22. CASE m4aMPlayImmInit_clear
  <2>1. UNCHANGED <<track, np, pp>>
    BY <1>22 DEF m4aMPlayImmInit_clear, ImmNext, Goto, Return, Running, channels
  <2>2. \A t \in Tracks :
          /\ ListHead(t)' = ListHead(t)
          /\ ~Walking(t)' /\ chan'[t] # 0 => ~Walking(t) /\ chan'[t] = chan[t]
    BY <1>22, <1>a DEF m4aMPlayImmInit_clear, ImmNext, Goto, Return, Running, Walking,
       ListHead, LInv, PInv, WalkInv, FlagInv, IInv, TypeOK, CallInv, MainInv, Holding,
       Stopping, Bodies, OnTrack, channels, tracks, infos, program, handler
  <2>. QED
    BY <2>1, <2>2, ListFrame DEF Of, LInv, ListInv
<1>23. CASE SoundMain
  <2>1. UNCHANGED <<track, np, pp>>
    BY <1>23 DEF SoundMain, Running, channels
  <2>2. \A t \in Tracks :
          /\ ListHead(t)' = ListHead(t)
          /\ ~Walking(t)' /\ chan'[t] # 0 => ~Walking(t) /\ chan'[t] = chan[t]
    BY <1>23, <1>a DEF SoundMain, Running, Walking, ListHead, LInv, PInv, WalkInv,
       FlagInv, IInv, TypeOK, CallInv, MainInv, Holding, Stopping, Bodies, OnTrack,
       channels, tracks, infos, program, handler
  <2>. QED
    BY <2>1, <2>2, ListFrame DEF Of, LInv, ListInv
<1>24. CASE MPlayMain
  <2>1. UNCHANGED <<track, np, pp>>
    BY <1>24 DEF MPlayMain, WorkOn, channels
  <2>2. \A t \in Tracks :
          /\ ListHead(t)' = ListHead(t)
          /\ ~Walking(t)' /\ chan'[t] # 0 => ~Walking(t) /\ chan'[t] = chan[t]
    BY <1>24, <1>a DEF MPlayMain, WorkOn, Walking, ListHead, LInv, PInv, WalkInv,
       FlagInv, IInv, TypeOK, CallInv, MainInv, Holding, Stopping, Bodies, OnTrack,
       channels, tracks, infos, program, handler
  <2>. QED
    BY <2>1, <2>2, ListFrame DEF Of, LInv, ListInv
<1>25. CASE MPlayMain_paused
  <2>1. UNCHANGED <<track, np, pp>>
    BY <1>25 DEF MPlayMain_paused, Done, WorkOn, channels
  <2>2. \A t \in Tracks :
          /\ ListHead(t)' = ListHead(t)
          /\ ~Walking(t)' /\ chan'[t] # 0 => ~Walking(t) /\ chan'[t] = chan[t]
    BY <1>25, <1>a DEF MPlayMain_paused, Done, WorkOn, Walking, ListHead, LInv, PInv,
       WalkInv, FlagInv, IInv, TypeOK, CallInv, MainInv, Holding, Stopping, Bodies,
       OnTrack, channels, tracks, infos, program, handler
  <2>. QED
    BY <2>1, <2>2, ListFrame DEF Of, LInv, ListInv
<1>26. CASE FadeOutBody
  <2>1. UNCHANGED <<track, np, pp>>
    BY <1>26 DEF FadeOutBody, channels
  <2>2. \A t \in Tracks :
          /\ ListHead(t)' = ListHead(t)
          /\ ~Walking(t)' /\ chan'[t] # 0 => ~Walking(t) /\ chan'[t] = chan[t]
    BY <1>26, <1>a DEF FadeOutBody, Walking, ListHead, LInv, PInv, WalkInv, FlagInv,
       IInv, TypeOK, CallInv, MainInv, Holding, Stopping, Bodies, OnTrack, channels,
       tracks, infos, program, handler
  <2>. QED
    BY <2>1, <2>2, ListFrame DEF Of, LInv, ListInv
<1>27. CASE FadeOutBody_stop
  <2>1. UNCHANGED <<track, np, pp>>
    BY <1>27 DEF FadeOutBody_stop, channels
  <2>2. \A t \in Tracks :
          /\ ListHead(t)' = ListHead(t)
          /\ ~Walking(t)' /\ chan'[t] # 0 => ~Walking(t) /\ chan'[t] = chan[t]
    BY <1>27, <1>a DEF FadeOutBody_stop, Walking, ListHead, LInv, PInv, WalkInv,
       FlagInv, IInv, TypeOK, CallInv, MainInv, Holding, Stopping, Bodies, OnTrack,
       channels, tracks, infos, program, handler
  <2>. QED
    BY <2>1, <2>2, ListFrame DEF Of, LInv, ListInv
<1>28. CASE FadeOutBody_walk
  <2>1. hc \in Channels /\ ht \in Tracks /\ Walking(ht) /\ ListHead(ht) = hc /\ hc # 0
    BY <1>28, <1>a, Numbers DEF FadeOutBody_walk, Walking, ListHead, CallInv, MainInv,
       IInv, TypeOK, Running, Bodies, OnTrack, Holding, Stopping
  <2>2. /\ UNCHANGED <<np, pp, chan>> /\ track' = [track EXCEPT ![hc] = 0]
        /\ \A t \in Tracks : Walking(t)' <=> t = ht
        /\ \A t \in Tracks : Walking(t) <=> t = ht
        /\ \A t \in Tracks : t = ht => ListHead(t)' = np[hc]
    BY <1>28, <1>a, <2>1 DEF FadeOutBody_walk, Walking, ListHead, Running, Goto,
       CallInv, MainInv, IInv, Holding, Stopping, Bodies, OnTrack, channels, tracks,
       infos, program, handler
  <2>3. Chain(hc, Of(ht), np, pp)
    BY <2>1 DEF LInv, ListInv, List
  <2>4. ASSUME NEW t \in Tracks, t = ht PROVE List(t)'
    <3>1. Of(t)' = Of(t) \ {hc}
      BY <1>a, <2>1, <2>2, <2>4, Numbers DEF Of, TypeOK
    <3>2. Chain(np[hc], Of(t) \ {hc}, np, pp)
      BY <2>1, <2>3, <2>4, ChainTail
    <3>3. Walking(t)' /\ ListHead(t)' = np[hc]
      BY <2>2, <2>4
    <3>. QED
      BY <2>2, <3>1, <3>2, <3>3 DEF List
  <2>5. ASSUME NEW t \in Tracks, t # ht PROVE List(t)'
    <3>1. Of(t)' = Of(t)
      <4>1. track[hc] = ht
        BY <2>1, <2>3 DEF Chain, Of
      <4>. QED
        BY <1>a, <2>1, <2>2, <2>5, <4>1, Numbers DEF Of, TypeOK
    <3>2. ListHead(t)' = ListHead(t) /\ ~Walking(t)
      BY <2>2, <2>5 DEF ListHead
    <3>. QED
      BY <2>2, <3>1, <3>2, ListFrame DEF LInv, ListInv
  <2>. QED
    BY <2>4, <2>5 DEF ListInv
<1>29. CASE FadeOutBody_next
  <2>1. UNCHANGED <<track, np, pp>>
    BY <1>29 DEF FadeOutBody_next, Done, WorkOn, channels
  <2>2. \A t \in Tracks :
          /\ ListHead(t)' = ListHead(t)
          /\ ~Walking(t)' /\ chan'[t] # 0 => ~Walking(t) /\ chan'[t] = chan[t]
    BY <1>29, <1>a DEF FadeOutBody_next, Done, WorkOn, Walking, ListHead, LInv, PInv,
       WalkInv, FlagInv, IInv, TypeOK, CallInv, MainInv, Holding, Stopping, Bodies,
       OnTrack, channels, tracks, infos, program, handler
  <2>. QED
    BY <2>1, <2>2, ListFrame DEF Of, LInv, ListInv
<1>30. CASE MPlayMain_tick
  <2>1. UNCHANGED <<track, np, pp>>
    BY <1>30 DEF MPlayMain_tick, channels
  <2>2. \A t \in Tracks :
          /\ ListHead(t)' = ListHead(t)
          /\ ~Walking(t)' /\ chan'[t] # 0 => ~Walking(t) /\ chan'[t] = chan[t]
    BY <1>30, <1>a DEF MPlayMain_tick, Walking, ListHead, LInv, PInv, WalkInv, FlagInv,
       IInv, TypeOK, CallInv, MainInv, Holding, Stopping, Bodies, OnTrack, channels,
       tracks, infos, program, handler
  <2>. QED
    BY <2>1, <2>2, ListFrame DEF Of, LInv, ListInv
<1>31. CASE MPlayMain_tempoDone
  <2>1. UNCHANGED <<track, np, pp>>
    BY <1>31 DEF MPlayMain_tempoDone, channels
  <2>2. \A t \in Tracks :
          /\ ListHead(t)' = ListHead(t)
          /\ ~Walking(t)' /\ chan'[t] # 0 => ~Walking(t) /\ chan'[t] = chan[t]
    BY <1>31, <1>a DEF MPlayMain_tempoDone, Walking, ListHead, LInv, PInv, WalkInv,
       FlagInv, IInv, TypeOK, CallInv, MainInv, Holding, Stopping, Bodies, OnTrack,
       channels, tracks, infos, program, handler
  <2>. QED
    BY <2>1, <2>2, ListFrame DEF Of, LInv, ListInv
<1>32. CASE MPlayMain_noTrack
  <2>1. UNCHANGED <<track, np, pp>>
    BY <1>32 DEF MPlayMain_noTrack, NextInTick, Done, WorkOn, channels
  <2>2. \A t \in Tracks :
          /\ ListHead(t)' = ListHead(t)
          /\ ~Walking(t)' /\ chan'[t] # 0 => ~Walking(t) /\ chan'[t] = chan[t]
    BY <1>32, <1>a DEF MPlayMain_noTrack, NextInTick, Done, WorkOn, Walking, ListHead,
       LInv, PInv, WalkInv, FlagInv, IInv, TypeOK, CallInv, MainInv, Holding, Stopping,
       Bodies, OnTrack, channels, tracks, infos, program, handler
  <2>. QED
    BY <2>1, <2>2, ListFrame DEF Of, LInv, ListInv
<1>33. CASE MPlayMain_track
  <2>1. UNCHANGED <<track, np, pp>>
    BY <1>33 DEF MPlayMain_track, channels
  <2>2. \A t \in Tracks :
          /\ ListHead(t)' = ListHead(t)
          /\ ~Walking(t)' /\ chan'[t] # 0 => ~Walking(t) /\ chan'[t] = chan[t]
    BY <1>33, <1>a DEF MPlayMain_track, Walking, ListHead, LInv, PInv, WalkInv, FlagInv,
       IInv, TypeOK, CallInv, MainInv, Holding, Stopping, Bodies, OnTrack, channels,
       tracks, infos, program, handler
  <2>. QED
    BY <2>1, <2>2, ListFrame DEF Of, LInv, ListInv
<1>34. CASE MPlayMain_walk
  <2>1. \A t \in Tracks : ~Walking(t) /\ ~Walking(t)'
    BY <1>34, <1>a DEF MPlayMain_walk, Walking, Bodies, OnTrack, Holding, Stopping,
       channels, tracks, infos, program, handler
  <2>2. Lists(track, chan, np, pp)
    BY <2>1, NoWalk DEF LInv
  <2>3. Lists(track', chan', np', pp')
    <3>1. CASE status[hc] # "off"
      BY <1>34, <2>2, <3>1 DEF MPlayMain_walk
    <3>2. CASE status[hc] = "off"
      <4>1. hc \in Channels /\ ClearChain(hc)
        BY <1>34, <1>a, <3>2 DEF MPlayMain_walk, TypeOK
      <4>. QED
        BY <1>a, <2>2, <4>1, ClearedLists DEF ClearChain
    <3>. QED
      BY <3>1, <3>2
  <2>4. ASSUME NEW t \in Tracks PROVE List(t)'
    BY <2>1, <2>3 DEF List, ListHead, Of, Lists
  <2>. QED
    BY <2>4 DEF ListInv
<1>35. CASE MPlayMain_ready
  <2>1. UNCHANGED <<track, np, pp>>
    BY <1>35 DEF MPlayMain_ready, channels
  <2>2. \A t \in Tracks :
          /\ ListHead(t)' = ListHead(t)
          /\ ~Walking(t)' /\ chan'[t] # 0 => ~Walking(t) /\ chan'[t] = chan[t]
    BY <1>35, <1>a DEF MPlayMain_ready, Walking, ListHead, LInv, PInv, WalkInv, FlagInv,
       IInv, TypeOK, CallInv, MainInv, Holding, Stopping, Bodies, OnTrack, channels,
       tracks, infos, program, handler
  <2>. QED
    BY <2>1, <2>2, ListFrame DEF Of, LInv, ListInv
<1>36. CASE \E d \in TrackPrios, k \in 0 .. NumCgb : ply_note(d, k)
  <2>1. \A t \in Tracks : ~Walking(t) /\ ~Walking(t)'
    BY <1>36, <1>a DEF ply_note, Walking, Bodies, OnTrack, Holding, Stopping, channels,
       tracks, infos, program, handler
  <2>2. Lists(track, chan, np, pp)
    BY <2>1, NoWalk DEF LInv
  <2>3. Lists(track', chan', np', pp')
    <3>1. PICK d \in TrackPrios, k \in 0 .. NumCgb : ply_note(d, k)
      BY <1>36
    <3>2. UNCHANGED <<track, chan, np, pp>> \/ \E c \in Channels : Attach(c, ht)
      BY <1>a, <3>1, NoteTypes DEF ply_note, channels, tracks
    <3>3. ht \in Tracks
      BY <1>a, <3>1 DEF ply_note, IInv, MainInv, OnTrack
    <3>. QED
      BY <1>a, <2>2, <3>2, <3>3, AttachedLists
  <2>4. ASSUME NEW t \in Tracks PROVE List(t)'
    BY <2>1, <2>3 DEF List, ListHead, Of, Lists
  <2>. QED
    BY <2>4 DEF ListInv
<1>37. CASE \E c \in Channels : ply_endtie(c)
  <2>1. UNCHANGED <<track, np, pp>>
    BY <1>37 DEF ply_endtie, channels
  <2>2. \A t \in Tracks :
          /\ ListHead(t)' = ListHead(t)
          /\ ~Walking(t)' /\ chan'[t] # 0 => ~Walking(t) /\ chan'[t] = chan[t]
    BY <1>37, <1>a DEF ply_endtie, Walking, ListHead, LInv, PInv, WalkInv, FlagInv,
       IInv, TypeOK, CallInv, MainInv, Holding, Stopping, Bodies, OnTrack, channels,
       tracks, infos, program, handler
  <2>. QED
    BY <2>1, <2>2, ListFrame DEF Of, LInv, ListInv
<1>38. CASE ply_fine
  <2>1. UNCHANGED <<track, np, pp>>
    BY <1>38 DEF ply_fine, channels
  <2>2. \A t \in Tracks :
          /\ ListHead(t)' = ListHead(t)
          /\ ~Walking(t)' /\ chan'[t] # 0 => ~Walking(t) /\ chan'[t] = chan[t]
    BY <1>38, <1>a DEF ply_fine, Walking, ListHead, LInv, PInv, WalkInv, FlagInv, IInv,
       TypeOK, CallInv, MainInv, Holding, Stopping, Bodies, OnTrack, channels, tracks,
       infos, program, handler
  <2>. QED
    BY <2>1, <2>2, ListFrame DEF Of, LInv, ListInv
<1>39. CASE ply_fine_walk
  <2>1. \A t \in Tracks : ~Walking(t) /\ ~Walking(t)'
    BY <1>39, <1>a DEF ply_fine_walk, Walking, Bodies, OnTrack, Holding, Stopping,
       channels, tracks, infos, program, handler
  <2>2. Lists(track, chan, np, pp)
    BY <2>1, NoWalk DEF LInv
  <2>3. Lists(track', chan', np', pp')
    <3>1. hc \in Channels /\ ClearChain(hc)
      BY <1>39, <1>a DEF ply_fine_walk, TypeOK
    <3>. QED
      BY <1>a, <2>2, <3>1, ClearedLists DEF ClearChain
  <2>4. ASSUME NEW t \in Tracks PROVE List(t)'
    BY <2>1, <2>3 DEF List, ListHead, Of, Lists
  <2>. QED
    BY <2>4 DEF ListInv
<1>40. CASE ply_fine_end
  <2>1. UNCHANGED <<track, np, pp>>
    BY <1>40 DEF ply_fine_end, NextInTick, Done, WorkOn, channels
  <2>2. \A t \in Tracks :
          /\ ListHead(t)' = ListHead(t)
          /\ ~Walking(t)' /\ chan'[t] # 0 => ~Walking(t) /\ chan'[t] = chan[t]
    BY <1>40, <1>a DEF ply_fine_end, NextInTick, Done, WorkOn, Walking, ListHead, LInv,
       PInv, WalkInv, FlagInv, IInv, TypeOK, CallInv, MainInv, Holding, Stopping,
       Bodies, OnTrack, channels, tracks, infos, program, handler
  <2>. QED
    BY <2>1, <2>2, ListFrame DEF Of, LInv, ListInv
<1>41. CASE MPlayMain_wait
  <2>1. UNCHANGED <<track, np, pp>>
    BY <1>41 DEF MPlayMain_wait, NextInTick, Done, WorkOn, channels
  <2>2. \A t \in Tracks :
          /\ ListHead(t)' = ListHead(t)
          /\ ~Walking(t)' /\ chan'[t] # 0 => ~Walking(t) /\ chan'[t] = chan[t]
    BY <1>41, <1>a DEF MPlayMain_wait, NextInTick, Done, WorkOn, Walking, ListHead, LInv,
       PInv, WalkInv, FlagInv, IInv, TypeOK, CallInv, MainInv, Holding, Stopping,
       Bodies, OnTrack, channels, tracks, infos, program, handler
  <2>. QED
    BY <2>1, <2>2, ListFrame DEF Of, LInv, ListInv
<1>42. CASE MPlayMain_vol
  <2>1. UNCHANGED <<track, np, pp>>
    BY <1>42 DEF MPlayMain_vol, channels
  <2>2. \A t \in Tracks :
          /\ ListHead(t)' = ListHead(t)
          /\ ~Walking(t)' /\ chan'[t] # 0 => ~Walking(t) /\ chan'[t] = chan[t]
    BY <1>42, <1>a DEF MPlayMain_vol, Walking, ListHead, LInv, PInv, WalkInv, FlagInv,
       IInv, TypeOK, CallInv, MainInv, Holding, Stopping, Bodies, OnTrack, channels,
       tracks, infos, program, handler
  <2>. QED
    BY <2>1, <2>2, ListFrame DEF Of, LInv, ListInv
<1>43. CASE MPlayMain_volNext
  <2>1. UNCHANGED <<track, np, pp>>
    BY <1>43 DEF MPlayMain_volNext, NextInVol, Done, WorkOn, channels
  <2>2. \A t \in Tracks :
          /\ ListHead(t)' = ListHead(t)
          /\ ~Walking(t)' /\ chan'[t] # 0 => ~Walking(t) /\ chan'[t] = chan[t]
    BY <1>43, <1>a DEF MPlayMain_volNext, NextInVol, Done, WorkOn, Walking, ListHead,
       LInv, PInv, WalkInv, FlagInv, IInv, TypeOK, CallInv, MainInv, Holding, Stopping,
       Bodies, OnTrack, channels, tracks, infos, program, handler
  <2>. QED
    BY <2>1, <2>2, ListFrame DEF Of, LInv, ListInv
<1>44. CASE SoundMainRAM
  <2>1. UNCHANGED <<track, np, pp>>
    BY <1>44 DEF SoundMainRAM, channels
  <2>2. \A t \in Tracks :
          /\ ListHead(t)' = ListHead(t)
          /\ ~Walking(t)' /\ chan'[t] # 0 => ~Walking(t) /\ chan'[t] = chan[t]
    BY <1>44, <1>a DEF SoundMainRAM, Walking, ListHead, LInv, PInv, WalkInv, FlagInv,
       IInv, TypeOK, CallInv, MainInv, Holding, Stopping, Bodies, OnTrack, channels,
       tracks, infos, program, handler
  <2>. QED
    BY <2>1, <2>2, ListFrame DEF Of, LInv, ListInv
<1>45. CASE UNCHANGED vars
  BY <1>45 DEF LInv, ListInv, List, ListHead, Walking, Of, vars, channels, tracks, infos,
     program, handler
<1>. QED
  BY <1>1, <1>2, <1>3, <1>4, <1>5, <1>6, <1>7, <1>8, <1>9, <1>10, <1>11, <1>12, <1>13,
     <1>14, <1>15, <1>16, <1>17, <1>18, <1>19, <1>20, <1>21, <1>22, <1>23, <1>24, <1>25,
     <1>26, <1>27, <1>28, <1>29, <1>30, <1>31, <1>32, <1>33, <1>34, <1>35, <1>36, <1>37,
     <1>38, <1>39, <1>40, <1>41, <1>42, <1>43, <1>44, <1>45 DEF Next, Program, Interrupt

\* The step is a note.
Noting == hpc = "cmd" /\ UNCHANGED <<flags, infos, program, handler>>

\* Nothing but a note of the track itself gives a list to a track that has none.
LEMMA EmptyStays ==
  ASSUME LastOnly, LInv, [Next]_vars
  PROVE  \A t \in Tracks : chan[t] = 0 => chan'[t] = 0 \/ (t = ht /\ Noting)
<1>a. TypeOK /\ IInv /\ (hpc \in Bodies => pc \notin Holding)
  BY KeptOut DEF LInv, PInv, IInv
<1>1. CASE \E p \in Players : MPlayStart(p)
  BY <1>1 DEF MPlayStart, Call, Running, channels, tracks, infos, handler
<1>2. CASE \E p \in Players : \E f \in {"stop", "continue", "control"} : Simple(f, p)
  BY <1>2 DEF Simple, Call, Running, channels, tracks, infos, handler
<1>3. CASE \E p \in Players : \E f \in {"fadeout", "fadetemp", "fadein"} : FadeCall(f, p)
  BY <1>3 DEF FadeCall, Call, Running, channels, tracks, infos, handler
<1>4. CASE \E p \in Players : m4aMPlayImmInit(p)
  BY <1>4 DEF m4aMPlayImmInit, Call, Running, channels, tracks, infos, handler
<1>5. CASE MPlayStart_look
  BY <1>5 DEF MPlayStart_look, Goto, Return, Running, channels, tracks, infos, handler
<1>6. CASE MPlayStart_look2
  BY <1>6 DEF MPlayStart_look2, Goto, Return, Running, channels, tracks, infos, handler
<1>7. CASE MPlayStart_lock
  BY <1>7 DEF MPlayStart_lock, Locked, Running, channels, tracks, handler
<1>8. CASE m4aMPlayStop_lock
  BY <1>8 DEF m4aMPlayStop_lock, Locked, Running, channels, tracks, handler
<1>9. CASE MPlayContinue
  BY <1>9 DEF MPlayContinue, Locked, Goto, Running, channels, tracks, handler
<1>10. CASE m4aMPlayControl
  BY <1>10 DEF m4aMPlayControl, Locked, Goto, Running, channels, tracks, handler
<1>11. CASE MPlayFadeOut
  BY <1>11 DEF MPlayFadeOut, FadeStart, Locked, Goto, Running, channels, tracks, handler
<1>12. CASE m4aMPlayFadeOutTemporarily
  BY <1>12 DEF m4aMPlayFadeOutTemporarily, FadeStart, Locked, Goto, Running, channels,
     tracks, handler
<1>13. CASE m4aMPlayFadeIn
  BY <1>13 DEF m4aMPlayFadeIn, FadeStart, Locked, Goto, Running, channels, tracks, handler
<1>14. CASE TrackStop
  BY <1>14 DEF TrackStop, Running, channels, tracks, infos, handler
<1>15. CASE TrackStop_silence
  BY <1>15 DEF TrackStop_silence, Goto, Running, tracks, infos, handler
<1>16. CASE TrackStop_disown
  BY <1>16 DEF TrackStop_disown, Goto, Running, tracks, infos, handler
<1>17. CASE TrackStop_follow
  BY <1>17 DEF TrackStop_follow, Running, channels, tracks, infos, handler
<1>18. CASE TrackStop_forget
  BY <1>18 DEF TrackStop_forget, Goto, Running, channels, infos, handler
<1>19. CASE AfterStop
  BY <1>19, <1>a DEF TypeOK, AfterStop, Running, channels, tracks, infos, handler
<1>20. CASE Unlock
  BY <1>20 DEF Unlock, Return, Running, channels, tracks, handler
<1>21. CASE m4aMPlayImmInit_test
  BY <1>21 DEF m4aMPlayImmInit_test, ImmNext, Goto, Return, Running, channels, tracks,
     infos, handler
<1>22. CASE m4aMPlayImmInit_clear
  BY <1>22 DEF m4aMPlayImmInit_clear, ImmNext, Goto, Return, Running, channels, infos,
     handler
<1>23. CASE SoundMain
  BY <1>23 DEF SoundMain, Running, channels, tracks, infos, program
<1>24. CASE MPlayMain
  BY <1>24 DEF MPlayMain, channels, tracks, program
<1>25. CASE MPlayMain_paused
  BY <1>25 DEF MPlayMain_paused, channels, tracks, program
<1>26. CASE FadeOutBody
  BY <1>26 DEF FadeOutBody, channels, tracks, program
<1>27. CASE FadeOutBody_stop
  BY <1>27 DEF FadeOutBody_stop, channels, tracks, infos, program
<1>28. CASE FadeOutBody_walk
  BY <1>28 DEF FadeOutBody_walk, tracks, infos, program
<1>29. CASE FadeOutBody_next
  BY <1>29, <1>a DEF TypeOK, FadeOutBody_next, channels, tracks, infos, program
<1>30. CASE MPlayMain_tick
  BY <1>30 DEF MPlayMain_tick, channels, tracks, infos, program
<1>31. CASE MPlayMain_tempoDone
  BY <1>31 DEF MPlayMain_tempoDone, channels, tracks, infos, program
<1>32. CASE MPlayMain_noTrack
  BY <1>32 DEF MPlayMain_noTrack, NextInTick, channels, tracks, infos, program
<1>33. CASE MPlayMain_track
  BY <1>33 DEF MPlayMain_track, channels, tracks, infos, program
<1>34. CASE MPlayMain_walk
  <2>1. \A t \in Tracks : ~Walking(t)
    BY <1>34, <1>a DEF TypeOK, MPlayMain_walk, Walking, Bodies, OnTrack, Holding, Stopping
  <2>2. Lists(track, chan, np, pp)
    BY <2>1, NoWalk DEF LInv
  <2>3. UNCHANGED chan \/ (hc \in Channels /\ ClearChain(hc))
    BY <1>34, <1>a DEF TypeOK, MPlayMain_walk, TypeOK
  <2>. QED
    BY <1>a, <2>2, <2>3, ClearedLists DEF ClearChain
<1>35. CASE MPlayMain_ready
  BY <1>35, <1>a DEF TypeOK, MPlayMain_ready, channels, tracks, infos, program
<1>36. CASE \E d \in TrackPrios, k \in 0 .. NumCgb : ply_note(d, k)
  <2>1. \A t \in Tracks : ~Walking(t)
    BY <1>36, <1>a DEF ply_note, Walking, Bodies, OnTrack, Holding, Stopping
  <2>2. Lists(track, chan, np, pp)
    BY <2>1, NoWalk DEF LInv
  <2>3. PICK d \in TrackPrios, k \in 0 .. NumCgb : ply_note(d, k)
    BY <1>36
  <2>4. /\ hpc = "cmd" /\ UNCHANGED <<flags, infos, program, handler>>
        /\ UNCHANGED chan \/ \E c \in Channels : Attach(c, ht)
    BY <1>a, <2>3, NoteTypes DEF ply_note, channels, tracks
  <2>5. ht \in Tracks
    BY <1>a, <2>4 DEF IInv, MainInv, OnTrack
  <2>. QED
    BY <1>a, <2>2, <2>4, <2>5, AttachedLists DEF Noting
<1>37. CASE \E c \in Channels : ply_endtie(c)
  BY <1>37 DEF ply_endtie, tracks, infos, program, handler
<1>38. CASE ply_fine
  BY <1>38 DEF ply_fine, channels, tracks, infos, program
<1>39. CASE ply_fine_walk
  <2>1. \A t \in Tracks : ~Walking(t)
    BY <1>39, <1>a DEF ply_fine_walk, Walking, Bodies, OnTrack, Holding, Stopping
  <2>2. Lists(track, chan, np, pp)
    BY <2>1, NoWalk DEF LInv
  <2>3. hc \in Channels /\ ClearChain(hc)
    BY <1>39, <1>a DEF ply_fine_walk, TypeOK
  <2>. QED
    BY <1>a, <2>2, <2>3, ClearedLists DEF ClearChain
<1>40. CASE ply_fine_end
  BY <1>40 DEF ply_fine_end, NextInTick, channels, infos, program
<1>41. CASE MPlayMain_wait
  BY <1>41 DEF MPlayMain_wait, NextInTick, channels, tracks, infos, program
<1>42. CASE MPlayMain_vol
  BY <1>42 DEF MPlayMain_vol, channels, tracks, infos, program
<1>43. CASE MPlayMain_volNext
  BY <1>43 DEF MPlayMain_volNext, NextInVol, channels, tracks, program
<1>44. CASE SoundMainRAM
  BY <1>44 DEF SoundMainRAM, tracks, infos, program
<1>45. CASE UNCHANGED vars
  BY <1>45 DEF vars, channels, tracks, infos, program, handler
<1>. QED
  BY <1>1, <1>2, <1>3, <1>4, <1>5, <1>6, <1>7, <1>8, <1>9, <1>10, <1>11, <1>12, <1>13,
     <1>14, <1>15, <1>16, <1>17, <1>18, <1>19, <1>20, <1>21, <1>22, <1>23, <1>24, <1>25,
     <1>26, <1>27, <1>28, <1>29, <1>30, <1>31, <1>32, <1>33, <1>34, <1>35, <1>36, <1>37,
     <1>38, <1>39, <1>40, <1>41, <1>42, <1>43, <1>44, <1>45 DEF Next, Program, Interrupt

\* A track that is not played has no list.
LEMMA FlagsStep ==
  ASSUME LastOnly, LInv, [Next]_vars
  PROVE  \A t \in Tracks : flags'[t] # "exist" => chan'[t] = 0
<1>a. TypeOK /\ IInv /\ (hpc \in Bodies => pc \notin Holding)
  BY KeptOut DEF LInv, PInv, IInv
<1>b. /\ \A t \in Tracks : flags[t] # "exist" => chan[t] = 0
      /\ \A t \in Tracks : chan[t] = 0 => chan'[t] = 0 \/ (t = ht /\ Noting)
      /\ Noting => flags[ht] = "exist" /\ flags' = flags
      /\ flags \in [Tracks -> {"none", "start", "exist"}] /\ chan \in [Tracks -> Channels \cup {0}]
  BY <1>a, EmptyStays DEF LInv, PInv, WalkInv, FlagInv, Noting, TypeOK
<1>1. CASE \E p \in Players : MPlayStart(p)
  BY <1>1, <1>b DEF MPlayStart, Call, Running, channels, tracks, infos, handler
<1>2. CASE \E p \in Players : \E f \in {"stop", "continue", "control"} : Simple(f, p)
  BY <1>2, <1>b DEF Simple, Call, Running, channels, tracks, infos, handler
<1>3. CASE \E p \in Players : \E f \in {"fadeout", "fadetemp", "fadein"} : FadeCall(f, p)
  BY <1>3, <1>b DEF FadeCall, Call, Running, channels, tracks, infos, handler
<1>4. CASE \E p \in Players : m4aMPlayImmInit(p)
  BY <1>4, <1>b DEF m4aMPlayImmInit, Call, Running, channels, tracks, infos, handler
<1>5. CASE MPlayStart_look
  BY <1>5, <1>b DEF MPlayStart_look, Goto, Return, Running, channels, tracks, infos,
     handler
<1>6. CASE MPlayStart_look2
  BY <1>6, <1>b DEF MPlayStart_look2, Goto, Return, Running, channels, tracks, infos,
     handler
<1>7. CASE MPlayStart_lock
  BY <1>7, <1>b DEF MPlayStart_lock, Locked, Running, channels, tracks, handler
<1>8. CASE m4aMPlayStop_lock
  BY <1>8, <1>b DEF m4aMPlayStop_lock, Locked, Running, channels, tracks, handler
<1>9. CASE MPlayContinue
  BY <1>9, <1>b DEF MPlayContinue, Locked, Goto, Running, channels, tracks, handler
<1>10. CASE m4aMPlayControl
  BY <1>10, <1>b DEF m4aMPlayControl, Locked, Goto, Running, channels, tracks, handler
<1>11. CASE MPlayFadeOut
  BY <1>11, <1>b DEF MPlayFadeOut, FadeStart, Locked, Goto, Running, channels, tracks,
     handler
<1>12. CASE m4aMPlayFadeOutTemporarily
  BY <1>12, <1>b DEF m4aMPlayFadeOutTemporarily, FadeStart, Locked, Goto, Running,
     channels, tracks, handler
<1>13. CASE m4aMPlayFadeIn
  BY <1>13, <1>b DEF m4aMPlayFadeIn, FadeStart, Locked, Goto, Running, channels, tracks,
     handler
<1>14. CASE TrackStop
  BY <1>14, <1>b DEF TrackStop, Running, channels, tracks, infos, handler
<1>15. CASE TrackStop_silence
  BY <1>15, <1>b DEF TrackStop_silence, Goto, Running, tracks, infos, handler
<1>16. CASE TrackStop_disown
  BY <1>16, <1>b DEF TrackStop_disown, Goto, Running, tracks, infos, handler
<1>17. CASE TrackStop_follow
  BY <1>17, <1>b DEF TrackStop_follow, Running, channels, tracks, infos, handler
<1>18. CASE TrackStop_forget
  BY <1>18, <1>b DEF TrackStop_forget, Goto, Running, channels, infos, handler
<1>19. CASE AfterStop
  BY <1>19, <1>b DEF AfterStop, Running, LInv, PInv, WalkInv, IInv, channels, tracks,
     infos, handler
<1>20. CASE Unlock
  BY <1>20, <1>b DEF Unlock, Return, Running, channels, tracks, handler
<1>21. CASE m4aMPlayImmInit_test
  BY <1>21, <1>b DEF m4aMPlayImmInit_test, ImmNext, Goto, Return, Running, channels,
     tracks, infos, handler
<1>22. CASE m4aMPlayImmInit_clear
  BY <1>22, <1>b DEF m4aMPlayImmInit_clear, ImmNext, Goto, Return, Running, channels,
     infos, handler
<1>23. CASE SoundMain
  BY <1>23, <1>b DEF SoundMain, Running, channels, tracks, infos, program
<1>24. CASE MPlayMain
  BY <1>24, <1>b DEF MPlayMain, channels, tracks, program
<1>25. CASE MPlayMain_paused
  BY <1>25, <1>b DEF MPlayMain_paused, channels, tracks, program
<1>26. CASE FadeOutBody
  BY <1>26, <1>b DEF FadeOutBody, channels, tracks, program
<1>27. CASE FadeOutBody_stop
  BY <1>27, <1>b DEF FadeOutBody_stop, channels, tracks, infos, program
<1>28. CASE FadeOutBody_walk
  BY <1>28, <1>b DEF FadeOutBody_walk, tracks, infos, program
<1>29. CASE FadeOutBody_next
  BY <1>29, <1>b DEF FadeOutBody_next, channels, tracks, infos, program
<1>30. CASE MPlayMain_tick
  BY <1>30, <1>b DEF MPlayMain_tick, channels, tracks, infos, program
<1>31. CASE MPlayMain_tempoDone
  BY <1>31, <1>b DEF MPlayMain_tempoDone, channels, tracks, infos, program
<1>32. CASE MPlayMain_noTrack
  BY <1>32, <1>b DEF MPlayMain_noTrack, NextInTick, channels, tracks, infos, program
<1>33. CASE MPlayMain_track
  BY <1>33, <1>b DEF MPlayMain_track, channels, tracks, infos, program
<1>34. CASE MPlayMain_walk
  BY <1>34, <1>b DEF MPlayMain_walk, infos, program
<1>35. CASE MPlayMain_ready
  BY <1>35, <1>b DEF MPlayMain_ready, channels, tracks, infos, program
<1>36. CASE \E d \in TrackPrios, k \in 0 .. NumCgb : ply_note(d, k)
  BY <1>36, <1>b DEF ply_note, channels, tracks, infos, program, handler
<1>37. CASE \E c \in Channels : ply_endtie(c)
  BY <1>37, <1>b DEF ply_endtie, tracks, infos, program, handler
<1>38. CASE ply_fine
  BY <1>38, <1>b DEF ply_fine, channels, tracks, infos, program
<1>39. CASE ply_fine_walk
  BY <1>39, <1>b DEF ply_fine_walk, infos, program
<1>40. CASE ply_fine_end
  BY <1>40 DEF ply_fine_end, NextInTick, LInv, PInv, WalkInv, IInv, channels, infos,
     program
<1>41. CASE MPlayMain_wait
  BY <1>41, <1>b DEF MPlayMain_wait, NextInTick, channels, tracks, infos, program
<1>42. CASE MPlayMain_vol
  BY <1>42, <1>b DEF MPlayMain_vol, channels, tracks, infos, program
<1>43. CASE MPlayMain_volNext
  BY <1>43, <1>b DEF MPlayMain_volNext, NextInVol, channels, tracks, program
<1>44. CASE SoundMainRAM
  BY <1>44, <1>b DEF SoundMainRAM, tracks, infos, program
<1>45. CASE UNCHANGED vars
  BY <1>45, <1>b DEF vars, channels, tracks, infos, program, handler
<1>. QED
  BY <1>1, <1>2, <1>3, <1>4, <1>5, <1>6, <1>7, <1>8, <1>9, <1>10, <1>11, <1>12, <1>13,
     <1>14, <1>15, <1>16, <1>17, <1>18, <1>19, <1>20, <1>21, <1>22, <1>23, <1>24, <1>25,
     <1>26, <1>27, <1>28, <1>29, <1>30, <1>31, <1>32, <1>33, <1>34, <1>35, <1>36, <1>37,
     <1>38, <1>39, <1>40, <1>41, <1>42, <1>43, <1>44, <1>45 DEF Next, Program, Interrupt

\* m4aMPlayImmInit clears a started track, and TrackStop has forgotten the list of its track.
LEMMA CallWalk ==
  ASSUME LastOnly, LInv, [Next]_vars
  PROVE  (pc = "immclear" => flags[ct] = "start")' /\ (pc = "set" => chan[ct] = 0)'
<1>a. TypeOK /\ IInv /\ (hpc \in Bodies => pc \notin Holding)
  BY KeptOut DEF LInv, PInv, IInv
<1>1. CASE \E p \in Players : MPlayStart(p)
  BY <1>1 DEF MPlayStart, Call, Running, LInv, channels, tracks, infos, handler
<1>2. CASE \E p \in Players : \E f \in {"stop", "continue", "control"} : Simple(f, p)
  BY <1>2 DEF Simple, Call, Running, LInv, channels, tracks, infos, handler
<1>3. CASE \E p \in Players : \E f \in {"fadeout", "fadetemp", "fadein"} : FadeCall(f, p)
  BY <1>3 DEF FadeCall, Call, Running, LInv, channels, tracks, infos, handler
<1>4. CASE \E p \in Players : m4aMPlayImmInit(p)
  BY <1>4 DEF m4aMPlayImmInit, Call, Running, LInv, channels, tracks, infos, handler
<1>5. CASE MPlayStart_look
  BY <1>5 DEF MPlayStart_look, Goto, Return, Running, LInv, channels, tracks, infos,
     handler
<1>6. CASE MPlayStart_look2
  BY <1>6 DEF MPlayStart_look2, Goto, Return, Running, LInv, channels, tracks, infos,
     handler
<1>7. CASE MPlayStart_lock
  BY <1>7 DEF MPlayStart_lock, Locked, Running, LInv, channels, tracks, handler
<1>8. CASE m4aMPlayStop_lock
  BY <1>8 DEF m4aMPlayStop_lock, Locked, Running, LInv, channels, tracks, handler
<1>9. CASE MPlayContinue
  BY <1>9 DEF MPlayContinue, Locked, Goto, Running, LInv, channels, tracks, handler
<1>10. CASE m4aMPlayControl
  BY <1>10 DEF m4aMPlayControl, Locked, Goto, Running, LInv, channels, tracks, handler
<1>11. CASE MPlayFadeOut
  BY <1>11 DEF MPlayFadeOut, FadeStart, Locked, Goto, Running, LInv, channels, tracks,
     handler
<1>12. CASE m4aMPlayFadeOutTemporarily
  BY <1>12 DEF m4aMPlayFadeOutTemporarily, FadeStart, Locked, Goto, Running, LInv,
     channels, tracks, handler
<1>13. CASE m4aMPlayFadeIn
  BY <1>13 DEF m4aMPlayFadeIn, FadeStart, Locked, Goto, Running, LInv, channels, tracks,
     handler
<1>14. CASE TrackStop
  BY <1>14 DEF TrackStop, Running, LInv, PInv, WalkInv, CallInv, IInv, Stopping, Holding,
     channels, tracks, infos, handler
<1>15. CASE TrackStop_silence
  BY <1>15 DEF TrackStop_silence, Goto, Running, LInv, tracks, infos, handler
<1>16. CASE TrackStop_disown
  BY <1>16 DEF TrackStop_disown, Goto, Running, LInv, tracks, infos, handler
<1>17. CASE TrackStop_follow
  BY <1>17 DEF TrackStop_follow, Running, LInv, channels, tracks, infos, handler
<1>18. CASE TrackStop_forget
  BY <1>18 DEF TrackStop_forget, Goto, Running, LInv, PInv, CallInv, IInv, Stopping,
     Holding, TypeOK, channels, infos, handler
<1>19. CASE AfterStop
  BY <1>19 DEF AfterStop, Running, LInv, channels, tracks, infos, handler
<1>20. CASE Unlock
  BY <1>20 DEF Unlock, Return, Running, LInv, channels, tracks, handler
<1>21. CASE m4aMPlayImmInit_test
  BY <1>21 DEF m4aMPlayImmInit_test, ImmNext, Goto, Return, Running, LInv, channels,
     tracks, infos, handler
<1>22. CASE m4aMPlayImmInit_clear
  BY <1>22 DEF m4aMPlayImmInit_clear, ImmNext, Goto, Return, Running, LInv, channels,
     infos, handler
<1>23. CASE SoundMain
  BY <1>23 DEF SoundMain, Running, LInv, WalkInv, channels, tracks, infos, program
<1>24. CASE MPlayMain
  BY <1>24 DEF MPlayMain, LInv, WalkInv, channels, tracks, program
<1>25. CASE MPlayMain_paused
  BY <1>25 DEF MPlayMain_paused, LInv, WalkInv, channels, tracks, program
<1>26. CASE FadeOutBody
  BY <1>26 DEF FadeOutBody, LInv, WalkInv, channels, tracks, program
<1>27. CASE FadeOutBody_stop
  BY <1>27 DEF FadeOutBody_stop, LInv, WalkInv, channels, tracks, infos, program
<1>28. CASE FadeOutBody_walk
  BY <1>28 DEF FadeOutBody_walk, LInv, WalkInv, tracks, infos, program
<1>29. CASE FadeOutBody_next
  BY <1>29, <1>a DEF FadeOutBody_next, LInv, PInv, CallInv, IInv, OnTrack, Bodies,
     channels, tracks, infos, program
<1>30. CASE MPlayMain_tick
  BY <1>30 DEF MPlayMain_tick, LInv, WalkInv, channels, tracks, infos, program
<1>31. CASE MPlayMain_tempoDone
  BY <1>31 DEF MPlayMain_tempoDone, LInv, WalkInv, channels, tracks, infos, program
<1>32. CASE MPlayMain_noTrack
  BY <1>32 DEF MPlayMain_noTrack, NextInTick, LInv, WalkInv, channels, tracks, infos,
     program
<1>33. CASE MPlayMain_track
  BY <1>33 DEF MPlayMain_track, LInv, WalkInv, channels, tracks, infos, program
<1>34. CASE MPlayMain_walk
  BY <1>34, <1>a DEF MPlayMain_walk, LInv, PInv, WalkInv, IInv, OnTrack, Bodies, Stopping,
     Holding, infos, program
<1>35. CASE MPlayMain_ready
  BY <1>35, <1>a DEF MPlayMain_ready, LInv, PInv, CallInv, IInv, OnTrack, Bodies,
     channels, tracks, infos, program
<1>36. CASE \E d \in TrackPrios, k \in 0 .. NumCgb : ply_note(d, k)
  BY <1>36, <1>a DEF ply_note, LInv, PInv, WalkInv, IInv, OnTrack, Bodies, Stopping,
     Holding, channels, tracks, infos, program, handler
<1>37. CASE \E c \in Channels : ply_endtie(c)
  BY <1>37 DEF ply_endtie, LInv, WalkInv, tracks, infos, program, handler
<1>38. CASE ply_fine
  BY <1>38 DEF ply_fine, LInv, WalkInv, channels, tracks, infos, program
<1>39. CASE ply_fine_walk
  BY <1>39, <1>a DEF ply_fine_walk, LInv, PInv, WalkInv, IInv, OnTrack, Bodies, Stopping,
     Holding, infos, program
<1>40. CASE ply_fine_end
  BY <1>40 DEF ply_fine_end, NextInTick, LInv, PInv, WalkInv, CallInv, IInv, channels,
     infos, program
<1>41. CASE MPlayMain_wait
  BY <1>41 DEF MPlayMain_wait, NextInTick, LInv, WalkInv, channels, tracks, infos, program
<1>42. CASE MPlayMain_vol
  BY <1>42 DEF MPlayMain_vol, LInv, WalkInv, channels, tracks, infos, program
<1>43. CASE MPlayMain_volNext
  BY <1>43 DEF MPlayMain_volNext, NextInVol, LInv, WalkInv, channels, tracks, program
<1>44. CASE SoundMainRAM
  BY <1>44 DEF SoundMainRAM, LInv, WalkInv, tracks, infos, program
<1>45. CASE UNCHANGED vars
  BY <1>45 DEF LInv, WalkInv, vars, channels, tracks, infos, program, handler
<1>. QED
  BY <1>1, <1>2, <1>3, <1>4, <1>5, <1>6, <1>7, <1>8, <1>9, <1>10, <1>11, <1>12, <1>13,
     <1>14, <1>15, <1>16, <1>17, <1>18, <1>19, <1>20, <1>21, <1>22, <1>23, <1>24, <1>25,
     <1>26, <1>27, <1>28, <1>29, <1>30, <1>31, <1>32, <1>33, <1>34, <1>35, <1>36, <1>37,
     <1>38, <1>39, <1>40, <1>41, <1>42, <1>43, <1>44, <1>45 DEF Next, Program, Interrupt

\* The head of a list and what follows a channel of it are channels of the list.
LEMMA OnList ==
  ASSUME LInv, NEW t \in Tracks, ~Walking(t)
  PROVE  /\ chan[t] # 0 => chan[t] \in Channels /\ track[chan[t]] = t
         /\ \A c \in Channels : track[c] = t /\ np[c] # 0 =>
              np[c] \in Channels /\ track[np[c]] = t /\ np[c] # c
<1> DEFINE S == Of(t)
<1>1. Chain(chan[t], S, np, pp)
  BY DEF LInv, ListInv, List, ListHead
<1>2. \A c : c \in S <=> c \in Channels /\ track[c] = t
  BY DEF Of
<1> HIDE DEF S
<1>3. \A c \in S : np[c] # 0 => np[c] \in S /\ np[c] # c
  <2> SUFFICES ASSUME NEW c \in S, np[c] # 0 PROVE np[c] \in S /\ np[c] # c
    OBVIOUS
  <2>1. np[c] \in S /\ pp[np[c]] = c
    BY <1>1 DEF Chain
  <2>2. \E k \in {c} : pp[k] \notin {c}
    <3>1. {c} \in SUBSET S /\ {c} # {}
      OBVIOUS
    <3>. QED
      BY <1>1, <3>1 DEF Chain
  <2>. QED
    BY <2>1, <2>2
<1>4. chan[t] # 0 => chan[t] \in S
  BY <1>1 DEF Chain
<1>. QED
  BY <1>2, <1>3, <1>4

\* SoundMain walks on the list of its track, and takes a list it ends from its head.
LEMMA MainWalk ==
  ASSUME LastOnly, LInv, [Next]_vars
  PROVE  /\ (hpc \in {"tickwalk", "volwalk"} /\ hc # 0 => track[hc] = ht)'
         /\ (hpc = "finewalk" => hc = chan[ht])'
<1>a. TypeOK /\ IInv /\ (hpc \in Bodies => pc \notin Holding)
  BY KeptOut DEF LInv, PInv, IInv
<1>1. CASE \E p \in Players : MPlayStart(p)
  BY <1>1 DEF MPlayStart, Call, Running, LInv, channels, tracks, infos, handler
<1>2. CASE \E p \in Players : \E f \in {"stop", "continue", "control"} : Simple(f, p)
  BY <1>2 DEF Simple, Call, Running, LInv, channels, tracks, infos, handler
<1>3. CASE \E p \in Players : \E f \in {"fadeout", "fadetemp", "fadein"} : FadeCall(f, p)
  BY <1>3 DEF FadeCall, Call, Running, LInv, channels, tracks, infos, handler
<1>4. CASE \E p \in Players : m4aMPlayImmInit(p)
  BY <1>4 DEF m4aMPlayImmInit, Call, Running, LInv, channels, tracks, infos, handler
<1>5. CASE MPlayStart_look
  BY <1>5 DEF MPlayStart_look, Goto, Return, Running, LInv, channels, tracks, infos,
     handler
<1>6. CASE MPlayStart_look2
  BY <1>6 DEF MPlayStart_look2, Goto, Return, Running, LInv, channels, tracks, infos,
     handler
<1>7. CASE MPlayStart_lock
  BY <1>7 DEF MPlayStart_lock, Locked, Running, LInv, channels, tracks, handler
<1>8. CASE m4aMPlayStop_lock
  BY <1>8 DEF m4aMPlayStop_lock, Locked, Running, LInv, channels, tracks, handler
<1>9. CASE MPlayContinue
  BY <1>9 DEF MPlayContinue, Locked, Goto, Running, LInv, channels, tracks, handler
<1>10. CASE m4aMPlayControl
  BY <1>10 DEF m4aMPlayControl, Locked, Goto, Running, LInv, channels, tracks, handler
<1>11. CASE MPlayFadeOut
  BY <1>11 DEF MPlayFadeOut, FadeStart, Locked, Goto, Running, LInv, channels, tracks,
     handler
<1>12. CASE m4aMPlayFadeOutTemporarily
  BY <1>12 DEF m4aMPlayFadeOutTemporarily, FadeStart, Locked, Goto, Running, LInv,
     channels, tracks, handler
<1>13. CASE m4aMPlayFadeIn
  BY <1>13 DEF m4aMPlayFadeIn, FadeStart, Locked, Goto, Running, LInv, channels, tracks,
     handler
<1>14. CASE TrackStop
  BY <1>14 DEF TrackStop, Running, LInv, channels, tracks, infos, handler
<1>15. CASE TrackStop_silence
  BY <1>15 DEF TrackStop_silence, Goto, Running, LInv, tracks, infos, handler
<1>16. CASE TrackStop_disown
  BY <1>16 DEF TrackStop_disown, Goto, Running, LInv, tracks, infos, handler
<1>17. CASE TrackStop_follow
  BY <1>17 DEF TrackStop_follow, Running, LInv, channels, tracks, infos, handler
<1>18. CASE TrackStop_forget
  BY <1>18 DEF TrackStop_forget, Goto, Running, LInv, channels, infos, handler
<1>19. CASE AfterStop
  BY <1>19 DEF AfterStop, Running, LInv, channels, tracks, infos, handler
<1>20. CASE Unlock
  BY <1>20 DEF Unlock, Return, Running, LInv, channels, tracks, handler
<1>21. CASE m4aMPlayImmInit_test
  BY <1>21 DEF m4aMPlayImmInit_test, ImmNext, Goto, Return, Running, LInv, channels,
     tracks, infos, handler
<1>22. CASE m4aMPlayImmInit_clear
  BY <1>22 DEF m4aMPlayImmInit_clear, ImmNext, Goto, Return, Running, LInv, channels,
     infos, handler
<1>23. CASE SoundMain
  BY <1>23 DEF SoundMain, Running, LInv, channels, tracks, infos, program
<1>24. CASE MPlayMain
  BY <1>24 DEF MPlayMain, WorkOn, LInv, channels, tracks, program
<1>25. CASE MPlayMain_paused
  BY <1>25 DEF MPlayMain_paused, Done, WorkOn, LInv, channels, tracks, program
<1>26. CASE FadeOutBody
  BY <1>26 DEF FadeOutBody, LInv, channels, tracks, program
<1>27. CASE FadeOutBody_stop
  BY <1>27 DEF FadeOutBody_stop, LInv, channels, tracks, infos, program
<1>28. CASE FadeOutBody_walk
  BY <1>28 DEF FadeOutBody_walk, LInv, tracks, infos, program
<1>29. CASE FadeOutBody_next
  BY <1>29 DEF FadeOutBody_next, Done, WorkOn, LInv, channels, tracks, infos, program
<1>30. CASE MPlayMain_tick
  BY <1>30 DEF MPlayMain_tick, LInv, channels, tracks, infos, program
<1>31. CASE MPlayMain_tempoDone
  BY <1>31 DEF MPlayMain_tempoDone, LInv, channels, tracks, infos, program
<1>32. CASE MPlayMain_noTrack
  BY <1>32 DEF MPlayMain_noTrack, NextInTick, Done, WorkOn, LInv, channels, tracks, infos,
     program
<1>33. CASE MPlayMain_track
  <2>1. ht \in Tracks /\ ~Walking(ht)
    BY <1>33, <1>a DEF MPlayMain_track, Walking, IInv, MainInv, OnTrack, Bodies,
       Holding, Stopping
  <2>2. chan[ht] # 0 => track[chan[ht]] = ht
    BY <2>1, OnList
  <2>. QED
    BY <1>33, <2>2 DEF MPlayMain_track, channels, tracks, infos, program, handler
<1>34. CASE MPlayMain_walk
  <2>1. ht \in Tracks /\ ~Walking(ht)
    BY <1>34, <1>a DEF MPlayMain_walk, Walking, IInv, MainInv, OnTrack, Bodies, Holding,
       Stopping
  <2>2. Lists(track, chan, np, pp)
    <3>1. \A t \in Tracks : ~Walking(t)
      BY <1>34, <1>a DEF MPlayMain_walk, Walking, OnTrack, Bodies, Holding, Stopping
    <3>. QED
      BY <3>1, NoWalk DEF LInv
  <2>3. /\ hc \in Channels /\ track[hc] = ht /\ hc' = np[hc] /\ ht' = ht /\ hpc' = hpc
        /\ hpc # "finewalk" /\ (UNCHANGED track \/ ClearChain(hc))
    BY <1>34, <1>a DEF MPlayMain_walk, LInv, WalkInv, TypeOK
  <2>4. np[hc] # 0 => np[hc] \in Channels /\ track[np[hc]] = ht /\ np[hc] # hc
    BY <2>1, <2>3, OnList
  <2>5. np[hc] # 0 => track'[np[hc]] = ht
    <3>1. CASE ClearChain(hc)
      BY <1>a, <2>2, <2>3, <2>4, <3>1, ClearedLists DEF ClearChain
    <3>. QED
      BY <2>3, <2>4, <3>1
  <2>. QED
    BY <2>3, <2>5
<1>35. CASE MPlayMain_ready
  BY <1>35 DEF MPlayMain_ready, LInv, channels, tracks, infos, program
<1>36. CASE \E d \in TrackPrios, k \in 0 .. NumCgb : ply_note(d, k)
  BY <1>36 DEF ply_note, LInv, channels, tracks, infos, program, handler
<1>37. CASE \E c \in Channels : ply_endtie(c)
  BY <1>37 DEF ply_endtie, LInv, tracks, infos, program, handler
<1>38. CASE ply_fine
  BY <1>38 DEF ply_fine, LInv, channels, tracks, infos, program
<1>39. CASE ply_fine_walk
  <2>1. ht \in Tracks /\ ~Walking(ht)
    BY <1>39, <1>a DEF ply_fine_walk, Walking, IInv, MainInv, OnTrack, Bodies, Holding, Stopping
  <2>2. Lists(track, chan, np, pp)
    <3>1. \A t \in Tracks : ~Walking(t)
      BY <1>39, <1>a DEF ply_fine_walk, Walking, OnTrack, Bodies, Holding, Stopping
    <3>. QED
      BY <3>1, NoWalk DEF LInv
  <2>3. /\ hc \in Channels /\ hc = chan[ht] /\ hc' = np[hc] /\ ht' = ht /\ hpc' = "finewalk"
        /\ hc # 0 /\ ClearChain(hc)
    BY <1>39, <1>a DEF ply_fine_walk, LInv, WalkInv, TypeOK
  <2>4. track[hc] = ht /\ track[hc] # 0
    BY <2>1, <2>3, OnList, Numbers
  <2>5. chan'[ht] = np[hc]
    BY <1>a, <2>2, <2>3, <2>4, ClearedLists DEF ClearChain
  <2>. QED
    BY <2>3, <2>5
<1>40. CASE ply_fine_end
  BY <1>40 DEF ply_fine_end, NextInTick, Done, WorkOn, LInv, channels, infos, program
<1>41. CASE MPlayMain_wait
  BY <1>41 DEF MPlayMain_wait, NextInTick, Done, WorkOn, LInv, channels, tracks, infos,
     program
<1>42. CASE MPlayMain_vol
  <2>1. ht \in Tracks /\ ~Walking(ht)
    BY <1>42, <1>a DEF MPlayMain_vol, Walking, IInv, MainInv, OnTrack, Bodies, Holding, Stopping
  <2>2. chan[ht] # 0 => track[chan[ht]] = ht
    BY <2>1, OnList
  <2>. QED
    BY <1>42, <2>2 DEF MPlayMain_vol, channels, tracks, infos, program, handler
<1>43. CASE MPlayMain_volNext
  BY <1>43 DEF MPlayMain_volNext, NextInVol, Done, WorkOn, LInv, channels, tracks, program
<1>44. CASE SoundMainRAM
  BY <1>44 DEF SoundMainRAM, LInv, tracks, infos, program
<1>45. CASE UNCHANGED vars
  BY <1>45 DEF LInv, WalkInv, vars, channels, tracks, infos, program, handler
<1>. QED
  BY <1>1, <1>2, <1>3, <1>4, <1>5, <1>6, <1>7, <1>8, <1>9, <1>10, <1>11, <1>12, <1>13,
     <1>14, <1>15, <1>16, <1>17, <1>18, <1>19, <1>20, <1>21, <1>22, <1>23, <1>24, <1>25,
     <1>26, <1>27, <1>28, <1>29, <1>30, <1>31, <1>32, <1>33, <1>34, <1>35, <1>36, <1>37,
     <1>38, <1>39, <1>40, <1>41, <1>42, <1>43, <1>44, <1>45 DEF Next, Program, Interrupt

\* The end of a fade leaves no lists behind.
LEMMA FadeWalk ==
  ASSUME LastOnly, LInv, [Next]_vars
  PROVE  (hpc \in {"fade", "fadewalk"} =>
            \A t \in Tracks : Owner[t] = hp /\ t < ht => chan[t] = 0)'
<1>a. TypeOK /\ IInv /\ (hpc \in Bodies => pc \notin Holding)
  BY KeptOut DEF LInv, PInv, IInv
<1>1. CASE \E p \in Players : MPlayStart(p)
  BY <1>1 DEF MPlayStart, Call, Running, LInv, channels, tracks, infos, handler
<1>2. CASE \E p \in Players : \E f \in {"stop", "continue", "control"} : Simple(f, p)
  BY <1>2 DEF Simple, Call, Running, LInv, channels, tracks, infos, handler
<1>3. CASE \E p \in Players : \E f \in {"fadeout", "fadetemp", "fadein"} : FadeCall(f, p)
  BY <1>3 DEF FadeCall, Call, Running, LInv, channels, tracks, infos, handler
<1>4. CASE \E p \in Players : m4aMPlayImmInit(p)
  BY <1>4 DEF m4aMPlayImmInit, Call, Running, LInv, channels, tracks, infos, handler
<1>5. CASE MPlayStart_look
  BY <1>5 DEF MPlayStart_look, Goto, Return, Running, LInv, channels, tracks, infos,
     handler
<1>6. CASE MPlayStart_look2
  BY <1>6 DEF MPlayStart_look2, Goto, Return, Running, LInv, channels, tracks, infos,
     handler
<1>7. CASE MPlayStart_lock
  BY <1>7 DEF MPlayStart_lock, Locked, Running, LInv, channels, tracks, handler
<1>8. CASE m4aMPlayStop_lock
  BY <1>8 DEF m4aMPlayStop_lock, Locked, Running, LInv, channels, tracks, handler
<1>9. CASE MPlayContinue
  BY <1>9 DEF MPlayContinue, Locked, Goto, Running, LInv, channels, tracks, handler
<1>10. CASE m4aMPlayControl
  BY <1>10 DEF m4aMPlayControl, Locked, Goto, Running, LInv, channels, tracks, handler
<1>11. CASE MPlayFadeOut
  BY <1>11 DEF MPlayFadeOut, FadeStart, Locked, Goto, Running, LInv, channels, tracks,
     handler
<1>12. CASE m4aMPlayFadeOutTemporarily
  BY <1>12 DEF m4aMPlayFadeOutTemporarily, FadeStart, Locked, Goto, Running, LInv,
     channels, tracks, handler
<1>13. CASE m4aMPlayFadeIn
  BY <1>13 DEF m4aMPlayFadeIn, FadeStart, Locked, Goto, Running, LInv, channels, tracks,
     handler
<1>14. CASE TrackStop
  BY <1>14 DEF TrackStop, Running, LInv, channels, tracks, infos, handler
<1>15. CASE TrackStop_silence
  BY <1>15 DEF TrackStop_silence, Goto, Running, LInv, tracks, infos, handler
<1>16. CASE TrackStop_disown
  BY <1>16 DEF TrackStop_disown, Goto, Running, LInv, tracks, infos, handler
<1>17. CASE TrackStop_follow
  BY <1>17 DEF TrackStop_follow, Running, LInv, channels, tracks, infos, handler
<1>18. CASE TrackStop_forget
  BY <1>18 DEF TrackStop_forget, Goto, Running, LInv, channels, infos, handler
<1>19. CASE AfterStop
  BY <1>19 DEF AfterStop, Running, LInv, channels, tracks, infos, handler
<1>20. CASE Unlock
  BY <1>20 DEF Unlock, Return, Running, LInv, channels, tracks, handler
<1>21. CASE m4aMPlayImmInit_test
  BY <1>21 DEF m4aMPlayImmInit_test, ImmNext, Goto, Return, Running, LInv, channels,
     tracks, infos, handler
<1>22. CASE m4aMPlayImmInit_clear
  BY <1>22 DEF m4aMPlayImmInit_clear, ImmNext, Goto, Return, Running, LInv, channels,
     infos, handler
<1>23. CASE SoundMain
  BY <1>23 DEF SoundMain, Running, LInv, channels, tracks, infos, program
<1>24. CASE MPlayMain
  BY <1>24 DEF MPlayMain, WorkOn, LInv, channels, tracks, program
<1>25. CASE MPlayMain_paused
  BY <1>25 DEF MPlayMain_paused, Done, WorkOn, LInv, channels, tracks, program
<1>26. CASE FadeOutBody
  <2>1. hp \in Players /\ hp' = hp
    BY <1>26, <1>a DEF FadeOutBody, IInv, MainInv, Bodies
  <2>2. hpc' \in {"fade", "fadewalk"} => ht' = FirstTrack(hp)
    BY <1>26 DEF FadeOutBody
  <2>3. \A t \in Tracks : Owner[t] = hp => ~(t < FirstTrack(hp))
    BY <2>1, FirstTracks, Numbers
  <2>. QED
    BY <2>1, <2>2, <2>3
<1>27. CASE FadeOutBody_stop
  BY <1>27 DEF FadeOutBody_stop, LInv, WalkInv, channels, tracks, infos, program
<1>28. CASE FadeOutBody_walk
  BY <1>28 DEF FadeOutBody_walk, LInv, WalkInv, tracks, infos, program
<1>29. CASE FadeOutBody_next
  <2>1. PInv
    BY DEF LInv
  <2>2. /\ hp \in Players /\ ht \in Tracks /\ Owner[ht] = hp /\ hpc \in {"fade", "fadewalk"}
        /\ UNCHANGED program
        /\ \/ NextTrack(ht) # 0 /\ hpc' = "fade" /\ ht' = NextTrack(ht) /\ UNCHANGED <<pause, hp>>
           \/ /\ NextTrack(ht) = 0 /\ hpc' \in {"body", "mix"}
              /\ pause' = [pause EXCEPT ![hp] = 1]
    BY <1>29, <2>1, FadeNext
  <2>3. \A t \in Tracks : chan[t] = 0 => chan'[t] = 0
    BY <1>29, <1>a DEF FadeOutBody_next, TypeOK, tracks
  <2>4. chan'[ht] = 0
    BY <1>29, <1>a, <2>2 DEF FadeOutBody_next, TypeOK, LInv, WalkInv, tracks
  <2>5. \A t \in Tracks : Owner[t] = hp /\ t <= ht => chan'[t] = 0
    BY <2>2, <2>3, <2>4, Numbers DEF LInv, WalkInv
  <2>6. NextTrack(ht) # 0 => \A t \in Tracks : t < NextTrack(ht) => t <= ht
    BY <2>2, NextTracks, Numbers
  <2>. QED
    BY <2>2, <2>5, <2>6
<1>30. CASE MPlayMain_tick
  BY <1>30 DEF MPlayMain_tick, LInv, channels, tracks, infos, program
<1>31. CASE MPlayMain_tempoDone
  BY <1>31 DEF MPlayMain_tempoDone, LInv, channels, tracks, infos, program
<1>32. CASE MPlayMain_noTrack
  BY <1>32 DEF MPlayMain_noTrack, NextInTick, Done, WorkOn, LInv, channels, tracks, infos,
     program
<1>33. CASE MPlayMain_track
  BY <1>33 DEF MPlayMain_track, LInv, channels, tracks, infos, program
<1>34. CASE MPlayMain_walk
  BY <1>34 DEF MPlayMain_walk, LInv, infos, program
<1>35. CASE MPlayMain_ready
  BY <1>35 DEF MPlayMain_ready, LInv, channels, tracks, infos, program
<1>36. CASE \E d \in TrackPrios, k \in 0 .. NumCgb : ply_note(d, k)
  BY <1>36 DEF ply_note, LInv, channels, tracks, infos, program, handler
<1>37. CASE \E c \in Channels : ply_endtie(c)
  BY <1>37 DEF ply_endtie, LInv, tracks, infos, program, handler
<1>38. CASE ply_fine
  BY <1>38 DEF ply_fine, LInv, channels, tracks, infos, program
<1>39. CASE ply_fine_walk
  BY <1>39 DEF ply_fine_walk, LInv, infos, program
<1>40. CASE ply_fine_end
  BY <1>40 DEF ply_fine_end, NextInTick, Done, WorkOn, LInv, channels, infos, program
<1>41. CASE MPlayMain_wait
  BY <1>41 DEF MPlayMain_wait, NextInTick, Done, WorkOn, LInv, channels, tracks, infos,
     program
<1>42. CASE MPlayMain_vol
  BY <1>42 DEF MPlayMain_vol, LInv, channels, tracks, infos, program
<1>43. CASE MPlayMain_volNext
  BY <1>43 DEF MPlayMain_volNext, NextInVol, Done, WorkOn, LInv, channels, tracks, program
<1>44. CASE SoundMainRAM
  BY <1>44 DEF SoundMainRAM, LInv, tracks, infos, program
<1>45. CASE UNCHANGED vars
  BY <1>45 DEF LInv, WalkInv, vars, channels, tracks, infos, program, handler
<1>. QED
  BY <1>1, <1>2, <1>3, <1>4, <1>5, <1>6, <1>7, <1>8, <1>9, <1>10, <1>11, <1>12, <1>13,
     <1>14, <1>15, <1>16, <1>17, <1>18, <1>19, <1>20, <1>21, <1>22, <1>23, <1>24, <1>25,
     <1>26, <1>27, <1>28, <1>29, <1>30, <1>31, <1>32, <1>33, <1>34, <1>35, <1>36, <1>37,
     <1>38, <1>39, <1>40, <1>41, <1>42, <1>43, <1>44, <1>45 DEF Next, Program, Interrupt

\* A paused player has no lists, but for those m4aMPlayStop has yet to end.
LEMMA PauseStep ==
  ASSUME LastOnly, LInv, [Next]_vars
  PROVE  PauseInv'
<1>a. TypeOK /\ IInv /\ (hpc \in Bodies => pc \notin Holding)
  BY KeptOut DEF LInv, PInv, IInv
<1>1. CASE \E p \in Players : MPlayStart(p)
  BY <1>1 DEF MPlayStart, Call, Running, LInv, PInv, IInv, Stopping, Holding, PauseInv,
     channels, tracks, infos, handler
<1>2. CASE \E p \in Players : \E f \in {"stop", "continue", "control"} : Simple(f, p)
  BY <1>2 DEF Simple, Call, Running, LInv, PInv, IInv, Stopping, Holding, PauseInv,
     channels, tracks, infos, handler
<1>3. CASE \E p \in Players : \E f \in {"fadeout", "fadetemp", "fadein"} : FadeCall(f, p)
  BY <1>3 DEF FadeCall, Call, Running, LInv, PInv, IInv, Stopping, Holding, PauseInv,
     channels, tracks, infos, handler
<1>4. CASE \E p \in Players : m4aMPlayImmInit(p)
  BY <1>4 DEF m4aMPlayImmInit, Call, Running, LInv, PInv, IInv, Stopping, Holding,
     PauseInv, channels, tracks, infos, handler
<1>5. CASE MPlayStart_look
  BY <1>5 DEF MPlayStart_look, Goto, Return, Running, LInv, PInv, IInv, Stopping, Holding,
     PauseInv, channels, tracks, infos, handler
<1>6. CASE MPlayStart_look2
  BY <1>6 DEF MPlayStart_look2, Goto, Return, Running, LInv, PInv, IInv, Stopping,
     Holding, PauseInv, channels, tracks, infos, handler
<1>7. CASE MPlayStart_lock
  BY <1>7 DEF MPlayStart_lock, Locked, Running, LInv, PauseInv, channels, tracks, handler
<1>8. CASE m4aMPlayStop_lock
  <2>1. /\ cp \in Players /\ pc' = "stop" /\ call' = "stop" /\ cp' = cp /\ ct' = FirstTrack(cp)
        /\ chan' = chan /\ pause' = [pause EXCEPT ![cp] = 1] /\ pc \notin Stopping
    BY <1>8, <1>a DEF m4aMPlayStop_lock, Locked, IInv, CallInv, Stopping, tracks
  <2>2. \A t \in Tracks : Owner[t] = cp => t >= FirstTrack(cp)
    BY <2>1, FirstTracks, Numbers
  <2>3. \A p \in Players : p # cp => pause'[p] = pause[p]
    BY <1>a, <2>1 DEF TypeOK
  <2>. QED
    BY <2>1, <2>2, <2>3 DEF LInv, PauseInv, Stopping
<1>9. CASE MPlayContinue
  BY <1>9 DEF MPlayContinue, Locked, Goto, Running, LInv, PauseInv, channels, tracks,
     handler
<1>10. CASE m4aMPlayControl
  BY <1>10 DEF m4aMPlayControl, Locked, Goto, Running, LInv, PauseInv, channels, tracks,
     handler
<1>11. CASE MPlayFadeOut
  BY <1>11 DEF MPlayFadeOut, FadeStart, Locked, Goto, Running, LInv, PauseInv, channels,
     tracks, handler
<1>12. CASE m4aMPlayFadeOutTemporarily
  BY <1>12 DEF m4aMPlayFadeOutTemporarily, FadeStart, Locked, Goto, Running, LInv,
     PauseInv, channels, tracks, handler
<1>13. CASE m4aMPlayFadeIn
  BY <1>13 DEF m4aMPlayFadeIn, FadeStart, Locked, Goto, Running, LInv, PauseInv, channels,
     tracks, handler
<1>14. CASE TrackStop
  BY <1>14 DEF TrackStop, Running, LInv, PInv, IInv, Stopping, Holding, PauseInv,
     channels, tracks, infos, handler
<1>15. CASE TrackStop_silence
  BY <1>15 DEF TrackStop_silence, Goto, Running, LInv, PInv, IInv, Stopping, Holding,
     PauseInv, tracks, infos, handler
<1>16. CASE TrackStop_disown
  BY <1>16 DEF TrackStop_disown, Goto, Running, LInv, PInv, IInv, Stopping, Holding,
     PauseInv, tracks, infos, handler
<1>17. CASE TrackStop_follow
  BY <1>17 DEF TrackStop_follow, Running, LInv, PInv, IInv, Stopping, Holding, PauseInv,
     channels, tracks, infos, handler
<1>18. CASE TrackStop_forget
  BY <1>18 DEF TrackStop_forget, Goto, Running, LInv, PInv, IInv, Stopping, Holding,
     PauseInv, channels, infos, handler
<1>19. CASE AfterStop
  <2>1. /\ ct \in Tracks /\ Owner[ct] = cp /\ chan[ct] = 0 /\ UNCHANGED <<pause, call, cp>>
        /\ NextTrack(ct) = 0 \/ (pc' = "stop" /\ ct' = NextTrack(ct))
    BY <1>19, <1>a DEF AfterStop, IInv, CallInv, LInv, WalkInv, Stopping, infos
  <2>2. \A t \in Tracks : chan[t] = 0 => chan'[t] = 0
    BY <1>19, <1>a DEF AfterStop, TypeOK, tracks
  <2>3. ASSUME NEW t \in Tracks, Owner[t] = cp, t >= ct PROVE t = ct \/ t >= NextTrack(ct)
    BY <2>1, <2>3, NextTracks, Numbers
  <2>4. ASSUME NEW t \in Tracks, Owner[t] = cp, t >= ct, NextTrack(ct) = 0 PROVE t = ct
    BY <2>1, <2>4, NextTracks, Numbers
  <2>. QED
    BY <2>1, <2>2, <2>3, <2>4 DEF LInv, PauseInv, Stopping
<1>20. CASE Unlock
  BY <1>20 DEF Unlock, Return, Running, LInv, PInv, IInv, Stopping, Holding, PauseInv,
     channels, tracks, handler
<1>21. CASE m4aMPlayImmInit_test
  BY <1>21 DEF m4aMPlayImmInit_test, ImmNext, Goto, Return, Running, LInv, PInv, IInv,
     Stopping, Holding, PauseInv, channels, tracks, infos, handler
<1>22. CASE m4aMPlayImmInit_clear
  BY <1>22 DEF m4aMPlayImmInit_clear, ImmNext, Goto, Return, Running, LInv, PInv, IInv,
     Stopping, Holding, PauseInv, channels, infos, handler
<1>23. CASE SoundMain
  BY <1>23 DEF SoundMain, Running, LInv, PauseInv, channels, tracks, infos, program
<1>24. CASE MPlayMain
  BY <1>24 DEF MPlayMain, LInv, PauseInv, channels, tracks, program
<1>25. CASE MPlayMain_paused
  BY <1>25 DEF MPlayMain_paused, LInv, PauseInv, channels, tracks, program
<1>26. CASE FadeOutBody
  BY <1>26 DEF FadeOutBody, LInv, PauseInv, channels, tracks, program
<1>27. CASE FadeOutBody_stop
  BY <1>27 DEF FadeOutBody_stop, LInv, PauseInv, channels, tracks, infos, program
<1>28. CASE FadeOutBody_walk
  BY <1>28 DEF FadeOutBody_walk, LInv, PauseInv, tracks, infos, program
<1>29. CASE FadeOutBody_next
  <2>1. PInv
    BY DEF LInv
  <2>2. /\ hp \in Players /\ ht \in Tracks /\ Owner[ht] = hp /\ hpc \in {"fade", "fadewalk"}
        /\ UNCHANGED program
        /\ \/ NextTrack(ht) # 0 /\ hpc' = "fade" /\ ht' = NextTrack(ht) /\ UNCHANGED <<pause, hp>>
           \/ /\ NextTrack(ht) = 0 /\ hpc' \in {"body", "mix"}
              /\ pause' = [pause EXCEPT ![hp] = 1]
    BY <1>29, <2>1, FadeNext
  <2>3. \A t \in Tracks : chan[t] = 0 => chan'[t] = 0
    BY <1>29, <1>a DEF FadeOutBody_next, TypeOK, tracks
  <2>4. chan'[ht] = 0
    BY <1>29, <1>a, <2>2 DEF FadeOutBody_next, TypeOK, LInv, WalkInv, tracks
  <2>5. \A t \in Tracks : Owner[t] = hp /\ t <= ht => chan'[t] = 0
    BY <2>2, <2>3, <2>4, Numbers DEF LInv, WalkInv
  <2>6. NextTrack(ht) = 0 => \A t \in Tracks : Owner[t] = hp => t <= ht
    BY <2>2, NextTracks
  <2>7. \A p \in Players : p # hp => pause'[p] = pause[p]
    BY <1>a, <2>2 DEF TypeOK
  <2>8. ASSUME NEW p \in Players, pause'[p] = 1, pause[p] # 1, NEW t \in Tracks, Owner[t] = p
        PROVE  chan'[t] = 0
    BY <2>2, <2>5, <2>6, <2>7, <2>8
  <2>. QED
    BY <2>2, <2>3, <2>8 DEF LInv, PauseInv, program
<1>30. CASE MPlayMain_tick
  BY <1>30 DEF MPlayMain_tick, LInv, PauseInv, channels, tracks, infos, program
<1>31. CASE MPlayMain_tempoDone
  BY <1>31 DEF MPlayMain_tempoDone, LInv, PauseInv, channels, tracks, infos, program
<1>32. CASE MPlayMain_noTrack
  <2>1. /\ hp \in Players /\ ht \in Tracks /\ Owner[ht] = hp /\ UNCHANGED <<chan, program>>
        /\ flags[ht] = "none"
        /\ \/ pause' = pause
           \/ NextTrack(ht) = 0 /\ alive = 0 /\ pause' = [pause EXCEPT ![hp] = 1]
    BY <1>32, <1>a DEF MPlayMain_noTrack, NextInTick, IInv, MainInv, OnTrack, Bodies,
       tracks, infos
  <2>2. alive = 0 => \A t \in Tracks : Owner[t] = hp /\ t <= ht => flags[t] = "none"
    BY <1>32, <1>a, <2>1, Numbers DEF MPlayMain_noTrack, LInv, PInv, FlagInv, IInv, MainInv
  <2>3. NextTrack(ht) = 0 => \A t \in Tracks : Owner[t] = hp => t <= ht
    BY <2>1, NextTracks
  <2>4. \A p \in Players : p # hp => pause'[p] = pause[p]
    BY <1>a, <2>1 DEF TypeOK
  <2>5. ASSUME NEW p \in Players, pause'[p] = 1, pause[p] # 1, NEW t \in Tracks, Owner[t] = p
        PROVE  chan[t] = 0
    BY <2>1, <2>2, <2>3, <2>4, <2>5 DEF LInv, WalkInv
  <2>. QED
    BY <2>1, <2>5 DEF LInv, PauseInv, program
<1>33. CASE MPlayMain_track
  BY <1>33 DEF MPlayMain_track, LInv, PauseInv, channels, tracks, infos, program
<1>34. CASE MPlayMain_walk
  <2>1. /\ UNCHANGED <<pause, program>> /\ ht \in Tracks /\ pause[Owner[ht]] = 0
    BY <1>34, <1>a DEF MPlayMain_walk, IInv, MainInv, OnTrack, Bodies, infos
  <2>2. \A t \in Tracks : chan[t] = 0 => chan'[t] = 0 \/ t = ht
    BY EmptyStays
  <2>. QED
    BY <2>1, <2>2 DEF LInv, PauseInv, program
<1>35. CASE MPlayMain_ready
  BY <1>35 DEF MPlayMain_ready, LInv, PInv, IInv, TypeOK, PauseInv, channels, tracks,
     infos, program
<1>36. CASE \E d \in TrackPrios, k \in 0 .. NumCgb : ply_note(d, k)
  <2>1. /\ UNCHANGED <<pause, program>> /\ ht \in Tracks /\ pause[Owner[ht]] = 0
    BY <1>36, <1>a DEF ply_note, IInv, MainInv, OnTrack, Bodies, infos
  <2>2. \A t \in Tracks : chan[t] = 0 => chan'[t] = 0 \/ t = ht
    BY EmptyStays
  <2>. QED
    BY <2>1, <2>2 DEF LInv, PauseInv, program
<1>37. CASE \E c \in Channels : ply_endtie(c)
  BY <1>37 DEF ply_endtie, LInv, PauseInv, tracks, infos, program, handler
<1>38. CASE ply_fine
  BY <1>38 DEF ply_fine, LInv, PauseInv, channels, tracks, infos, program
<1>39. CASE ply_fine_walk
  <2>1. /\ UNCHANGED <<pause, program>> /\ ht \in Tracks /\ pause[Owner[ht]] = 0
    BY <1>39, <1>a DEF ply_fine_walk, IInv, MainInv, OnTrack, Bodies, infos
  <2>2. \A t \in Tracks : chan[t] = 0 => chan'[t] = 0 \/ t = ht
    BY EmptyStays
  <2>. QED
    BY <2>1, <2>2 DEF LInv, PauseInv, program
<1>40. CASE ply_fine_end
  BY <1>40 DEF ply_fine_end, NextInTick, LInv, PInv, FlagInv, IInv, PauseInv, channels,
     infos, program
<1>41. CASE MPlayMain_wait
  BY <1>41 DEF MPlayMain_wait, NextInTick, LInv, PInv, FlagInv, IInv, PauseInv, channels,
     tracks, infos, program
<1>42. CASE MPlayMain_vol
  BY <1>42 DEF MPlayMain_vol, LInv, PauseInv, channels, tracks, infos, program
<1>43. CASE MPlayMain_volNext
  BY <1>43 DEF MPlayMain_volNext, NextInVol, LInv, PauseInv, channels, tracks, program
<1>44. CASE SoundMainRAM
  BY <1>44 DEF SoundMainRAM, LInv, PauseInv, tracks, infos, program
<1>45. CASE UNCHANGED vars
  BY <1>45 DEF LInv, PauseInv, vars, channels, tracks, infos, program, handler
<1>. QED
  BY <1>1, <1>2, <1>3, <1>4, <1>5, <1>6, <1>7, <1>8, <1>9, <1>10, <1>11, <1>12, <1>13,
     <1>14, <1>15, <1>16, <1>17, <1>18, <1>19, <1>20, <1>21, <1>22, <1>23, <1>24, <1>25,
     <1>26, <1>27, <1>28, <1>29, <1>30, <1>31, <1>32, <1>33, <1>34, <1>35, <1>36, <1>37,
     <1>38, <1>39, <1>40, <1>41, <1>42, <1>43, <1>44, <1>45 DEF Next, Program, Interrupt

-----------------------------------------------------------------------------
(***************************************************************************)
(* Lists and silence.                                                      *)
(***************************************************************************)

\* Every step keeps what is known of lists.
LEMMA StepLInv ==
  ASSUME LastOnly, LInv, [Next]_vars PROVE LInv'
<1>1. PInv'
  BY StepPInv DEF LInv
<1>2. WalkInv'
  BY FlagsStep, CallWalk, MainWalk, FadeWalk DEF WalkInv
<1>. QED
  BY <1>1, <1>2, ListStep, PauseStep DEF LInv

\* It holds initially: no track has a channel.
LEMMA InitLInv ==
  ASSUME Init PROVE LInv
<1>1. \A t \in Tracks : Of(t) = {} /\ ListHead(t) = 0 /\ chan[t] = 0
  BY Numbers DEF Init, Of, ListHead, Walking
<1>2. ListInv
  BY <1>1 DEF ListInv, List, Chain
<1>3. WalkInv /\ PauseInv
  BY <1>1 DEF Init, WalkInv, PauseInv
<1>. QED
  BY <1>2, <1>3, InitPInv DEF LInv

\* Between the steps of TrackStop the lists are what ListsAgree says of them.
LEMMA LInvLists ==
  ASSUME LInv PROVE ListsAgree
<1> SUFFICES ASSUME pc \notin {"silence", "disown", "follow", "forget"}, hpc # "fadewalk",
                    NEW t \in Tracks
             PROVE  /\ Listed(t) = Of(t)
                    /\ \A c \in Of(t) : /\ pp[c] = 0 <=> chan[t] = c
                                        /\ pp[c] # 0 => np[pp[c]] = c
                                        /\ np[c] # 0 => pp[np[c]] = c
                    /\ flags[t] # "exist" => chan[t] = 0
  BY DEF ListsAgree, Of
<1>1. ~Walking(t) /\ List(t) /\ TypeOK
  BY DEF Walking, LInv, ListInv, PInv, IInv
<1>2. Listed(t) = Of(t)
  BY <1>1, ListedIsOf
<1>3. Chain(chan[t], Of(t), np, pp) /\ (chan[t] # 0 => pp[chan[t]] = 0)
  BY <1>1 DEF List, ListHead
<1>4. 0 \notin Of(t)
  BY Numbers DEF Of
<1>5. ASSUME NEW c \in Of(t)
      PROVE  /\ pp[c] = 0 <=> chan[t] = c
             /\ pp[c] # 0 => np[pp[c]] = c
             /\ np[c] # 0 => pp[np[c]] = c
  BY <1>3, <1>4 DEF Chain
<1>. QED
  BY <1>2, <1>5 DEF LInv, WalkInv

\* The lists of a paused player that nobody holds are empty, and so it is silent.
LEMMA LInvSilent ==
  ASSUME LInv PROVE PausedIsSilent
<1> SUFFICES ASSUME NEW p \in Players, pause[p] = 1, lock[p] = 0,
                    NEW t \in Tracks, Owner[t] = p
             PROVE  Of(t) = {}
  BY DEF PausedIsSilent, Of
<1>1. ~CallHolds(p) /\ ~MainHolds(p)
  BY DEF LInv, PInv, IInv, LockInv
<1>2. ~(pc \in Holding /\ cp = p) /\ ~(hpc \in Bodies /\ hp = p)
  BY <1>1, Numbers DEF CallHolds, MainHolds
<1>3. ~Walking(t)
  BY <1>2 DEF Walking, LInv, PInv, IInv, CallInv, MainInv, Holding, Stopping, Bodies, OnTrack
<1>4. chan[t] = 0
  BY <1>2 DEF LInv, PauseInv, Holding
<1>. QED
  BY <1>3, <1>4, NoHead DEF LInv, ListInv, ListHead

\* The inductive invariant holds in every state of a program that lets SoundMain
\* interrupt its calls on the last opened player only.
THEOREM ListInvariance == ASSUME LastOnly PROVE SafeSpec => []LInv
<1>1. LInv /\ [Next]_vars => LInv'
  BY StepLInv
<1>. QED
  BY <1>1, InitLInv, PTL DEF SafeSpec

\* Under the same condition the channel lists and the channels' pointers at their
\* tracks agree whenever no TrackStop is under way, whatever notes, stolen
\* channels, ends of tracks and calls of the program did to them.
THEOREM ListsConsistent == ASSUME LastOnly PROVE SafeSpec => []ListsAgree
  BY ListInvariance, LInvLists, PTL

\* And no track of a paused player holds a channel once the player is let go, so
\* that no note hangs after m4aMPlayStop, the end of a fade or of a song.
THEOREM PausedSilent == ASSUME LastOnly PROVE SafeSpec => []PausedIsSilent
  BY ListInvariance, LInvSilent, PTL
=============================================================================
