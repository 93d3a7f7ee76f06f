---------------------------- MODULE RfuNI_proofs ----------------------------
(***************************************************************************)
(* Proofs about the link layer: every safety property of module RfuNI, and *)
(* that it implements NITransfer, for every number of children and phases, *)
(* every sequence of block sizes, every buffer and any Cap.                *)
(*                                                                         *)
(* The difficulty is that a subframe carries two bits of number and no     *)
(* name of its block.  IInv therefore speaks of every frame under way: on  *)
(* a link that loses and repeats frames but keeps their order, those of a  *)
(* phase are the subframe the receiver waits for or the one before it      *)
(* (InTurn), the acknowledgements those of the subframe the sender is at   *)
(* or the one before it (SyncInv), and the states of a block pass by in    *)
(* order (Ordered, CtlInv, DatInv, EndInv).                                *)
(***************************************************************************)
EXTENDS RfuNI, FiniteSets, FiniteSetTheorems, TLAPS

\* A frame: kind, phase, number, piece.
Frame == (0..4) \X Phase \X (0..3) \X ((0..Len(Sizes)) \X Nat)

\* Subframe i is of phase p, and n is its number.
OfPhase(p, i) == \E m \in 0..i : i = p + W * m
Numbered(p, i, n) == \E m \in 0..i : i = p + W * m /\ n = (m + 1) % 4

\* What is where in a queue of frames, by kind.
Kinds(q, K) == \A k \in 1..Len(q) : q[k][1] \in K
Has(q, x) == \E k \in 1..Len(q) : q[k][1] = x
After(q, K, L) == \A k, l \in 1..Len(q) : k < l /\ q[k][1] \in K => q[l][1] \in L

\* Child c holds piece i of block t, or the whole block.
Holds(c, t, i) == i \in Place /\ rBuf[c][i] = <<t, i>>
HasAll(c, t) == \A i \in 0..Sizes[t] - 1 : Holds(c, t, i)

\* The link carries frames.
LinkType == down \in [Child -> Seq(Frame)] /\ up \in [Child -> Seq(Frame)]

-----------------------------------------------------------------------------
(* A child and the frames on their way to it.                              *)

\* Frames do not overtake each other: on the way to a child the data of a block
\* follows its control block, and the end its data; a next block is begun only
\* when the link is quiet.
Ordered(c) == After(down[c], {1}, {0, 1, 2, 4}) /\ After(down[c], {2}, {0, 2, 3, 4})

\* All control and data subframes under way are of one block.
OneBlock(c) ==
  /\ \A k \in 1..Len(down[c]) : down[c][k][1] \in {1, 2} => down[c][k][4][1] \in 1..tr
  /\ \A k, l \in 1..Len(down[c]) :
       down[c][k][1] \in {1, 2} /\ down[c][l][1] \in {1, 2} => down[c][k][4][1] = down[c][l][4][1]

\* A data subframe has the number that its place gives it; before the child has
\* begun with the data, every one is the first of its phase.
DataFrames(c) ==
  \A k \in 1..Len(down[c]) : down[c][k][1] = 2 =>
    /\ Numbered(down[c][k][2], down[c][k][4][2], down[c][k][3])
    /\ down[c][k][4][2] < Sizes[down[c][k][4][1]]
    /\ rState[c] = "ctl" \/ Has(down[c], 1) => down[c][k][4][2] = down[c][k][2]

QueueInv(c) == Ordered(c) /\ OneBlock(c) /\ DataFrames(c)

\* The child's slot and the block it belongs to.
SlotInv(c) ==
  /\ rInfo[c] \in 0..tr
  /\ rState[c] = "none" => rInfo[c] = 0
  /\ rState[c] = "ctl" => rInfo[c] # 0 \/ rRemain[c] = CtlLen
  /\ rState[c] = "ctl" => Kinds(down[c], {0, 1, 2, 4})
  /\ rState[c] = "data" => Kinds(down[c], {0, 2, 3, 4})
  /\ rState[c] \in {"ctl", "data"} /\ rInfo[c] # 0 =>
       \A k \in 1..Len(down[c]) : down[c][k][1] \in {1, 2} => down[c][k][4][1] = rInfo[c]
  /\ rState[c] \in {"data", "end"} => rInfo[c] # 0
  /\ rState[c] = "end" => HasAll(c, rInfo[c])

\* The slot has taken, in each phase, the subframes before rPos, and expects the
\* number of the one at rPos.
Stored(c) ==
  \A p \in Phase :
    /\ Numbered(p, rPos[c][p], Bump(rN[c][p]))
    /\ \A i \in 0..rPos[c][p] : OfPhase(p, i) /\ i < rPos[c][p] =>
         i < Sizes[rInfo[c]] /\ Holds(c, rInfo[c], i)

\* A data subframe under way is the one its phase waits for, or the one before;
\* an old one never follows a new one.
InTurn(c) ==
  /\ \A k \in 1..Len(down[c]) : down[c][k][1] = 2 =>
       \/ down[c][k][4][2] = rPos[c][down[c][k][2]]
       \/ down[c][k][4][2] + W = rPos[c][down[c][k][2]]
  /\ \A k, l \in 1..Len(down[c]) :
       /\ k < l /\ down[c][k][1] = 2 /\ down[c][l][1] = 2 /\ down[c][k][2] = down[c][l][2]
       /\ down[c][k][4][2] = rPos[c][down[c][k][2]]
       => down[c][l][4][2] = rPos[c][down[c][k][2]]

\* A slot that receives data; when the end is under way, it has everything.
DataInv(c) ==
  rState[c] = "data" =>
    Fits(c) /\ Stored(c) /\ InTurn(c) /\ (Has(down[c], 3) => HasAll(c, rInfo[c]))

ChildOf(c) == QueueInv(c) /\ SlotInv(c) /\ DataInv(c)

ChildInv == \A c \in Child : ChildOf(c)

-----------------------------------------------------------------------------
(* The parent and its targets.                                             *)

\* The parent sends the control block: a target is about to hear it, or hears it.
CtlInv(c) ==
  /\ rState[c] # "data"
  /\ rState[c] = "ctl" => rPhase[c] = 0 /\ rInfo[c] \in {0, tr} /\ Kinds(down[c], {1})
  /\ rState[c] = "end" => rInfo[c] < tr
  /\ Kinds(down[c], {0, 1, 3, 4}) /\ After(down[c], {1}, {1})
  /\ \A k \in 1..Len(down[c]) : down[c][k][1] = 1 => down[c][k][2] = 0 /\ down[c][k][4][1] = tr
  /\ \A k \in 1..Len(up[c]) : up[c][k][1] # 2 /\ (up[c][k][1] = 1 => up[c][k][2] = 0)

\* Target c has the subframe phase p is at; some target has begun to acknowledge.
Got(c, p) == sPos[p] < Sizes[tr] /\ Holds(c, tr, sPos[p])
Started(c) == \E p \in Phase : sPos[p] # p \/ c \in sAck[p]

\* The parent sends data: nothing of an earlier block is under way once a target
\* has begun with the data.
DatInv(c) ==
  /\ rState[c] = "ctl" => rInfo[c] \in {0, tr} /\ Kinds(down[c], {1, 2})
  /\ rState[c] = "data" => rInfo[c] = tr /\ Kinds(down[c], {2})
  /\ rState[c] = "end" => rInfo[c] < tr
  /\ After(down[c], {1}, {1, 2}) /\ After(down[c], {2}, {2})
  /\ \A k \in 1..Len(down[c]) : down[c][k][1] \in {1, 2} => down[c][k][4][1] = tr
  /\ \A k \in 1..Len(down[c]) : down[c][k][1] = 2 => down[c][k][4][2] <= sPos[down[c][k][2]]
  /\ After(up[c], {2}, {2})
  /\ Started(c) => Kinds(up[c], {2})
  /\ Started(c) \/ Has(up[c], 2) => Kinds(down[c], {2}) /\ rState[c] \notin {"ctl", "end"}

\* The phase p of the parent and of target c: the target is at the same subframe
\* or one ahead, and an acknowledgement under way with the current number is
\* one of the current subframe, not of the one four numbers before.
SyncInv(c, p) ==
  /\ \A i \in 0..Sizes[tr] - 1 : OfPhase(p, i) /\ i < sPos[p] => Holds(c, tr, i)
  /\ c \in sAck[p] => Got(c, p)
  /\ rState[c] = "data" => \/ rPos[c][p] = sPos[p] /\ c \notin sAck[p]
                           \/ rPos[c][p] = sPos[p] + W
  /\ \A k \in 1..Len(up[c]) : up[c][k][1] = 2 /\ up[c][k][2] = p =>
       \/ /\ up[c][k][3] = sN[p] /\ Got(c, p)
          /\ rState[c] = "data" => rPos[c][p] = sPos[p] + W
       \/ Bump(up[c][k][3]) = sN[p] /\ c \notin sAck[p]
  /\ \A k, l \in 1..Len(up[c]) :
       /\ k < l /\ up[c][k][1] = 2 /\ up[c][l][1] = 2 /\ up[c][k][2] = p /\ up[c][l][2] = p
       /\ up[c][k][3] = sN[p]
       => up[c][l][3] = sN[p]

\* The parent sends the end: the target has everything, and once it has
\* acknowledged the end it is past the data.
EndInv(c) ==
  /\ HasAll(c, tr)
  /\ rState[c] # "ctl"
  /\ rState[c] = "data" => rInfo[c] = tr
  /\ rState[c] = "end" => Kinds(down[c], {3})
  /\ Kinds(down[c], {2, 3}) /\ After(down[c], {3}, {3})
  /\ Kinds(up[c], {2, 3}) /\ After(up[c], {3}, {3})
  /\ Has(up[c], 3) => Kinds(down[c], {3}) /\ rState[c] # "data"
  /\ \A p \in Phase : c \in sAck[p] =>
       Kinds(down[c], {3}) /\ Kinds(up[c], {3}) /\ rState[c] # "data"

\* The subframes that some target has still to acknowledge.
Todo == {i \in 0..Sizes[tr] - 1 : \E p \in Phase : OfPhase(p, i) /\ sPos[p] <= i}

\* The parent's slot.
SendInv ==
  /\ sState \in {"none", "failed"} => sTarget = {}
  /\ sState \in {"ctl", "data", "end", "acked", "ok"} => tr > 0
  /\ sState = "ctl" => sPhase = 0 /\ \A p \in Phase \ {0} : sAck[p] = {}
  /\ sState = "data" =>
       /\ \A p \in Phase : Numbered(p, sPos[p], sN[p])
       /\ sRemain > 0 /\ Cardinality(Todo) = sRemain

\* What holds of a target, by the state of the parent.
TargetInv(c) ==
  /\ sState = "ctl" => CtlInv(c)
  /\ sState = "data" => DatInv(c) /\ \A p \in Phase : SyncInv(c, p)
  /\ sState = "end" => EndInv(c)
  /\ sState \in {"acked", "ok"} => Quiet(c)

\* The inductive invariant.
IInv == TypeOK /\ LinkType /\ SendInv /\ ChildInv /\ \A c \in sTarget : TargetInv(c)

-----------------------------------------------------------------------------
(* Arithmetic of phases and numbers.                                       *)

\* Products with W are monotone.
LEMMA Times ==
  ASSUME NEW m \in Nat, NEW k \in Nat
  PROVE  /\ m < k => W * m + W <= W * k
         /\ W * (m + 1) = W * m + W
         /\ W * m \in Nat /\ W * m >= m
  BY NIAssumption

\* Four numbers in turn: the next one differs, and tells its predecessor.
LEMMA BumpFacts ==
  ASSUME NEW n \in 0..3
  PROVE  /\ Bump(n) \in 0..3 /\ Bump(n) # n
         /\ \A m \in 0..3 : Bump(n) = Bump(m) => n = m
         /\ Bump(0) = 1
  BY DEF Bump

\* The subframes of a phase: no two phases share one, and none lies between
\* two that follow each other.
LEMMA PhaseFacts ==
  ASSUME NEW p \in Phase, NEW i \in Nat, OfPhase(p, i)
  PROVE  /\ i >= p
         /\ \A q \in Phase : OfPhase(q, i) => q = p
         /\ \A j \in Nat : OfPhase(p, j) /\ i < j => i + W <= j
  <1>1. PICK m \in 0..i : i = p + W * m
    BY DEF OfPhase
  <1>2. i >= p
    BY <1>1, Times, NIAssumption DEF Phase
  <1>3. ASSUME NEW q \in Phase, OfPhase(q, i) PROVE q = p
    <2>1. PICK k \in 0..i : i = q + W * k
      BY <1>3 DEF OfPhase
    <2>2. m \in Nat /\ k \in Nat /\ W * m \in Nat /\ W * k \in Nat
      BY Times
    <2>3. CASE m < k
      <3>1. W * m + W <= W * k
        BY <2>2, <2>3, Times
      <3> QED BY <3>1, <1>1, <2>1, <2>2, NIAssumption DEF Phase
    <2>4. CASE k < m
      <3>1. W * k + W <= W * m
        BY <2>2, <2>4, Times
      <3> QED BY <3>1, <1>1, <2>1, <2>2, NIAssumption DEF Phase
    <2>5. CASE m = k
      BY <2>5, <1>1, <2>1, <2>2, NIAssumption DEF Phase
    <2> QED BY <2>2, <2>3, <2>4, <2>5
  <1>4. ASSUME NEW j \in Nat, OfPhase(p, j), i < j PROVE i + W <= j
    <2>1. PICK k \in 0..j : j = p + W * k
      BY <1>4 DEF OfPhase
    <2>2. m \in Nat /\ k \in Nat /\ W * m \in Nat /\ W * k \in Nat
      BY Times
    <2>3. CASE m < k
      <3>1. W * m + W <= W * k
        BY <2>2, <2>3, Times
      <3> QED BY <3>1, <1>1, <2>1, <2>2, NIAssumption DEF Phase
    <2>4. CASE k < m
      <3>1. W * k + W <= W * m
        BY <2>2, <2>4, Times
      <3> QED BY <3>1, <1>1, <1>4, <2>1, <2>2, NIAssumption DEF Phase
    <2>5. CASE m = k
      BY <2>5, <1>1, <1>4, <2>1, <2>2, NIAssumption DEF Phase
    <2> QED BY <2>2, <2>3, <2>4, <2>5
  <1> QED BY <1>2, <1>3, <1>4

\* The first subframe of a phase, which has number 1.
LEMMA PhaseStart ==
  ASSUME NEW p \in Phase
  PROVE  p \in Nat /\ OfPhase(p, p) /\ Numbered(p, p, 1)
  <1>1. p \in Nat /\ 0 \in 0..p /\ p = p + W * 0 /\ (0 + 1) % 4 = 1
    BY NIAssumption DEF Phase
  <1> QED BY <1>1 DEF OfPhase, Numbered

\* Every subframe belongs to a phase.
LEMMA SomePhase ==
  ASSUME NEW i \in Nat
  PROVE  \E p \in Phase : OfPhase(p, i)
  <1>1. i % W \in Phase /\ i \div W \in Nat /\ i = W * (i \div W) + (i % W)
    BY NIAssumption DEF Phase
  <1> DEFINE m == i \div W
             p == i % W
  <1>2. m \in Nat /\ p \in Phase /\ i = W * m + p
    BY <1>1
  <1> HIDE DEF m, p
  <1>3. W * m \in Nat /\ W * m >= m /\ p \in Nat
    BY <1>2, Times, NIAssumption DEF Phase
  <1>4. m \in 0..i /\ i = p + W * m
    BY <1>2, <1>3
  <1> QED BY <1>2, <1>4 DEF OfPhase

\* The number of a subframe is determined by its place, and goes on with it.
LEMMA NumberFacts ==
  ASSUME NEW p \in Phase, NEW i \in Nat, NEW n \in 0..3, Numbered(p, i, n)
  PROVE  /\ OfPhase(p, i) /\ OfPhase(p, i + W)
         /\ Numbered(p, i + W, Bump(n))
         /\ \A m \in 0..3 : Numbered(p, i, m) => m = n
  <1>1. PICK a \in 0..i : i = p + W * a /\ n = (a + 1) % 4
    BY DEF Numbered
  <1>2. a \in Nat /\ W * a \in Nat /\ W * (a + 1) = W * a + W /\ p \in Nat /\ W \in Nat \ {0}
    BY Times, NIAssumption DEF Phase
  <1>3. a + 1 \in 0..i + W /\ i + W = p + W * (a + 1) /\ Bump(n) = (a + 1 + 1) % 4
    <2>1. a + 1 \in 0..i + W
      BY <1>1, <1>2
    <2>2. i + W = p + W * (a + 1)
      BY <1>1, <1>2
    <2>3. Bump(n) = (a + 1 + 1) % 4
      BY <1>1, <1>2 DEF Bump
    <2> QED BY <2>1, <2>2, <2>3
  <1>4. OfPhase(p, i) /\ OfPhase(p, i + W)
    BY <1>1, <1>3 DEF OfPhase
  <1>5. Numbered(p, i + W, Bump(n))
    BY <1>3 DEF Numbered
  <1>6. ASSUME NEW m \in 0..3, Numbered(p, i, m) PROVE m = n
    <2>1. PICK b \in 0..i : i = p + W * b /\ m = (b + 1) % 4
      BY <1>6 DEF Numbered
    <2>2. b \in Nat /\ W * b \in Nat /\ W * a = W * b
      BY <1>1, <1>2, <2>1, Times
    <2>3. ~(a < b)
      BY <1>2, <2>2, Times, NIAssumption
    <2>4. ~(b < a)
      BY <1>2, <2>2, Times, NIAssumption
    <2> QED BY <2>1, <2>2, <2>3, <2>4, <1>1, <1>2
  <1> QED BY <1>4, <1>5, <1>6

-----------------------------------------------------------------------------
(* Queues.                                                                 *)

\* r is q without its first frame, or q; r is q with f behind it.
Shifted(q, r) == \E d \in {0, 1} :
  Len(r) = Len(q) - d /\ \A k \in 1..Len(r) : r[k] = q[k + d]
Grown(q, r, f) ==
  /\ Len(r) = Len(q) + 1 /\ r[Len(q) + 1] = f
  /\ \A k \in 1..Len(q) : r[k] = q[k]

\* A frame that is taken, or heard and yet to come again, shifts the queue.
LEMMA TakeShifts ==
  ASSUME NEW S, NEW q \in Seq(S), q # <<>>, NEW again \in BOOLEAN,
         NEW r, r = IF again THEN q ELSE Tail(q)
  PROVE  r \in Seq(S) /\ Shifted(q, r) /\ Len(q) \in Nat \ {0} /\ q[1] = Head(q) /\ q[1] \in S
  <1>1. Len(q) \in Nat \ {0} /\ q[1] = Head(q) /\ q[1] \in S
    OBVIOUS
  <1>2. CASE again
    <2>1. Len(r) = Len(q) - 0 /\ \A k \in 1..Len(r) : r[k] = q[k + 0]
      BY <1>1, <1>2
    <2> QED BY <1>1, <1>2, <2>1 DEF Shifted
  <1>3. CASE ~again
    <2>1. Len(r) = Len(q) - 1 /\ \A k \in 1..Len(r) : r[k] = q[k + 1]
      BY <1>1, <1>3
    <2>2. r \in Seq(S)
      BY <1>1, <1>3
    <2> QED BY <1>1, <2>1, <2>2 DEF Shifted
  <1> QED BY <1>2, <1>3

\* A frame that is sent is the last of the queue.
LEMMA AppendGrows ==
  ASSUME NEW S, NEW q \in Seq(S), NEW f \in S
  PROVE  Append(q, f) \in Seq(S) /\ Grown(q, Append(q, f), f)
  BY DEF Grown

\* What is said of all frames under way stays true when the first is taken.
LEMMA ShiftedFacts ==
  ASSUME NEW q \in Seq(Frame), NEW r \in Seq(Frame), Shifted(q, r)
  PROVE  /\ \A k \in 1..Len(r) : \E m \in 1..Len(q) : r[k] = q[m]
         /\ \A k, l \in 1..Len(r) : k < l =>
              \E m, n \in 1..Len(q) : m < n /\ r[k] = q[m] /\ r[l] = q[n]
         /\ \A K : Kinds(q, K) => Kinds(r, K)
         /\ \A K, L : After(q, K, L) => After(r, K, L)
         /\ \A x : Has(r, x) => Has(q, x)
  <1>1. PICK d \in {0, 1} : Len(r) = Len(q) - d /\ \A k \in 1..Len(r) : r[k] = q[k + d]
    BY DEF Shifted
  <1>2. Len(q) \in Nat /\ Len(r) \in Nat /\ \A k \in 1..Len(r) : k + d \in 1..Len(q)
    BY <1>1
  <1>3. \A k \in 1..Len(r) : \E m \in 1..Len(q) : r[k] = q[m]
    BY <1>1, <1>2
  <1>4. ASSUME NEW k \in 1..Len(r), NEW l \in 1..Len(r), k < l
        PROVE  \E m, n \in 1..Len(q) : m < n /\ r[k] = q[m] /\ r[l] = q[n]
    <2>1. k + d < l + d
      BY <1>4
    <2> QED BY <2>1, <1>1, <1>2
  <1>5. \A K : Kinds(q, K) => Kinds(r, K)
    BY <1>3 DEF Kinds
  <1>6. ASSUME NEW K, NEW L, After(q, K, L) PROVE After(r, K, L)
    BY <1>4, <1>6, SMTT(30) DEF After
  <1>7. \A x : Has(r, x) => Has(q, x)
    BY <1>3 DEF Has
  <1> QED BY <1>3, <1>4, <1>5, <1>6, <1>7

\* What has to hold of a new frame for what is said of all to stay true.
LEMMA GrownFacts ==
  ASSUME NEW q \in Seq(Frame), NEW r \in Seq(Frame), NEW f \in Frame, Grown(q, r, f)
  PROVE  /\ \A k \in 1..Len(r) : (k \in 1..Len(q) /\ r[k] = q[k]) \/ (k = Len(q) + 1 /\ r[k] = f)
         /\ \A K : Kinds(q, K) /\ f[1] \in K => Kinds(r, K)
         /\ \A K, L : After(q, K, L) /\ (f[1] \in L \/ \A x \in K : ~Has(q, x)) => After(r, K, L)
         /\ \A x : Has(r, x) <=> Has(q, x) \/ f[1] = x
  <1>1. Len(q) \in Nat /\ Len(r) = Len(q) + 1
    BY DEF Grown
  <1>2. \A k \in 1..Len(r) : (k \in 1..Len(q) /\ r[k] = q[k]) \/ (k = Len(q) + 1 /\ r[k] = f)
    BY <1>1 DEF Grown
  <1>3. \A k \in 1..Len(q) : k \in 1..Len(r) /\ r[k] = q[k]
    BY <1>1 DEF Grown
  <1>4. Len(q) + 1 \in 1..Len(r) /\ r[Len(q) + 1] = f
    BY <1>1 DEF Grown
  <1>5. \A K : Kinds(q, K) /\ f[1] \in K => Kinds(r, K)
    BY <1>2 DEF Kinds
  <1>6. ASSUME NEW K, NEW L, After(q, K, L), f[1] \in L \/ \A x \in K : ~Has(q, x)
        PROVE  After(r, K, L)
    <2> SUFFICES ASSUME NEW k \in 1..Len(r), NEW l \in 1..Len(r), k < l, r[k][1] \in K
                 PROVE  r[l][1] \in L
      BY DEF After
    <2>1. k \in 1..Len(q) /\ r[k] = q[k]
      BY <1>1, <1>2
    <2>2. CASE l \in 1..Len(q)
      BY <1>6, <2>1, <2>2, <1>3 DEF After
    <2>3. CASE l = Len(q) + 1
      BY <1>6, <2>1, <2>3, <1>4 DEF Has
    <2> QED BY <1>2, <2>2, <2>3
  <1>7. \A x : Has(r, x) <=> Has(q, x) \/ f[1] = x
    BY <1>2, <1>3, <1>4 DEF Has
  <1> QED BY <1>2, <1>5, <1>6, <1>7

-----------------------------------------------------------------------------
(* Steps that leave a child, or all but one child, alone.                  *)

\* A step changes nothing of child d and of the frames on their way to it.
ChildSame(d) ==
  /\ rState'[d] = rState[d] /\ rPhase'[d] = rPhase[d] /\ rN'[d] = rN[d] /\ rPos'[d] = rPos[d]
  /\ rRemain'[d] = rRemain[d] /\ rInfo'[d] = rInfo[d] /\ rBuf'[d] = rBuf[d]
  /\ down'[d] = down[d]

\* The invariant of a child that a step does not concern.
LEMMA ChildKept ==
  ASSUME IInv, NEW d \in Child, ChildSame(d), tr' \in Nat, tr' >= tr
  PROVE  ChildOf(d)'
  <1> USE DEF ChildSame
  <1>t. tr \in Nat /\ ChildOf(d) /\ rInfo[d] \in Nat
    BY NIAssumption DEF IInv, TypeOK, ChildInv
  <1>0. 1..tr \subseteq 1..tr' /\ 0..tr \subseteq 0..tr'
    BY <1>t
  <1>1. QueueInv(d)'
    BY <1>t, <1>0 DEF ChildOf, QueueInv, Ordered, OneBlock, DataFrames, After, Has
  <1>2. SlotInv(d)'
    BY <1>t, <1>0 DEF ChildOf, SlotInv, Kinds, HasAll, Holds
  <1>3. DataInv(d)'
    <2>1. Stored(d) => Stored(d)'
      BY DEF Stored, Holds
    <2>2. HasAll(d, rInfo[d]) => HasAll(d, rInfo[d])'
      BY DEF HasAll, Holds
    <2>3. (Fits(d) => Fits(d)') /\ (Has(down[d], 3)' => Has(down[d], 3))
      BY DEF Fits, Has
    <2>4. InTurn(d) => InTurn(d)'
      BY DEF InTurn
    <2> QED BY <1>t, <2>1, <2>2, <2>3, <2>4 DEF ChildOf, DataInv
  <1> QED BY <1>1, <1>2, <1>3 DEF ChildOf

\* The invariant of a target that a step does not concern.
LEMMA TargetKept ==
  ASSUME NEW d \in Child, TargetInv(d), ChildSame(d), up'[d] = up[d], UNCHANGED <<sender, tr>>
  PROVE  TargetInv(d)'
  <1> USE DEF ChildSame, sender
  <1>1. CtlInv(d) => CtlInv(d)'
    BY DEF CtlInv, Kinds, After
  <1>2. DatInv(d) => DatInv(d)'
    BY DEF DatInv, Kinds, After, Has, Started
  <1>3. ASSUME NEW p \in Phase, SyncInv(d, p) PROVE SyncInv(d, p)'
    <2>1. Got(d, p)' = Got(d, p) /\ \A i : Holds(d, tr, i)' = Holds(d, tr, i)
      BY DEF Got, Holds
    <2> QED BY <1>3, <2>1 DEF SyncInv
  <1>4. EndInv(d) => EndInv(d)'
    BY DEF EndInv, Kinds, After, Has, HasAll, Holds
  <1>5. Quiet(d) => Quiet(d)'
    BY DEF Quiet
  <1> QED BY <1>1, <1>2, <1>3, <1>4, <1>5 DEF TargetInv

\* The parent's slot, in a step that does not concern it.
LEMMA SendKept == ASSUME SendInv, UNCHANGED <<sender, tr>> PROVE SendInv'
  BY DEF SendInv, Todo, sender

\* A step of child c and its link keeps the invariant if it keeps that of c.
LEMMA ChildStep ==
  ASSUME IInv, NEW c \in Child, UNCHANGED <<sender, tr>>, TypeOK', LinkType',
         \A d \in Child \ {c} : ChildSame(d) /\ up'[d] = up[d],
         ChildOf(c)', c \in sTarget => TargetInv(c)'
  PROVE  IInv'
  <1>1. ChildInv'
    <2>0. tr' \in Nat /\ tr' >= tr
      BY NIAssumption DEF IInv, TypeOK
    <2>1. \A d \in Child \ {c} : ChildOf(d)'
      BY <2>0, ChildKept
    <2> QED BY <2>1 DEF ChildInv
  <1>2. SendInv'
    BY SendKept DEF IInv
  <1>3. \A d \in sTarget' : TargetInv(d)'
    <2>1. sTarget' = sTarget /\ sTarget \subseteq Child
      BY DEF sender, IInv, TypeOK
    <2>2. \A d \in sTarget \ {c} : TargetInv(d)'
      BY <2>1, TargetKept DEF IInv
    <2> QED BY <2>1, <2>2
  <1> QED BY <1>1, <1>2, <1>3 DEF IInv

-----------------------------------------------------------------------------
(* The programs' steps.                                                    *)

\* A new block: its targets are quiet, which is all that CtlInv asks.
LEMMA Begins == ASSUME IInv, NEW T \in SUBSET Child, NI_setSendData(T) PROVE IInv'
  <1> USE NIAssumption DEF NI_setSendData, receiver
  <1>0. TypeOK /\ LinkType /\ ChildInv
    BY DEF IInv
  <1>1. tr \in Nat /\ tr' \in 1..Len(Sizes) /\ tr' > tr /\ 0 \in Phase
    BY <1>0 DEF TypeOK, Phase
  <1>2. TypeOK'
    <2>1. sN' \in [Phase -> 0..3]
      OBVIOUS
    <2>3. sAck' \in [Phase -> SUBSET Child]
      OBVIOUS
    <2>4. sPos' \in [Phase -> Nat]
      BY <1>0 DEF TypeOK
    <2>5. UNCHANGED <<ready, rState, rPhase, rN, rPos, rRemain, rInfo, rBuf, gaveUp>>
      OBVIOUS
    <2>6. tr' \in 0..Len(Sizes) /\ sTarget' \subseteq Child /\ sFirst' \subseteq Child
      BY <1>1
    <2>2. sState' = "ctl" /\ sBusy' \subseteq Child /\ sPhase' \in Phase /\ sRemain' \in Nat
      BY <1>0, <1>1 DEF TypeOK
    <2> HIDE DEF NI_setSendData
    <2> QED BY <1>0, <2>1, <2>2, <2>3, <2>4, <2>5, <2>6 DEF TypeOK
  <1>3. LinkType'
    BY <1>0 DEF LinkType
  <1>4. ChildInv'
    <2>1. \A d \in Child : ChildSame(d)
      BY DEF ChildSame
    <2>2. tr' \in Nat /\ tr' >= tr
      BY <1>1
    <2> QED BY <2>1, <2>2, ChildKept DEF ChildInv
  <1>5. SendInv'
    BY <1>1 DEF SendInv
  <1>6. ASSUME NEW c \in sTarget' PROVE TargetInv(c)'
    <2>1. c \in Child /\ Quiet(c) /\ rInfo[c] \in 0..tr /\ LinkType
      BY <1>0 DEF ChildInv, ChildOf, SlotInv
    <2>2. \A k \in 1..Len(down[c]) : down[c][k] \in Frame /\ down[c][k][1] \in 0..4
      BY <2>1 DEF LinkType, Frame
    <2>3. CtlInv(c)'
      BY <1>1, <2>1, <2>2, SMTT(30) DEF CtlInv, Quiet, Kinds, After
    <2> QED BY <2>3 DEF TargetInv
  <1> QED BY <1>2, <1>3, <1>4, <1>5, <1>6 DEF IInv

\* Targets are dropped: the invariant speaks of the remaining ones only.
LEMMA Changes == ASSUME IInv, NEW T \in SUBSET Child, changeSendTarget(T) PROVE IInv'
  <1> USE NIAssumption DEF changeSendTarget, receiver, GiveUp
  <1>0. TypeOK /\ LinkType /\ ChildInv /\ SendInv
    BY DEF IInv
  <1>2. TypeOK'
    <2>1. gaveUp' \in 0..MaxGiveUp
      BY <1>0 DEF TypeOK
    <2> QED BY <1>0, <2>1 DEF TypeOK, Sending
  <1>3. LinkType'
    BY <1>0 DEF LinkType
  <1>4. ChildInv'
    <2>1. \A d \in Child : ChildSame(d)
      BY DEF ChildSame
    <2>2. tr' \in Nat /\ tr' >= tr
      BY <1>0 DEF TypeOK
    <2> QED BY <2>1, <2>2, ChildKept DEF ChildInv
  <1>5. SendInv'
    <2>1. Todo' = Todo
      BY DEF Todo
    <2> QED BY <1>0, <2>1 DEF SendInv, Sending
  <1>6. ASSUME NEW c \in sTarget' PROVE TargetInv(c)'
    <2>1. c \in Child /\ TargetInv(c) /\ sState' = sState
      BY <1>0 DEF IInv
    <2>2. CtlInv(c)' = CtlInv(c) /\ EndInv(c)' = EndInv(c) /\ Quiet(c)' = Quiet(c)
      BY DEF CtlInv, EndInv, Quiet, Kinds, After, Has, HasAll, Holds
    <2>3. DatInv(c)' = DatInv(c) /\ \A p \in Phase : SyncInv(c, p)' = SyncInv(c, p)
      BY DEF DatInv, SyncInv, Got, Holds, Kinds, After, Has, Started
    <2> QED BY <2>1, <2>2, <2>3 DEF TargetInv
  <1> QED BY <1>2, <1>3, <1>4, <1>5, <1>6 DEF IInv

\* Without targets nothing is said of the children but ChildInv.
LEMMA ClearsSend == ASSUME IInv, clearSend PROVE IInv'
  <1> USE NIAssumption DEF clearSend, receiver, GiveUp
  <1>0. TypeOK /\ LinkType /\ ChildInv /\ SendInv
    BY DEF IInv
  <1>2. TypeOK'
    <2>1. gaveUp' \in 0..MaxGiveUp
      BY <1>0 DEF TypeOK
    <2>2. sPhase' \in Phase /\ sBusy' \subseteq Child
      BY <1>0 DEF TypeOK, Phase
    <2> QED BY <1>0, <2>1, <2>2 DEF TypeOK
  <1>3. LinkType'
    BY <1>0 DEF LinkType
  <1>4. ChildInv'
    <2>1. \A d \in Child : ChildSame(d)
      BY DEF ChildSame
    <2>2. tr' \in Nat /\ tr' >= tr
      BY <1>0 DEF TypeOK
    <2> QED BY <2>1, <2>2, ChildKept DEF ChildInv
  <1>5. SendInv'
    BY DEF SendInv
  <1> QED BY <1>2, <1>3, <1>4, <1>5 DEF IInv

\* A receiver that is cleared or stopped has no part in a block any more.
LEMMA Drops ==
  ASSUME IInv, NEW c \in Child, clearRecv(c) \/ NI_stopReceivingData(c)
  PROVE  IInv'
  <1> USE NIAssumption
  <1>0. TypeOK /\ LinkType /\ ChildInv /\ SendInv
    BY DEF IInv
  <1>1. gaveUp' \in 0..MaxGiveUp
    BY <1>0 DEF TypeOK, clearRecv, NI_stopReceivingData, GiveUp
  <1>2. /\ rState'[c] \in {"none", "failed", "stopped"} /\ rInfo'[c] \in {0, rInfo[c]}
        /\ rState'[c] = "none" => rInfo'[c] = 0
        /\ rBuf' = rBuf /\ down' = down /\ up' = up /\ UNCHANGED <<sender, ready, tr>>
        /\ \A d \in Child \ {c} : ChildSame(d) /\ up'[d] = up[d]
    BY <1>0, SMTT(30) DEF TypeOK, clearRecv, NI_stopReceivingData, ChildSame, Receiving
  <1>3. TypeOK'
    <2>1. /\ rState' \in [Child -> {"none", "ctl", "data", "end", "ok", "failed", "stopped"}]
          /\ rPhase' \in [Child -> Phase] /\ rRemain' \in [Child -> Int]
          /\ rN' \in [Child -> [Phase -> 0..3]] /\ rPos' \in [Child -> [Phase -> Nat]]
          /\ rInfo' \in [Child -> 0..Len(Sizes)]
      <3>1. 0 \in Phase
        BY DEF Phase
      <3>2. CASE clearRecv(c)
        BY <1>0, <3>1, <3>2 DEF TypeOK, clearRecv
      <3>3. CASE NI_stopReceivingData(c)
        BY <1>0, <3>3 DEF TypeOK, NI_stopReceivingData
      <3> QED BY <3>2, <3>3
    <2> QED BY <1>0, <1>1, <1>2, <2>1 DEF TypeOK, sender
  <1>4. LinkType'
    BY <1>0, <1>2 DEF LinkType
  <1>5. ChildOf(c)'
    <2>0. ChildOf(c) /\ tr \in Nat /\ rInfo[c] \in 0..tr
      BY <1>0 DEF ChildInv, ChildOf, SlotInv, TypeOK
    <2>1. QueueInv(c)'
      BY <2>0, <1>2 DEF ChildOf, QueueInv, Ordered, OneBlock, DataFrames, After, Has
    <2>2. SlotInv(c)'
      BY <2>0, <1>2 DEF ChildOf, SlotInv
    <2>3. DataInv(c)'
      BY <1>2 DEF DataInv
    <2> QED BY <2>1, <2>2, <2>3 DEF ChildOf
  <1>6. ASSUME c \in sTarget PROVE TargetInv(c)'
    <2>0. TargetInv(c)
      BY <1>6 DEF IInv
    <2> USE <1>2 DEF sender
    <2>1. CtlInv(c) => CtlInv(c)'
      BY DEF CtlInv, Kinds, After
    <2>2. DatInv(c) => DatInv(c)'
      BY DEF DatInv, Kinds, After, Has, Started
    <2>3. ASSUME NEW p \in Phase, SyncInv(c, p) PROVE SyncInv(c, p)'
      <3>1. Got(c, p)' = Got(c, p) /\ \A i : Holds(c, tr, i)' = Holds(c, tr, i)
        BY DEF Got, Holds
      <3> QED BY <2>3, <3>1 DEF SyncInv
    <2>4. EndInv(c) => EndInv(c)'
      BY DEF EndInv, Kinds, After, Has, HasAll, Holds
    <2>5. Quiet(c) => Quiet(c)'
      BY DEF Quiet
    <2> QED BY <2>0, <2>1, <2>2, <2>3, <2>4, <2>5 DEF TargetInv
  <1> QED BY <1>2, <1>3, <1>4, <1>5, <1>6, ChildStep

\* The adapter has taken a frame.
LEMMA SendReturns == ASSUME IInv, NEW err \in {0, 1}, CB_sendData(err) PROVE IInv'
  <1> USE NIAssumption DEF CB_sendData, receiver
  <1>0. TypeOK /\ LinkType /\ ChildInv /\ SendInv
    BY DEF IInv
  <1>1. sState' = sState \/ (sState = "acked" /\ sState' = "ok")
    OBVIOUS
  <1>2. TypeOK'
    BY <1>0, <1>1 DEF TypeOK
  <1>3. LinkType'
    BY <1>0 DEF LinkType
  <1>4. ChildInv'
    <2>1. \A d \in Child : ChildSame(d)
      BY DEF ChildSame
    <2>2. tr' \in Nat /\ tr' >= tr
      BY <1>0 DEF TypeOK
    <2> QED BY <2>1, <2>2, ChildKept DEF ChildInv
  <1>5. SendInv'
    <2>1. Todo' = Todo
      BY DEF Todo
    <2> QED BY <1>0, <1>1, <2>1 DEF SendInv
  <1>6. ASSUME NEW c \in sTarget' PROVE TargetInv(c)'
    <2>1. c \in Child /\ TargetInv(c)
      BY <1>0 DEF IInv, TypeOK
    <2>2. CtlInv(c)' = CtlInv(c) /\ EndInv(c)' = EndInv(c) /\ Quiet(c)' = Quiet(c)
      BY DEF CtlInv, EndInv, Quiet, Kinds, After, Has, HasAll, Holds
    <2>3. DatInv(c)' = DatInv(c) /\ \A p \in Phase : SyncInv(c, p)' = SyncInv(c, p)
      BY DEF DatInv, SyncInv, Got, Holds, Kinds, After, Has, Started
    <2> QED BY <1>1, <2>1, <2>2, <2>3 DEF TargetInv
  <1> QED BY <1>2, <1>3, <1>4, <1>5, <1>6 DEF IInv

\* The child's frame acknowledges what the child has taken.
LEMMA AckGoes == ASSUME IInv, NEW c \in Child, SendAck(c) PROVE IInv'
  <1> USE NIAssumption
  <1> DEFINE a == <<Kind(rState[c]), rPhase[c], rN[c][rPhase[c]], Nothing>>
  <1>0. TypeOK /\ LinkType /\ ChildInv /\ SendInv /\ ChildOf(c)
    BY DEF IInv, ChildInv
  <1>1. /\ rState[c] \in {"ctl", "data", "end"} /\ UNCHANGED <<sender, ready, tr, receiver, down, gaveUp>>
        /\ up' = [up EXCEPT ![c] = Append(@, a)]
    BY DEF SendAck, Receiving
  <1>2. /\ a \in Frame /\ a[2] = rPhase[c] /\ a[3] = rN[c][rPhase[c]]
        /\ a[1] = IF rState[c] = "ctl" THEN 1 ELSE IF rState[c] = "data" THEN 2 ELSE 3
    BY <1>0, <1>1, SMTT(30) DEF TypeOK, Kind, Frame, Nothing
  <1> HIDE DEF a
  <1>3. /\ up[c] \in Seq(Frame) /\ up'[c] \in Seq(Frame) /\ Grown(up[c], up'[c], a)
        /\ \A d \in Child \ {c} : up'[d] = up[d]
        /\ up' \in [Child -> Seq(Frame)]
    BY <1>0, <1>1, <1>2, AppendGrows DEF LinkType
  <1>4. TypeOK'
    BY <1>0, <1>1 DEF TypeOK, sender, receiver
  <1>5. LinkType'
    BY <1>0, <1>1, <1>3 DEF LinkType
  <1>6. \A d \in Child : ChildSame(d)
    BY <1>1 DEF ChildSame, receiver
  <1>7. ChildOf(c)'
    <2>1. tr' \in Nat /\ tr' >= tr
      BY <1>0, <1>1 DEF TypeOK
    <2> QED BY <1>6, <2>1, ChildKept
  <1>8. ASSUME c \in sTarget PROVE TargetInv(c)'
    <2>0. TargetInv(c)
      BY <1>8 DEF IInv
    <2>u. UNCHANGED <<sState, sTarget, sPhase, sN, sAck, sPos, sRemain, tr, rState, rPhase, rN, rPos,
                      rRemain, rInfo, rBuf, down>>
      BY <1>1 DEF sender, receiver
    <2>g. /\ \A k \in 1..Len(up'[c]) : (k \in 1..Len(up[c]) /\ up'[c][k] = up[c][k])
                                         \/ (k = Len(up[c]) + 1 /\ up'[c][k] = a)
          /\ \A K : Kinds(up[c], K) /\ a[1] \in K => Kinds(up[c], K)'
          /\ \A K, L : After(up[c], K, L) /\ (a[1] \in L \/ \A x \in K : ~Has(up[c], x)) => After(up[c], K, L)'
          /\ \A x : Has(up[c], x)' <=> Has(up[c], x) \/ a[1] = x
      BY <1>2, <1>3, GrownFacts
    <2>1. ASSUME sState = "ctl" PROVE CtlInv(c)'
      <3>1. CtlInv(c)
        BY <2>0, <2>1 DEF TargetInv
      <3>2. Kinds(down[c], {1})' = Kinds(down[c], {1})
            /\ Kinds(down[c], {0, 1, 3, 4})' = Kinds(down[c], {0, 1, 3, 4})
            /\ After(down[c], {1}, {1})' = After(down[c], {1}, {1})
        BY <2>u DEF Kinds, After
      <3>a. \A k \in 1..Len(up[c]) : up[c][k][1] # 2 /\ (up[c][k][1] = 1 => up[c][k][2] = 0)
        BY <3>1 DEF CtlInv
      <3>b. a[1] # 2 /\ (a[1] = 1 => a[2] = 0)
        BY <3>1, <1>1, <1>2 DEF CtlInv
      <3>c. \A k \in 1..Len(up'[c]) : (k \in 1..Len(up[c]) /\ up'[c][k] = up[c][k]) \/ up'[c][k] = a
        BY <2>g
      <3>3. \A k \in 1..Len(up'[c]) : up'[c][k][1] # 2 /\ (up'[c][k][1] = 1 => up'[c][k][2] = 0)
        BY <3>a, <3>b, <3>c
      <3> QED BY <3>1, <3>2, <3>3, <2>u DEF CtlInv
    <2>2. ASSUME sState = "data" PROVE DatInv(c)'
      <3>1. DatInv(c)
        BY <2>0, <2>2 DEF TargetInv
      <3>2. Kinds(down[c], {1, 2})' = Kinds(down[c], {1, 2}) /\ Kinds(down[c], {2})' = Kinds(down[c], {2})
            /\ After(down[c], {1}, {1, 2})' = After(down[c], {1}, {1, 2})
            /\ After(down[c], {2}, {2})' = After(down[c], {2}, {2})
            /\ Started(c)' = Started(c)
        BY <2>u DEF Kinds, After, Started
      <3>3. After(up[c], {2}, {2})' /\ (Started(c) => Kinds(up[c], {2})')
        BY <3>1, <2>g, <1>1, <1>2 DEF DatInv
      <3>4. Started(c) \/ Has(up[c], 2)' => Kinds(down[c], {2}) /\ rState[c] \notin {"ctl", "end"}
        BY <3>1, <2>g, <1>1, <1>2 DEF DatInv
      <3> QED BY <3>1, <3>2, <3>3, <3>4, <2>u DEF DatInv
    <2>3. ASSUME sState = "data", NEW p \in Phase PROVE SyncInv(c, p)'
      <3>1. SyncInv(c, p) /\ DatInv(c) /\ Numbered(p, sPos[p], sN[p])
        BY <2>0, <2>3, <1>0 DEF TargetInv, SendInv
      <3>2. Got(c, p)' = Got(c, p) /\ \A i : Holds(c, tr, i)' = Holds(c, tr, i)
        BY <2>u DEF Got, Holds
      <3>t. sN[p] \in 0..3 /\ rN[c][p] \in 0..3 /\ sPos[p] \in Nat /\ rPos[c][p] \in Nat /\ W \in Nat \ {0}
        BY <1>0 DEF TypeOK
      <3>3. ASSUME a[1] = 2, a[2] = p
            PROVE  \/ a[3] = sN[p] /\ Got(c, p) /\ rPos[c][p] = sPos[p] + W
                   \/ Bump(a[3]) = sN[p] /\ c \notin sAck[p] /\ rPos[c][p] = sPos[p]
        <4>1. rState[c] = "data" /\ a[3] = rN[c][p] /\ DataInv(c) /\ rInfo[c] = tr
          BY <3>3, <1>0, <1>1, <1>2, <3>1 DEF ChildOf, DatInv
        <4>2. Numbered(p, rPos[c][p], Bump(rN[c][p]))
          BY <4>1 DEF DataInv, Stored
        <4>3. CASE rPos[c][p] = sPos[p] + W
          <5>1. Numbered(p, rPos[c][p], Bump(sN[p])) /\ OfPhase(p, sPos[p])
            BY <3>1, <3>t, <4>3, NumberFacts
          <5>2. Bump(rN[c][p]) \in 0..3 /\ Bump(sN[p]) \in 0..3
            BY <3>t, BumpFacts
          <5>3. Bump(rN[c][p]) = Bump(sN[p])
            BY <5>1, <5>2, <4>2, <3>t, NumberFacts
          <5>4. rN[c][p] = sN[p]
            BY <5>3, <3>t, BumpFacts
          <5>5. sPos[p] \in 0..rPos[c][p] /\ sPos[p] < rPos[c][p]
            BY <4>3, <3>t
          <5>6. Got(c, p)
            BY <5>1, <5>5, <4>1 DEF DataInv, Stored, Got
          <5> QED BY <4>1, <4>3, <5>4, <5>6
        <4>4. CASE rPos[c][p] = sPos[p] /\ c \notin sAck[p]
          <5>1. Bump(rN[c][p]) = sN[p]
            BY <4>2, <4>4, <3>1, <3>t, BumpFacts, NumberFacts
          <5> QED BY <5>1, <4>1, <4>4
        <4> QED BY <4>1, <4>3, <4>4, <3>1 DEF SyncInv
      <3>4. \A n \in 0..3 : n = sN[p] => Bump(n) # sN[p]
        BY BumpFacts
      <3>5. \A k \in 1..Len(up'[c]) : up'[c][k][1] = 2 /\ up'[c][k][2] = p =>
               \/ /\ up'[c][k][3] = sN[p] /\ Got(c, p)
                  /\ rState[c] = "data" => rPos[c][p] = sPos[p] + W
               \/ Bump(up'[c][k][3]) = sN[p] /\ c \notin sAck[p]
        BY <3>1, <3>3, <2>g DEF SyncInv
      <3>6. ASSUME NEW k \in 1..Len(up'[c]), NEW l \in 1..Len(up'[c]), k < l,
                   up'[c][k][1] = 2, up'[c][l][1] = 2, up'[c][k][2] = p, up'[c][l][2] = p,
                   up'[c][k][3] = sN[p]
            PROVE  up'[c][l][3] = sN[p]
        <4>0. Len(up[c]) \in Nat /\ Len(up'[c]) \in Nat
          BY <1>3
        <4>1. k \in 1..Len(up[c]) /\ up'[c][k] = up[c][k]
          BY <2>g, <3>6, <4>0, <1>3 DEF Grown
        <4>2. CASE l \in 1..Len(up[c]) /\ up'[c][l] = up[c][l]
          BY <4>1, <4>2, <3>6, <3>1 DEF SyncInv
        <4>3. CASE up'[c][l] = a
          <5>1. rState[c] = "data"
            BY <3>6, <4>3, <1>1, <1>2
          <5>2. Bump(up[c][k][3]) # sN[p]
            BY <3>4, <3>6, <3>t, <4>1
          <5>3. rPos[c][p] = sPos[p] + W
            BY <5>1, <5>2, <4>1, <3>6, <3>1 DEF SyncInv
          <5> QED BY <5>3, <3>3, <3>6, <4>3, <3>t
        <4> QED BY <2>g, <4>2, <4>3
      <3> QED BY <3>1, <3>2, <3>5, <3>6, <2>u DEF SyncInv
    <2>4. ASSUME sState = "end" PROVE EndInv(c)'
      <3>1. EndInv(c)
        BY <2>0, <2>4 DEF TargetInv
      <3>2. HasAll(c, tr)' = HasAll(c, tr)
            /\ Kinds(down[c], {3})' = Kinds(down[c], {3}) /\ Kinds(down[c], {2, 3})' = Kinds(down[c], {2, 3})
            /\ After(down[c], {3}, {3})' = After(down[c], {3}, {3})
        BY <2>u DEF Kinds, After, HasAll, Holds
      <3>3. Kinds(up[c], {2, 3})' /\ After(up[c], {3}, {3})'
        BY <3>1, <2>g, <1>1, <1>2 DEF EndInv
      <3>4. Has(up[c], 3)' => Kinds(down[c], {3}) /\ rState[c] # "data"
        BY <3>1, <2>g, <1>1, <1>2 DEF EndInv
      <3>5. ASSUME NEW p \in Phase, c \in sAck[p] PROVE Kinds(up[c], {3})'
        BY <3>1, <3>5, <2>g, <1>1, <1>2 DEF EndInv
      <3> QED BY <3>1, <3>2, <3>3, <3>4, <3>5, <2>u DEF EndInv
    <2>5. Quiet(c) => Quiet(c)'
      BY <2>g, <2>u, <1>1, <1>2 DEF Quiet
    <2> QED BY <2>0, <2>1, <2>2, <2>3, <2>4, <2>5, <2>u DEF TargetInv
  <1>9. UNCHANGED <<sender, tr>>
    BY <1>1
  <1> QED BY <1>3, <1>4, <1>5, <1>6, <1>7, <1>8, <1>9, ChildStep

-----------------------------------------------------------------------------
(* The parent sends.                                                       *)

\* A frame f that child c may hear next.
MayHear(c, f) ==
  /\ f[1] = 1 => ~Has(down[c], 2) /\ rState[c] # "data"
  /\ f[1] = 3 => /\ ~Has(down[c], 1) /\ rState[c] # "ctl"
                 /\ rState[c] = "data" => HasAll(c, rInfo[c])
  /\ f[1] \in {1, 2} =>
       /\ f[4][1] \in 1..tr
       /\ \A k \in 1..Len(down[c]) : down[c][k][1] \in {1, 2} => down[c][k][4][1] = f[4][1]
       /\ rState[c] \in {"ctl", "data"} /\ rInfo[c] # 0 => rInfo[c] = f[4][1]
  /\ f[1] = 2 =>
       /\ Numbered(f[2], f[4][2], f[3]) /\ f[4][2] < Sizes[f[4][1]]
       /\ rState[c] = "ctl" \/ Has(down[c], 1) => f[4][2] = f[2]
       /\ rState[c] = "data" =>
            /\ f[4][2] = rPos[c][f[2]] \/ f[4][2] + W = rPos[c][f[2]]
            /\ \A k \in 1..Len(down[c]) :
                 down[c][k][1] = 2 /\ down[c][k][2] = f[2] /\ down[c][k][4][2] = rPos[c][f[2]]
                 => f[4][2] = rPos[c][f[2]]

\* A frame that child d may hear keeps the invariant of d.
LEMMA Hears ==
  ASSUME IInv, NEW d \in Child, NEW f \in Frame, Grown(down[d], down'[d], f),
         down'[d] \in Seq(Frame), UNCHANGED <<tr, receiver>>, MayHear(d, f)
  PROVE  ChildOf(d)'
  <1>0. ChildOf(d) /\ down[d] \in Seq(Frame) /\ f[1] \in 0..4
    BY DEF IInv, ChildInv, LinkType, Frame
  <1>u. UNCHANGED <<rState, rPhase, rN, rPos, rRemain, rInfo, rBuf>> /\ tr' = tr
    BY DEF receiver
  <1>g. /\ \A k \in 1..Len(down'[d]) : (k \in 1..Len(down[d]) /\ down'[d][k] = down[d][k])
                                         \/ (k = Len(down[d]) + 1 /\ down'[d][k] = f)
        /\ \A K : Kinds(down[d], K) /\ f[1] \in K => Kinds(down[d], K)'
        /\ \A K, L : After(down[d], K, L) /\ (f[1] \in L \/ \A x \in K : ~Has(down[d], x))
                       => After(down[d], K, L)'
        /\ \A x : Has(down[d], x)' <=> Has(down[d], x) \/ f[1] = x
    BY <1>0, GrownFacts
  <1>h. Len(down[d]) \in Nat /\ Len(down'[d]) \in Nat
    BY <1>0
  <1>1. QueueInv(d)'
    <2>1. QueueInv(d)
      BY <1>0 DEF ChildOf
    <2>2. Ordered(d)'
      BY <2>1, <1>g, <1>0 DEF QueueInv, Ordered, MayHear
    <2>3. OneBlock(d)'
      <3>1. ASSUME NEW k \in 1..Len(down'[d]), down'[d][k][1] \in {1, 2}
            PROVE  down'[d][k][4][1] \in 1..tr
        BY <2>1, <3>1, <1>g DEF QueueInv, OneBlock, MayHear
      <3>2. ASSUME NEW k \in 1..Len(down'[d]), NEW l \in 1..Len(down'[d]),
                   down'[d][k][1] \in {1, 2}, down'[d][l][1] \in {1, 2}
            PROVE  down'[d][k][4][1] = down'[d][l][4][1]
        <4>1. \A i, j \in 1..Len(down[d]) :
                down[d][i][1] \in {1, 2} /\ down[d][j][1] \in {1, 2} => down[d][i][4][1] = down[d][j][4][1]
          BY <2>1 DEF QueueInv, OneBlock
        <4>2. f[1] \in {1, 2} =>
                \A i \in 1..Len(down[d]) : down[d][i][1] \in {1, 2} => down[d][i][4][1] = f[4][1]
          BY DEF MayHear
        <4>3. /\ (k \in 1..Len(down[d]) /\ down'[d][k] = down[d][k]) \/ down'[d][k] = f
              /\ (l \in 1..Len(down[d]) /\ down'[d][l] = down[d][l]) \/ down'[d][l] = f
          BY <1>g
        <4>4. CASE down'[d][k] = f
          <5>1. f[1] \in {1, 2}
            BY <3>2, <4>4
          <5>2. down'[d][l][4][1] = f[4][1]
            BY <3>2, <4>2, <4>3, <5>1
          <5> QED BY <4>4, <5>2
        <4>5. CASE down'[d][l] = f
          <5>1. f[1] \in {1, 2}
            BY <3>2, <4>5
          <5>2. down'[d][k][4][1] = f[4][1]
            BY <3>2, <4>2, <4>3, <5>1
          <5> QED BY <4>5, <5>2
        <4>6. CASE down'[d][k] # f /\ down'[d][l] # f
          BY <3>2, <4>1, <4>3, <4>6
        <4> QED BY <4>4, <4>5, <4>6
      <3> QED BY <3>1, <3>2, <1>u DEF OneBlock
    <2>4. DataFrames(d)'
      <3> SUFFICES ASSUME NEW k \in 1..Len(down'[d]), down'[d][k][1] = 2
                   PROVE  /\ Numbered(down'[d][k][2], down'[d][k][4][2], down'[d][k][3])
                          /\ down'[d][k][4][2] < Sizes[down'[d][k][4][1]]
                          /\ rState'[d] = "ctl" \/ Has(down[d], 1)' => down'[d][k][4][2] = down'[d][k][2]
        BY DEF DataFrames
      <3>1. CASE k \in 1..Len(down[d]) /\ down'[d][k] = down[d][k]
        <4>1. Has(down[d], 2)
          BY <3>1 DEF Has
        <4>2. Has(down[d], 1)' <=> Has(down[d], 1)
          BY <4>1, <1>g DEF MayHear
        <4> QED BY <3>1, <4>2, <2>1, <1>u DEF QueueInv, DataFrames
      <3>2. CASE down'[d][k] = f
        BY <3>2, <1>g, <1>u DEF MayHear
      <3> QED BY <3>1, <3>2, <1>g
    <2> QED BY <2>2, <2>3, <2>4 DEF QueueInv
  <1>2. SlotInv(d)'
    <2>1. SlotInv(d)
      BY <1>0 DEF ChildOf
    <2>2. (rState[d] = "ctl" => Kinds(down[d], {0, 1, 2, 4})')
          /\ (rState[d] = "data" => Kinds(down[d], {0, 2, 3, 4})')
      BY <2>1, <1>g, <1>0 DEF SlotInv, MayHear
    <2>3. HasAll(d, rInfo[d])' = HasAll(d, rInfo[d])
      BY <1>u DEF HasAll, Holds
    <2>4. ASSUME NEW k \in 1..Len(down'[d]), down'[d][k][1] \in {1, 2},
                 rState[d] \in {"ctl", "data"}, rInfo[d] # 0
          PROVE  down'[d][k][4][1] = rInfo[d]
      BY <2>1, <2>4, <1>g DEF SlotInv, MayHear
    <2> QED BY <2>1, <2>2, <2>3, <2>4, <1>u DEF SlotInv
  <1>3. DataInv(d)'
    <2> SUFFICES ASSUME rState[d] = "data"
                 PROVE  Fits(d)' /\ Stored(d)' /\ InTurn(d)' /\ (Has(down[d], 3)' => HasAll(d, rInfo[d])')
      BY <1>u DEF DataInv
    <2>1. DataInv(d)
      BY <1>0 DEF ChildOf
    <2>2. HasAll(d, rInfo[d])' = HasAll(d, rInfo[d]) /\ Fits(d)' = Fits(d)
          /\ \A i : Holds(d, rInfo[d], i)' = Holds(d, rInfo[d], i)
      BY <1>u DEF HasAll, Holds, Fits
    <2>4. Has(down[d], 3)' => HasAll(d, rInfo[d])
      BY <2>1, <1>g DEF DataInv, MayHear
    <2>5. Stored(d)'
      BY <2>1, <2>2, <1>u DEF DataInv, Stored
    <2>6. InTurn(d)'
      <3>0. InTurn(d)
        BY <2>1 DEF DataInv
      <3>1. ASSUME NEW k \in 1..Len(down'[d]), down'[d][k][1] = 2
            PROVE  \/ down'[d][k][4][2] = rPos[d][down'[d][k][2]]
                   \/ down'[d][k][4][2] + W = rPos[d][down'[d][k][2]]
        BY <3>0, <3>1, <1>g DEF InTurn, MayHear
      <3>2. ASSUME NEW k \in 1..Len(down'[d]), NEW l \in 1..Len(down'[d]), k < l,
                   down'[d][k][1] = 2, down'[d][l][1] = 2, down'[d][k][2] = down'[d][l][2],
                   down'[d][k][4][2] = rPos[d][down'[d][k][2]]
            PROVE  down'[d][l][4][2] = rPos[d][down'[d][k][2]]
        <4>1. k \in 1..Len(down[d]) /\ down'[d][k] = down[d][k]
          <5>1. Len(down'[d]) = Len(down[d]) + 1
            BY DEF Grown
          <5> QED BY <1>g, <1>h, <3>2, <5>1
        <4>2. CASE l \in 1..Len(down[d]) /\ down'[d][l] = down[d][l]
          BY <4>1, <4>2, <3>0, <3>2 DEF InTurn
        <4>3. CASE down'[d][l] = f
          BY <4>1, <4>3, <3>2 DEF MayHear
        <4> QED BY <4>2, <4>3, <1>g
      <3> QED BY <3>1, <3>2, <1>u DEF InTurn
    <2> QED BY <2>1, <2>2, <2>4, <2>5, <2>6 DEF DataInv
  <1> QED BY <1>1, <1>2, <1>3 DEF ChildOf

\* A frame without NI data says nothing to the slots; no block is under way.
LEMMA OtherGoes == ASSUME IInv, NEW heard \in SUBSET Child, REQ_sendOther(heard) PROVE IInv'
  <1> USE NIAssumption
  <1>0. TypeOK /\ LinkType /\ ChildInv /\ SendInv
    BY DEF IInv
  <1>1. /\ sState \notin {"ctl", "data", "end", "acked"}
        /\ down' = [c \in Child |-> IF c \in heard THEN Append(down[c], Other) ELSE down[c]]
        /\ UNCHANGED <<sender, ready, tr, receiver, up, gaveUp>>
    BY DEF REQ_sendOther, Sending
  <1>2. Other \in Frame /\ Other[1] = 4
    BY DEF Other, Frame, Nothing, Phase
  <1>3. /\ down' \in [Child -> Seq(Frame)]
        /\ \A d \in Child : down'[d] = down[d] \/ Grown(down[d], down'[d], Other)
    BY <1>0, <1>1, <1>2, AppendGrows DEF LinkType
  <1>4. TypeOK'
    BY <1>0, <1>1 DEF TypeOK, sender, receiver
  <1>5. LinkType'
    BY <1>0, <1>1, <1>3 DEF LinkType
  <1>6. ASSUME NEW d \in Child PROVE ChildOf(d)'
    <2>1. CASE down'[d] = down[d]
      <3>1. ChildSame(d) /\ tr' \in Nat /\ tr' >= tr
        BY <1>0, <1>1, <2>1 DEF ChildSame, receiver, TypeOK
      <3> QED BY <3>1, ChildKept
    <2>2. CASE Grown(down[d], down'[d], Other)
      <3>1. down'[d] \in Seq(Frame) /\ UNCHANGED <<tr, receiver>> /\ MayHear(d, Other)
        BY <1>1, <1>2, <1>3 DEF MayHear
      <3> QED BY <3>1, <2>2, <1>2, Hears
    <2> QED BY <1>3, <2>1, <2>2
  <1>7. SendInv'
    BY <1>0, <1>1, SendKept
  <1>8. ASSUME NEW c \in sTarget' PROVE TargetInv(c)'
    <2>1. c \in Child /\ TargetInv(c) /\ sState = "ok"
      BY <1>0, <1>1 DEF sender, TypeOK, IInv, SendInv
    <2>2. Quiet(c) /\ down[c] \in Seq(Frame)
      BY <2>1, <1>0 DEF TargetInv, LinkType
    <2>3. \A k \in 1..Len(down'[c]) : down'[c][k][1] \notin {1, 2}
      <3>1. CASE down'[c] = down[c]
        BY <3>1, <2>2 DEF Quiet
      <3>2. CASE Grown(down[c], down'[c], Other)
        <4>1. down'[c] \in Seq(Frame)
          BY <1>3, <2>1
        <4>2. \A k \in 1..Len(down'[c]) :
                (k \in 1..Len(down[c]) /\ down'[c][k] = down[c][k]) \/ down'[c][k] = Other
          BY <1>2, <2>2, <3>2, <4>1, GrownFacts
        <4> QED BY <1>2, <2>2, <4>2 DEF Quiet
      <3> QED BY <1>3, <2>1, <3>1, <3>2
    <2>4. Quiet(c)'
      BY <2>2, <2>3, <1>1 DEF Quiet, receiver
    <2> QED BY <2>1, <2>4, <1>1 DEF TargetInv, sender
  <1> QED BY <1>4, <1>5, <1>6, <1>7, <1>8 DEF IInv, ChildInv

\* A subframe is sent: that of a state the targets are in, or about to enter.
LEMMA DataGoes ==
  ASSUME IInv, NEW heard \in SUBSET Child, NEW p \in Phase, REQ_sendData(p, heard)
  PROVE  IInv'
  <1> USE NIAssumption
  <1>0. TypeOK /\ LinkType /\ ChildInv /\ SendInv
    BY DEF IInv
  <1>1. /\ sState \in {"ctl", "data", "end", "acked"} /\ NextPhase(p)
        /\ down' = [c \in Child |-> IF c \in heard THEN Append(down[c], Subframe(p, c)) ELSE down[c]]
        /\ sPhase' = IF sState = "data" THEN (p + 1) % W ELSE p
        /\ UNCHANGED <<sState, sTarget, sFirst, sBusy, sN, sAck, sPos, sRemain, tr,
                       receiver, up, gaveUp>>
        /\ ready' = 1
    BY DEF REQ_sendData, Sending
  <1>2. \A c \in Child : Subframe(p, c) \in Frame
    <2>1. Other \in Frame
      BY DEF Other, Frame, Nothing, Phase
    <2>2. Kind(sState) \in 0..4 /\ sN[p] \in 0..3 /\ Nothing \in (0..Len(Sizes)) \X Nat
          /\ <<tr, sPos[p]>> \in (0..Len(Sizes)) \X Nat
      BY <1>0 DEF Kind, TypeOK, Nothing
    <2> QED BY <2>1, <2>2 DEF Subframe, Frame
  <1>3. /\ down' \in [Child -> Seq(Frame)]
        /\ \A d \in Child : down'[d] = down[d] \/ Grown(down[d], down'[d], Subframe(p, d))
    BY <1>0, <1>1, <1>2, AppendGrows DEF LinkType
  <1>4. TypeOK'
    <2>1. sPhase' \in Phase
      BY <1>0, <1>1 DEF TypeOK, Phase
    <2> QED BY <1>0, <1>1, <2>1 DEF TypeOK, receiver
  <1>5. LinkType'
    BY <1>0, <1>1, <1>3 DEF LinkType
  <1>6. SendInv'
    <2>1. Todo' = Todo
      BY <1>1 DEF Todo
    <2>2. sState = "ctl" => sPhase' = 0
      BY <1>0, <1>1 DEF NextPhase, SendInv
    <2> QED BY <1>0, <1>1, <2>1, <2>2 DEF SendInv
  <1>7. sState = "data" => sPos[p] < Sizes[tr]
    BY <1>1 DEF NextPhase, Live
  <1>t. tr \in 0..Len(Sizes) /\ tr > 0 /\ sPos[p] \in Nat /\ sN[p] \in 0..3 /\ W \in Nat \ {0}
    BY <1>0, <1>1 DEF TypeOK, SendInv
  \* The subframe as a target receives it.
  <1>8. ASSUME NEW d \in sTarget
        PROVE  LET f == Subframe(p, d) IN
                 /\ f[1] = CASE sState = "ctl" -> 1 [] sState = "data" -> 2 [] sState = "end" -> 3 [] OTHER -> 0
                 /\ f[2] = p /\ f[3] = sN[p]
                 /\ sState \in {"ctl", "data"} => f[4] = <<tr, sPos[p]>> /\ f[4][1] = tr /\ f[4][2] = sPos[p]
    BY DEF Subframe, Kind
  <1>9. ASSUME NEW d \in Child PROVE MayHear(d, Subframe(p, d))
    <2>1. CASE d \notin sTarget
      <3>1. Subframe(p, d)[1] = 4
        BY <2>1 DEF Subframe, Other
      <3> QED BY <3>1 DEF MayHear
    <2>2. CASE d \in sTarget
      <3> DEFINE f == Subframe(p, d)
      <3>0. TargetInv(d) /\ ChildOf(d)
        BY <2>2, <1>0 DEF IInv, ChildInv
      <3>f. /\ f[1] = CASE sState = "ctl" -> 1 [] sState = "data" -> 2 [] sState = "end" -> 3 [] OTHER -> 0
            /\ f[2] = p /\ f[3] = sN[p]
            /\ sState \in {"ctl", "data"} => f[4][1] = tr /\ f[4][2] = sPos[p]
        BY <1>8, <2>2
      <3> SUFFICES MayHear(d, f)
        OBVIOUS
      <3> HIDE DEF f
      <3>1. CASE sState = "ctl"
        <4>1. CtlInv(d) /\ f[1] = 1 /\ f[4][1] = tr /\ tr \in 1..tr
          BY <3>0, <3>1, <3>f, <1>t DEF TargetInv
        <4>k. Kinds(down[d], {0, 1, 3, 4})
          BY <4>1 DEF CtlInv
        <4>2. ~Has(down[d], 2)
          BY <4>k DEF Kinds, Has
        <4>3. \A k \in 1..Len(down[d]) : down[d][k][1] \in {1, 2} => down[d][k][4][1] = tr
          <5>1. \A k \in 1..Len(down[d]) : down[d][k][1] # 2
            BY <4>k DEF Kinds
          <5> QED BY <4>1, <5>1 DEF CtlInv
        <4>4. rState[d] # "data" /\ (rState[d] = "ctl" => rInfo[d] \in {0, tr})
          BY <4>1 DEF CtlInv
        <4> QED BY <4>1, <4>2, <4>3, <4>4 DEF MayHear
      <3>2. CASE sState = "data"
        <4>1. DatInv(d) /\ SyncInv(d, p) /\ f[1] = 2 /\ f[4][1] = tr /\ tr \in 1..tr /\ f[4][2] = sPos[p]
          BY <3>0, <3>2, <3>f, <1>t DEF TargetInv
        <4>2. Numbered(f[2], f[4][2], f[3]) /\ f[4][2] < Sizes[f[4][1]]
          BY <4>1, <3>2, <3>f, <1>0, <1>7 DEF SendInv
        <4>3. rState[d] = "ctl" \/ Has(down[d], 1) => f[4][2] = f[2]
          <5>1. ASSUME rState[d] = "ctl" \/ Has(down[d], 1) PROVE ~Started(d)
            BY <5>1, <4>1 DEF DatInv, Has, Kinds
          <5> QED BY <5>1, <4>1, <3>f DEF Started
        <4>4. rState[d] = "data" =>
                /\ f[4][2] = rPos[d][f[2]] \/ f[4][2] + W = rPos[d][f[2]]
                /\ \A k \in 1..Len(down[d]) :
                     down[d][k][1] = 2 /\ down[d][k][2] = f[2] /\ down[d][k][4][2] = rPos[d][f[2]]
                     => f[4][2] = rPos[d][f[2]]
          <5>1. rState[d] = "data" => rPos[d][p] = sPos[p] \/ rPos[d][p] = sPos[p] + W
            BY <4>1 DEF SyncInv
          <5>2. \A k \in 1..Len(down[d]) : down[d][k][1] = 2 /\ down[d][k][2] = p => down[d][k][4][2] <= sPos[p]
            BY <4>1 DEF DatInv
          <5> QED BY <5>1, <5>2, <4>1, <3>f, <1>t, SMTT(30)
        <4>5. rState[d] \in {"ctl", "data"} /\ rInfo[d] # 0 => rInfo[d] = tr
          BY <4>1 DEF DatInv
        <4>6. \A k \in 1..Len(down[d]) : down[d][k][1] \in {1, 2} => down[d][k][4][1] = tr
          BY <4>1 DEF DatInv
        <4> QED BY <4>1, <4>2, <4>3, <4>4, <4>5, <4>6 DEF MayHear
      <3>3. CASE sState = "end"
        <4>1. EndInv(d) /\ f[1] = 3
          BY <3>0, <3>3, <3>f DEF TargetInv
        <4>2. ~Has(down[d], 1)
          BY <4>1, SMTT(30) DEF EndInv, Kinds, Has
        <4>3. rState[d] # "ctl" /\ (rState[d] = "data" => rInfo[d] = tr) /\ HasAll(d, tr)
          BY <4>1 DEF EndInv
        <4> QED BY <4>1, <4>2, <4>3 DEF MayHear
      <3>4. CASE sState = "acked"
        BY <3>4, <3>f DEF MayHear
      <3> QED BY <1>1, <3>1, <3>2, <3>3, <3>4
    <2> QED BY <2>1, <2>2
  <1>10. ASSUME NEW d \in Child PROVE ChildOf(d)'
    <2>0. UNCHANGED <<tr, receiver>> /\ tr' \in Nat /\ tr' >= tr
      BY <1>1, <1>t
    <2>1. CASE down'[d] = down[d]
      <3>1. ChildSame(d)
        BY <1>1, <2>1 DEF ChildSame, receiver
      <3> QED BY <2>0, <3>1, ChildKept
    <2>2. CASE Grown(down[d], down'[d], Subframe(p, d))
      <3>1. down'[d] \in Seq(Frame) /\ Subframe(p, d) \in Frame
        BY <1>2, <1>3
      <3> QED BY <2>0, <3>1, <2>2, <1>9, Hears
    <2> QED BY <1>3, <2>1, <2>2
  <1>11. ASSUME NEW c \in sTarget PROVE TargetInv(c)'
    <2> DEFINE f == Subframe(p, c)
    <2>0. c \in Child /\ TargetInv(c) /\ down[c] \in Seq(Frame) /\ down'[c] \in Seq(Frame) /\ f \in Frame
      BY <1>0, <1>2, <1>3 DEF IInv, TypeOK, LinkType
    <2>u. UNCHANGED <<sState, sTarget, sN, sAck, sPos, sRemain, tr, rState, rPhase, rN, rPos,
                      rRemain, rInfo, rBuf, up>>
      BY <1>1 DEF receiver
    <2>f. /\ f[1] = CASE sState = "ctl" -> 1 [] sState = "data" -> 2 [] sState = "end" -> 3 [] OTHER -> 0
          /\ f[2] = p
          /\ sState \in {"ctl", "data"} => f[4][1] = tr /\ f[4][2] = sPos[p]
      BY <1>8
    <2>g. /\ \A k \in 1..Len(down'[c]) : (k \in 1..Len(down[c]) /\ down'[c][k] = down[c][k])
                                           \/ down'[c][k] = f
          /\ \A K : Kinds(down[c], K) /\ f[1] \in K => Kinds(down[c], K)'
          /\ \A K, L : After(down[c], K, L) /\ (f[1] \in L \/ \A x \in K : ~Has(down[c], x))
                         => After(down[c], K, L)'
      <3>1. CASE down'[c] = down[c]
        BY <3>1 DEF Kinds, After
      <3>2. CASE Grown(down[c], down'[c], f)
        BY <3>2, <2>0, GrownFacts
      <3> QED BY <1>3, <2>0, <3>1, <3>2
    <2> HIDE DEF f
    <2>1. ASSUME sState = "ctl" PROVE CtlInv(c)'
      <3>1. CtlInv(c) /\ f[1] = 1 /\ f[4][1] = tr
        BY <2>0, <2>1, <2>f DEF TargetInv
      <3>2. f[2] = 0
        BY <2>1, <2>f, <1>0, <1>1 DEF NextPhase, SendInv
      <3>3. /\ rState[c] = "ctl" => Kinds(down[c], {1})'
            /\ Kinds(down[c], {0, 1, 3, 4})' /\ After(down[c], {1}, {1})'
        BY <3>1, <2>g DEF CtlInv
      <3>4. ASSUME NEW k \in 1..Len(down'[c]), down'[c][k][1] = 1
            PROVE  down'[c][k][2] = 0 /\ down'[c][k][4][1] = tr
        BY <3>1, <3>2, <3>4, <2>g DEF CtlInv
      <3>5. \A k \in 1..Len(up'[c]) : up'[c][k][1] # 2 /\ (up'[c][k][1] = 1 => up'[c][k][2] = 0)
        BY <3>1, <2>u DEF CtlInv
      <3> QED BY <3>1, <3>3, <3>4, <3>5, <2>u DEF CtlInv
    <2>2. ASSUME sState = "data" PROVE DatInv(c)'
      <3>1. DatInv(c) /\ f[1] = 2 /\ f[4][1] = tr /\ f[4][2] = sPos[p] /\ f[2] = p
        BY <2>0, <2>2, <2>f DEF TargetInv
      <3>2. /\ rState[c] = "ctl" => Kinds(down[c], {1, 2})'
            /\ rState[c] = "data" => Kinds(down[c], {2})'
            /\ Started(c) \/ Has(up[c], 2) => Kinds(down[c], {2})'
            /\ After(down[c], {1}, {1, 2})' /\ After(down[c], {2}, {2})'
        BY <3>1, <2>g DEF DatInv
      <3>3. ASSUME NEW k \in 1..Len(down'[c]), down'[c][k][1] \in {1, 2}
            PROVE  /\ down'[c][k][4][1] = tr
                   /\ down'[c][k][1] = 2 => down'[c][k][4][2] <= sPos[down'[c][k][2]]
        <4>1. CASE k \in 1..Len(down[c]) /\ down'[c][k] = down[c][k]
          BY <3>1, <3>3, <4>1 DEF DatInv
        <4>2. CASE down'[c][k] = f
          BY <3>1, <4>2, <1>t
        <4> QED BY <2>g, <4>1, <4>2
      <3>4. Started(c)' = Started(c) /\ Has(up[c], 2)' = Has(up[c], 2)
            /\ Kinds(up[c], {2})' = Kinds(up[c], {2}) /\ After(up[c], {2}, {2})' = After(up[c], {2}, {2})
        BY <2>u DEF Started, Has, Kinds, After
      <3> QED BY <3>1, <3>2, <3>3, <3>4, <2>u DEF DatInv
    <2>3. ASSUME sState = "data", NEW q \in Phase PROVE SyncInv(c, q)'
      <3>1. Got(c, q)' = Got(c, q) /\ \A i : Holds(c, tr, i)' = Holds(c, tr, i)
        BY <2>u DEF Got, Holds
      <3>2. SyncInv(c, q)
        BY <2>0, <2>3 DEF TargetInv
      <3> QED BY <3>1, <3>2, <2>u DEF SyncInv
    <2>4. ASSUME sState = "end" PROVE EndInv(c)'
      <3>1. EndInv(c) /\ f[1] = 3
        BY <2>0, <2>4, <2>f DEF TargetInv
      <3>2. /\ rState[c] = "end" => Kinds(down[c], {3})'
            /\ Has(up[c], 3) => Kinds(down[c], {3})'
            /\ \A q \in Phase : c \in sAck[q] => Kinds(down[c], {3})'
            /\ Kinds(down[c], {2, 3})' /\ After(down[c], {3}, {3})'
        BY <3>1, <2>g DEF EndInv
      <3>3. /\ HasAll(c, tr)' = HasAll(c, tr) /\ Has(up[c], 3)' = Has(up[c], 3)
            /\ Kinds(up[c], {3})' = Kinds(up[c], {3}) /\ Kinds(up[c], {2, 3})' = Kinds(up[c], {2, 3})
            /\ After(up[c], {3}, {3})' = After(up[c], {3}, {3})
        BY <2>u DEF HasAll, Holds, Has, Kinds, After
      <3> QED BY <3>1, <3>2, <3>3, <2>u DEF EndInv
    <2>5. ASSUME sState = "acked" PROVE Quiet(c)'
      <3>1. Quiet(c) /\ f[1] = 0
        BY <2>0, <2>5, <2>f DEF TargetInv
      <3> QED BY <3>1, <2>g, <2>u, SMTT(30) DEF Quiet
    <2> QED BY <2>1, <2>2, <2>3, <2>4, <2>5, <2>u, <1>1 DEF TargetInv
  <1> QED BY <1>1, <1>4, <1>5, <1>6, <1>10, <1>11 DEF IInv, ChildInv

-----------------------------------------------------------------------------
(* A child takes the first frame of its queue.                             *)

\* Child c hears the first frame under way, which may come again.
Heard(c) ==
  /\ down[c] \in Seq(Frame) /\ down'[c] \in Seq(Frame) /\ Len(down[c]) > 0
  /\ Shifted(down[c], down'[c])
  /\ UNCHANGED <<sender, ready, tr, up, gaveUp>>

\* What child c knows of the first frame under way, and of the frames behind it.
LEMMA HeardFacts ==
  ASSUME IInv, NEW c \in Child, Heard(c)
  PROVE  /\ 1 \in 1..Len(down[c]) /\ down[c][1] \in Frame
         /\ \A k \in 1..Len(down'[c]) : \E m \in 1..Len(down[c]) : down'[c][k] = down[c][m]
         /\ \A k, l \in 1..Len(down'[c]) : k < l =>
              \E m, n \in 1..Len(down[c]) : m < n /\ down'[c][k] = down[c][m] /\ down'[c][l] = down[c][n]
         /\ \A K : Kinds(down[c], K) => Kinds(down[c], K)'
         /\ \A K, L : After(down[c], K, L) => After(down[c], K, L)'
         /\ \A x : Has(down[c], x)' => Has(down[c], x)
         /\ \A K, L : After(down[c], K, L) /\ down[c][1][1] \in K /\ down[c][1][1] \in L => Kinds(down[c], L)
         /\ Has(down[c], down[c][1][1])
         /\ Ordered(c)' /\ OneBlock(c)'
         /\ (rState'[c] = "ctl" => rState[c] = "ctl" \/ Has(down[c], 1)) => DataFrames(c)'
  <1>0. QueueInv(c) /\ down[c] \in Seq(Frame) /\ down'[c] \in Seq(Frame) /\ Shifted(down[c], down'[c])
        /\ tr' = tr
    BY DEF IInv, ChildInv, ChildOf, Heard
  <1>1. 1 \in 1..Len(down[c]) /\ down[c][1] \in Frame /\ Len(down[c]) \in Nat
    BY DEF Heard
  <1>2. /\ \A k \in 1..Len(down'[c]) : \E m \in 1..Len(down[c]) : down'[c][k] = down[c][m]
        /\ \A k, l \in 1..Len(down'[c]) : k < l =>
             \E m, n \in 1..Len(down[c]) : m < n /\ down'[c][k] = down[c][m] /\ down'[c][l] = down[c][n]
        /\ \A K : Kinds(down[c], K) => Kinds(down[c], K)'
        /\ \A K, L : After(down[c], K, L) => After(down[c], K, L)'
        /\ \A x : Has(down[c], x)' => Has(down[c], x)
    BY <1>0, ShiftedFacts
  <1>3. ASSUME NEW K, NEW L, After(down[c], K, L), down[c][1][1] \in K, down[c][1][1] \in L
        PROVE  Kinds(down[c], L)
    BY <1>1, <1>3 DEF After, Kinds
  <1>4. Has(down[c], down[c][1][1])
    BY <1>1 DEF Has
  <1>5. Ordered(c)'
    BY <1>0, <1>2 DEF QueueInv, Ordered
  <1>6. OneBlock(c)'
    <2>0. OneBlock(c)
      BY <1>0 DEF QueueInv
    <2>1. ASSUME NEW k \in 1..Len(down'[c]), down'[c][k][1] \in {1, 2} PROVE down'[c][k][4][1] \in 1..tr
      BY <2>0, <2>1, <1>2 DEF OneBlock
    <2>2. ASSUME NEW k \in 1..Len(down'[c]), NEW l \in 1..Len(down'[c]),
                 down'[c][k][1] \in {1, 2}, down'[c][l][1] \in {1, 2}
          PROVE  down'[c][k][4][1] = down'[c][l][4][1]
      <3>1. PICK m \in 1..Len(down[c]) : down'[c][k] = down[c][m]
        BY <1>2
      <3>2. PICK n \in 1..Len(down[c]) : down'[c][l] = down[c][n]
        BY <1>2
      <3> QED BY <2>0, <2>2, <3>1, <3>2 DEF OneBlock
    <2> QED BY <2>1, <2>2, <1>0 DEF OneBlock
  <1>7. ASSUME rState'[c] = "ctl" => rState[c] = "ctl" \/ Has(down[c], 1) PROVE DataFrames(c)'
    <2>0. DataFrames(c)
      BY <1>0 DEF QueueInv
    <2>1. SUFFICES ASSUME NEW k \in 1..Len(down'[c]), down'[c][k][1] = 2
                   PROVE  /\ Numbered(down'[c][k][2], down'[c][k][4][2], down'[c][k][3])
                          /\ down'[c][k][4][2] < Sizes[down'[c][k][4][1]]
                          /\ rState'[c] = "ctl" \/ Has(down[c], 1)' => down'[c][k][4][2] = down'[c][k][2]
      BY DEF DataFrames
    <2>2. PICK m \in 1..Len(down[c]) : down'[c][k] = down[c][m]
      BY <1>2
    <2>3. Has(down[c], 1)' => Has(down[c], 1)
      BY <1>2
    <2> QED BY <1>7, <2>0, <2>1, <2>2, <2>3 DEF DataFrames
  <1> QED BY <1>1, <1>2, <1>3, <1>4, <1>5, <1>6, <1>7

\* The slot keeps its state, or is done with the block.
SlotKept(c) ==
  /\ rState'[c] = rState[c] \/ rState'[c] \in {"ok", "failed"}
  /\ rN'[c] = rN[c] /\ rPos'[c] = rPos[c] /\ rRemain'[c] = rRemain[c]
  /\ rInfo'[c] = rInfo[c] /\ rBuf'[c] = rBuf[c]

\* A frame that says nothing new, or ends the reception: the invariant of the child.
LEMMA KeptChild ==
  ASSUME IInv, NEW c \in Child, Heard(c), SlotKept(c)
  PROVE  ChildOf(c)'
  <1>0. ChildOf(c) /\ tr' = tr
    BY DEF IInv, ChildInv, Heard
  <1>1. QueueInv(c)'
    BY HeardFacts DEF SlotKept, QueueInv
  <1>2. SlotInv(c)'
    <2>1. SlotInv(c)
      BY <1>0 DEF ChildOf
    <2>2. HasAll(c, rInfo[c])' = HasAll(c, rInfo[c])
      BY DEF SlotKept, HasAll, Holds
    <2>3. /\ Kinds(down[c], {0, 1, 2, 4}) => Kinds(down[c], {0, 1, 2, 4})'
          /\ Kinds(down[c], {0, 2, 3, 4}) => Kinds(down[c], {0, 2, 3, 4})'
          /\ \A k \in 1..Len(down'[c]) : \E m \in 1..Len(down[c]) : down'[c][k] = down[c][m]
      BY HeardFacts
    <2> QED BY <1>0, <2>1, <2>2, <2>3 DEF SlotKept, SlotInv
  <1>3. DataInv(c)'
    <2> SUFFICES ASSUME rState'[c] = "data"
                 PROVE  Fits(c)' /\ Stored(c)' /\ InTurn(c)' /\ (Has(down[c], 3)' => HasAll(c, rInfo[c])')
      BY DEF DataInv
    <2>1. Fits(c) /\ Stored(c) /\ InTurn(c) /\ (Has(down[c], 3) => HasAll(c, rInfo[c]))
      BY <1>0 DEF ChildOf, DataInv, SlotKept
    <2>2. HasAll(c, rInfo[c])' = HasAll(c, rInfo[c]) /\ Fits(c)' = Fits(c)
          /\ \A i : Holds(c, rInfo[c], i)' = Holds(c, rInfo[c], i)
      BY DEF SlotKept, HasAll, Holds, Fits
    <2>3. Has(down[c], 3)' => Has(down[c], 3)
      BY HeardFacts
    <2>4. Stored(c)'
      BY <2>1, <2>2 DEF Stored, SlotKept
    <2>5. InTurn(c)'
      <3>1. /\ \A k \in 1..Len(down'[c]) : \E m \in 1..Len(down[c]) : down'[c][k] = down[c][m]
            /\ \A k, l \in 1..Len(down'[c]) : k < l =>
                 \E m, n \in 1..Len(down[c]) : m < n /\ down'[c][k] = down[c][m] /\ down'[c][l] = down[c][n]
        BY HeardFacts
      <3>2. ASSUME NEW k \in 1..Len(down'[c]), down'[c][k][1] = 2
            PROVE  \/ down'[c][k][4][2] = rPos[c][down'[c][k][2]]
                   \/ down'[c][k][4][2] + W = rPos[c][down'[c][k][2]]
        <4>1. PICK m \in 1..Len(down[c]) : down'[c][k] = down[c][m]
          BY <3>1
        <4> QED BY <2>1, <3>2, <4>1 DEF InTurn
      <3>3. ASSUME NEW k \in 1..Len(down'[c]), NEW l \in 1..Len(down'[c]), k < l,
                   down'[c][k][1] = 2, down'[c][l][1] = 2, down'[c][k][2] = down'[c][l][2],
                   down'[c][k][4][2] = rPos[c][down'[c][k][2]]
            PROVE  down'[c][l][4][2] = rPos[c][down'[c][k][2]]
        <4>1. PICK m \in 1..Len(down[c]), n \in 1..Len(down[c]) :
                m < n /\ down'[c][k] = down[c][m] /\ down'[c][l] = down[c][n]
          BY <3>1, <3>3
        <4> QED BY <2>1, <3>3, <4>1 DEF InTurn
      <3> QED BY <3>2, <3>3 DEF InTurn, SlotKept
    <2> QED BY <2>1, <2>2, <2>3, <2>4, <2>5
  <1> QED BY <1>1, <1>2, <1>3 DEF ChildOf

\* The same for what relates the child to the parent.
LEMMA KeptTarget ==
  ASSUME IInv, NEW c \in sTarget, Heard(c), SlotKept(c),
         sState = "ctl" /\ rState'[c] = "ctl" => rPhase'[c] = 0
  PROVE  TargetInv(c)'
  <1>0. c \in Child /\ TargetInv(c)
    BY DEF IInv, TypeOK
  <1>u. UNCHANGED <<sState, sTarget, sN, sAck, sPos, sRemain, tr, up>>
    BY DEF Heard, sender
  <1>h. /\ \A k \in 1..Len(down'[c]) : \E m \in 1..Len(down[c]) : down'[c][k] = down[c][m]
        /\ \A K : Kinds(down[c], K) => Kinds(down[c], K)'
        /\ \A K, L : After(down[c], K, L) => After(down[c], K, L)'
    BY <1>0, HeardFacts
  <1>s. /\ rState'[c] = rState[c] \/ rState'[c] \in {"ok", "failed"}
        /\ rInfo'[c] = rInfo[c] /\ rPos'[c] = rPos[c]
        /\ \A i : Holds(c, tr, i)' = Holds(c, tr, i)
    BY <1>u DEF SlotKept, Holds
  <1>k. /\ \A K : Kinds(up[c], K)' = Kinds(up[c], K)
        /\ \A K, L : After(up[c], K, L)' = After(up[c], K, L)
        /\ \A x : Has(up[c], x)' = Has(up[c], x)
    BY <1>u DEF Kinds, After, Has
  <1>1. ASSUME sState = "ctl", CtlInv(c) PROVE CtlInv(c)'
    <2>1. \A k \in 1..Len(down'[c]) : down'[c][k][1] = 1 => down'[c][k][2] = 0 /\ down'[c][k][4][1] = tr
      BY <1>1, <1>h DEF CtlInv
    <2>2. \A k \in 1..Len(up'[c]) : up'[c][k][1] # 2 /\ (up'[c][k][1] = 1 => up'[c][k][2] = 0)
      BY <1>1, <1>u DEF CtlInv
    <2> QED BY <2>1, <2>2, <1>1, <1>h, <1>u, <1>s DEF CtlInv
  <1>2. ASSUME DatInv(c) PROVE DatInv(c)'
    <2>1. \A k \in 1..Len(down'[c]) : down'[c][k][1] \in {1, 2} => down'[c][k][4][1] = tr
      BY <1>2, <1>h DEF DatInv
    <2>2. \A k \in 1..Len(down'[c]) : down'[c][k][1] = 2 => down'[c][k][4][2] <= sPos[down'[c][k][2]]
      BY <1>2, <1>h DEF DatInv
    <2>3. Started(c)' = Started(c)
      BY <1>u DEF Started
    <2> QED BY <1>2, <2>1, <2>2, <2>3, <1>h, <1>u, <1>s, <1>k DEF DatInv
  <1>3. ASSUME NEW p \in Phase, SyncInv(c, p) PROVE SyncInv(c, p)'
    <2>1. Got(c, p)' = Got(c, p)
      BY <1>s, <1>u DEF Got
    <2> QED BY <1>3, <2>1, <1>u, <1>s DEF SyncInv
  <1>4. ASSUME EndInv(c) PROVE EndInv(c)'
    <2>1. HasAll(c, tr)' = HasAll(c, tr)
      BY <1>s, <1>u DEF HasAll
    <2> QED BY <1>4, <2>1, <1>h, <1>u, <1>s, <1>k DEF EndInv
  <1>5. Quiet(c) => Quiet(c)'
    BY <1>h, <1>u, <1>s DEF Quiet
  <1> QED BY <1>0, <1>1, <1>2, <1>3, <1>4, <1>5, <1>u DEF TargetInv

\* A control block.
LEMMA ControlChild ==
  ASSUME IInv, NEW c \in Child, Heard(c), RecvControl(c, down[c][1])
  PROVE  ChildOf(c)' /\ (c \in sTarget => TargetInv(c)')
  <1> DEFINE f == down[c][1]
  <1>0. TypeOK /\ ChildOf(c) /\ tr' = tr
    BY DEF IInv, ChildInv, Heard
  <1>1. /\ f[1] = 1 /\ rState[c] \in {"none", "ctl"} /\ rState'[c] = "ctl" /\ rPhase'[c] = f[2]
        /\ rBuf' = rBuf
        /\ rInfo'[c] = f[4][1] \/ (rInfo'[c] = rInfo[c] /\ (rState[c] = "none" => rRemain'[c] = CtlLen)
                                    /\ (rState[c] = "ctl" => rRemain'[c] = rRemain[c]))
    BY <1>0 DEF RecvControl, TypeOK
  <1>h. /\ 1 \in 1..Len(down[c]) /\ f \in Frame /\ Has(down[c], 1)
        /\ \A k \in 1..Len(down'[c]) : \E m \in 1..Len(down[c]) : down'[c][k] = down[c][m]
        /\ \A K : Kinds(down[c], K) => Kinds(down[c], K)'
        /\ \A K, L : After(down[c], K, L) => After(down[c], K, L)'
        /\ \A L : After(down[c], {1}, L) /\ 1 \in L => Kinds(down[c], L)
        /\ QueueInv(c)'
    BY <1>1, HeardFacts DEF QueueInv
  <1>b. f[4][1] \in 1..tr /\ \A k \in 1..Len(down[c]) : down[c][k][1] \in {1, 2} => down[c][k][4][1] = f[4][1]
    BY <1>0, <1>1, <1>h DEF ChildOf, QueueInv, OneBlock
  <1>t. tr \in Nat /\ f[4][1] \in 0..tr /\ f[4][1] # 0
    <2>1. tr \in Nat
      BY <1>0, NIAssumption DEF TypeOK
    <2> QED BY <1>b, <2>1
  <1> HIDE DEF f
  <1>2. SlotInv(c)'
    <2>0. SlotInv(c)
      BY <1>0 DEF ChildOf
    <2>1. Kinds(down[c], {0, 1, 2, 4})'
      <3>1. After(down[c], {1}, {0, 1, 2, 4})
        BY <1>0 DEF ChildOf, QueueInv, Ordered
      <3> QED BY <3>1, <1>h
    <2>2. rInfo'[c] \in 0..tr /\ (rInfo'[c] # 0 \/ rRemain'[c] = CtlLen)
      BY <2>0, <1>1, <1>t DEF SlotInv
    <2>3. ASSUME rInfo'[c] # 0, NEW k \in 1..Len(down[c]), down[c][k][1] \in {1, 2}
          PROVE  down[c][k][4][1] = rInfo'[c]
      BY <2>0, <2>3, <1>1, <1>b DEF SlotInv
    <2>4. ASSUME rInfo'[c] # 0, NEW k \in 1..Len(down'[c]), down'[c][k][1] \in {1, 2}
          PROVE  down'[c][k][4][1] = rInfo'[c]
      BY <2>3, <2>4, <1>h
    <2> QED BY <1>0, <1>1, <2>1, <2>2, <2>4 DEF SlotInv
  <1>3. DataInv(c)'
    BY <1>1 DEF DataInv
  <1>4. ASSUME c \in sTarget PROVE TargetInv(c)'
    <2>0. TargetInv(c)
      BY <1>4 DEF IInv
    <2>u. UNCHANGED <<sState, sTarget, sN, sAck, sPos, sRemain, tr, up>>
      BY DEF Heard, sender
    <2>i. rState[c] = "none" => rInfo[c] = 0
      BY <1>0 DEF ChildOf, SlotInv
    <2>1. ASSUME sState = "ctl" PROVE CtlInv(c)'
      <3>0. CtlInv(c)
        BY <2>0, <2>1 DEF TargetInv
      <3>1. f[2] = 0 /\ f[4][1] = tr
        BY <3>0, <1>1, <1>h DEF CtlInv, f
      <3>2. rPhase'[c] = 0 /\ rInfo'[c] \in {0, tr}
        BY <3>0, <3>1, <1>1, <2>i DEF CtlInv
      <3>3. Kinds(down[c], {1})' /\ Kinds(down[c], {0, 1, 3, 4})' /\ After(down[c], {1}, {1})'
        BY <3>0, <1>h DEF CtlInv
      <3>4. \A k \in 1..Len(down'[c]) : down'[c][k][1] = 1 => down'[c][k][2] = 0 /\ down'[c][k][4][1] = tr
        BY <3>0, <1>h DEF CtlInv
      <3>5. \A k \in 1..Len(up'[c]) : up'[c][k][1] # 2 /\ (up'[c][k][1] = 1 => up'[c][k][2] = 0)
        BY <3>0, <2>u DEF CtlInv
      <3> QED BY <1>1, <2>u, <3>2, <3>3, <3>4, <3>5 DEF CtlInv
    <2>2. ASSUME sState = "data" PROVE DatInv(c)'
      <3>0. DatInv(c)
        BY <2>0, <2>2 DEF TargetInv
      <3>1. ~Started(c) /\ ~Has(up[c], 2)
        BY <3>0, <1>h, <1>1 DEF DatInv, Kinds, f
      <3>2. Started(c)' = Started(c) /\ Has(up[c], 2)' = Has(up[c], 2)
            /\ After(up[c], {2}, {2})' = After(up[c], {2}, {2})
        BY <2>u DEF Started, Has, After
      <3>3. rInfo'[c] \in {0, tr}
        <4>1. f[4][1] = tr
          BY <3>0, <1>1, <1>h DEF DatInv, f
        <4> QED BY <4>1, <3>0, <1>1, <2>i DEF DatInv
      <3>4. Kinds(down[c], {1, 2})' /\ After(down[c], {1}, {1, 2})' /\ After(down[c], {2}, {2})'
        BY <3>0, <1>h DEF DatInv
      <3>5. \A k \in 1..Len(down'[c]) : down'[c][k][1] \in {1, 2} => down'[c][k][4][1] = tr
        BY <3>0, <1>h DEF DatInv
      <3>6. \A k \in 1..Len(down'[c]) : down'[c][k][1] = 2 => down'[c][k][4][2] <= sPos[down'[c][k][2]]
        BY <3>0, <1>h DEF DatInv
      <3> QED BY <1>1, <2>u, <3>0, <3>1, <3>2, <3>3, <3>4, <3>5, <3>6 DEF DatInv
    <2>3. ASSUME sState = "data", NEW p \in Phase PROVE SyncInv(c, p)'
      <3>0. SyncInv(c, p) /\ DatInv(c)
        BY <2>0, <2>3 DEF TargetInv
      <3>1. ~Has(up[c], 2)
        BY <3>0, <1>h, <1>1 DEF DatInv, Kinds, f
      <3>2. \A k \in 1..Len(up'[c]) : up'[c][k][1] # 2
        BY <3>1, <2>u DEF Has
      <3>3. Got(c, p)' = Got(c, p) /\ \A i : Holds(c, tr, i)' = Holds(c, tr, i)
        BY <1>1, <2>u DEF Got, Holds
      <3> QED BY <3>0, <3>2, <3>3, <1>1, <2>u DEF SyncInv
    <2>4. sState # "end"
      BY <2>0, <1>1, <1>h DEF TargetInv, EndInv, Kinds, f
    <2>5. sState \notin {"acked", "ok"}
      BY <2>0, <1>1, <1>h DEF TargetInv, Quiet, f
    <2> QED BY <2>1, <2>2, <2>3, <2>4, <2>5, <2>u DEF TargetInv
  <1> QED BY <1>h, <1>2, <1>3, <1>4 DEF ChildOf

\* The end of a block.
LEMMA EndChild ==
  ASSUME IInv, NEW c \in Child, Heard(c), RecvEnd(c, down[c][1])
  PROVE  ChildOf(c)' /\ (c \in sTarget => TargetInv(c)')
  <1> DEFINE f == down[c][1]
  <1>0. TypeOK /\ ChildOf(c) /\ tr' = tr
    BY DEF IInv, ChildInv, Heard
  <1>1. /\ f[1] = 3 /\ rState[c] = "data" /\ rState'[c] = "end"
        /\ rBuf' = rBuf /\ rInfo' = rInfo /\ rPos' = rPos
    BY <1>0 DEF RecvEnd, TypeOK
  <1>h. /\ 1 \in 1..Len(down[c]) /\ Has(down[c], 3)
        /\ \A k \in 1..Len(down'[c]) : \E m \in 1..Len(down[c]) : down'[c][k] = down[c][m]
        /\ \A K : Kinds(down[c], K) => Kinds(down[c], K)'
        /\ \A K, L : After(down[c], K, L) => After(down[c], K, L)'
        /\ \A L : After(down[c], {3}, L) /\ 3 \in L => Kinds(down[c], L)
        /\ QueueInv(c)'
    BY <1>1, HeardFacts DEF QueueInv
  <1>a. HasAll(c, rInfo[c]) /\ HasAll(c, rInfo[c])' = HasAll(c, rInfo[c])
    BY <1>0, <1>1, <1>h DEF ChildOf, DataInv, HasAll, Holds
  <1>2. SlotInv(c)'
    BY <1>0, <1>1, <1>a DEF ChildOf, SlotInv
  <1>3. DataInv(c)'
    BY <1>1 DEF DataInv
  <1>4. ASSUME c \in sTarget PROVE TargetInv(c)'
    <2>0. TargetInv(c)
      BY <1>4 DEF IInv
    <2>u. UNCHANGED <<sState, sTarget, sN, sAck, sPos, sRemain, tr, up>>
      BY DEF Heard, sender
    <2>1. sState # "ctl" /\ sState \notin {"acked", "ok"}
      BY <2>0, <1>1 DEF TargetInv, CtlInv, Quiet
    <2>2. sState # "data"
      BY <2>0, <1>1, <1>h DEF TargetInv, DatInv, Kinds
    <2>4. ASSUME sState = "end" PROVE EndInv(c)'
      <3>0. EndInv(c)
        BY <2>0, <2>4 DEF TargetInv
      <3>1. HasAll(c, tr)' = HasAll(c, tr)
        BY <1>1, <2>u DEF HasAll, Holds
      <3>2. Kinds(down[c], {3})' /\ Kinds(down[c], {2, 3})' /\ After(down[c], {3}, {3})'
        BY <3>0, <1>h DEF EndInv
      <3>3. /\ \A K : Kinds(up[c], K)' = Kinds(up[c], K)
            /\ \A K, L : After(up[c], K, L)' = After(up[c], K, L)
            /\ \A x : Has(up[c], x)' = Has(up[c], x)
        BY <2>u DEF Kinds, After, Has
      <3> QED BY <3>0, <3>1, <3>2, <3>3, <1>1, <2>u DEF EndInv
    <2> QED BY <2>1, <2>2, <2>4, <2>u DEF TargetInv
  <1> QED BY <1>h, <1>2, <1>3, <1>4 DEF ChildOf

\* The first subframe of the data: it is the first of its phase, so that it
\* has the number a fresh slot expects.
LEMMA FirstData ==
  ASSUME IInv, NEW c \in Child, Heard(c), RecvData(c, down[c][1]), rState[c] = "ctl"
  PROVE  /\ ChildOf(c)' /\ (c \in sTarget => TargetInv(c)')
         /\ down[c][1][4] \in (0..Len(Sizes)) \X Place /\ down[c][1][4] = <<rInfo[c], down[c][1][2]>>
  <1> USE NIAssumption
  <1> DEFINE f == down[c][1]
             p == f[2]
  <1>0. TypeOK /\ ChildOf(c) /\ tr' = tr
    BY DEF IInv, ChildInv, Heard
  <1>1. /\ f[1] = 2 /\ rRemain[c] = 0 /\ Fits(c)
        /\ rState'[c] = "data" /\ rInfo' = rInfo
    BY <1>0 DEF RecvData, DataBegins, TypeOK
  <1>h. /\ 1 \in 1..Len(down[c]) /\ f \in Frame /\ Has(down[c], 2)
        /\ \A k \in 1..Len(down'[c]) : \E m \in 1..Len(down[c]) : down'[c][k] = down[c][m]
        /\ \A K : Kinds(down[c], K) => Kinds(down[c], K)'
        /\ \A K, L : After(down[c], K, L) => After(down[c], K, L)'
        /\ \A L : After(down[c], {2}, L) /\ 2 \in L => Kinds(down[c], L)
        /\ \A x : Has(down[c], x)' => Has(down[c], x)
        /\ QueueInv(c)'
    BY <1>1, HeardFacts DEF QueueInv
  <1>t. /\ p \in Phase /\ f[3] \in 0..3 /\ f[4] \in (0..Len(Sizes)) \X Nat /\ p \in Nat
        /\ f[4] = <<f[4][1], f[4][2]>>
    BY <1>h, SMTT(30) DEF Frame, Phase
  <1>i. /\ rInfo[c] # 0 /\ rInfo[c] \in 0..tr /\ rInfo[c] \in 1..Len(Sizes) /\ f[4][1] = rInfo[c]
        /\ Sizes[rInfo[c]] \in Nat
    <2>1. rInfo[c] # 0 /\ rInfo[c] \in 0..tr
      BY <1>0, <1>1 DEF ChildOf, SlotInv
    <2>2. rInfo[c] \in 1..Len(Sizes) /\ Len(Sizes) \in Nat
      BY <2>1, <1>0 DEF TypeOK
    <2>3. f[4][1] = rInfo[c]
      BY <2>1, <1>0, <1>1, <1>h DEF ChildOf, SlotInv
    <2>4. Sizes[rInfo[c]] \in Nat
      BY <2>2
    <2> QED BY <2>1, <2>2, <2>3, <2>4
  \* Every data subframe under way is the first of its phase.
  <1>f. \A k \in 1..Len(down[c]) : down[c][k][1] = 2 =>
          /\ down[c][k][4][2] = down[c][k][2] /\ down[c][k][2] \in Phase
    <2>1. \A k \in 1..Len(down[c]) : down[c][k] \in Frame
      BY DEF Heard
    <2>2. \A k \in 1..Len(down[c]) : down[c][k][2] \in Phase
      BY <2>1 DEF Frame
    <2> QED BY <1>0, <2>2 DEF ChildOf, QueueInv, DataFrames
  <1>n. f[4][2] = p /\ Numbered(p, p, f[3]) /\ p < Sizes[rInfo[c]] /\ f[3] = 1
    <2>1. f[4][2] = p
      BY <1>1, <1>f, <1>h
    <2>2. Numbered(p, p, f[3]) /\ p < Sizes[rInfo[c]]
      BY <2>1, <1>0, <1>1, <1>h, <1>i DEF ChildOf, QueueInv, DataFrames
    <2>3. Numbered(p, p, 1)
      BY <1>t, PhaseStart
    <2>4. f[3] = 1
      BY <2>2, <2>3, <1>t, NumberFacts, SMTT(30)
    <2> QED BY <2>1, <2>2, <2>4
  <1>p. p \in Place /\ f[4] = <<rInfo[c], p>>
    BY <1>n, <1>t, <1>i, <1>1, SMTT(30) DEF Fits, Place
  <1>2. /\ rN'[c] = [[q \in Phase |-> 0] EXCEPT ![p] = 1]
        /\ rPos'[c] = [[q \in Phase |-> q] EXCEPT ![p] = @ + W]
        /\ rBuf'[c] = [rBuf[c] EXCEPT ![p] = f[4]]
    <2>1. Expected(FirstNumbers(c)[p], f[3]) /\ [q \in Phase |-> q][p] = p
      BY <1>n, <1>t, BumpFacts DEF Expected, FirstNumbers
    <2>2. /\ rN' = [rN EXCEPT ![c] = [FirstNumbers(c) EXCEPT ![p] = f[3]]]
          /\ rPos' = [rPos EXCEPT ![c] = [[q \in Phase |-> q] EXCEPT ![p] = @ + W]]
          /\ rBuf' = [rBuf EXCEPT ![c] = [@ EXCEPT ![p] = f[4]]]
      BY <2>1 DEF RecvData
    <2>3. rN'[c] = [FirstNumbers(c) EXCEPT ![p] = f[3]]
      BY <2>2, <1>0 DEF TypeOK
    <2>4. rPos'[c] = [[q \in Phase |-> q] EXCEPT ![p] = @ + W]
      BY <2>2, <1>0 DEF TypeOK
    <2>5. rBuf'[c] = [rBuf[c] EXCEPT ![p] = f[4]]
      BY <2>2, <1>0 DEF TypeOK
    <2> QED BY <2>3, <2>4, <2>5, <1>n DEF FirstNumbers
  <1>3. /\ \A q \in Phase \ {p} : rPos'[c][q] = q /\ rN'[c][q] = 0
        /\ rPos'[c][p] = p + W /\ rN'[c][p] = 1
        /\ \A i \in Place : Holds(c, rInfo[c], i) => rBuf'[c][i] = <<rInfo[c], i>>
        /\ rBuf'[c][p] = <<rInfo[c], p>>
    <2>1. rBuf[c] \in [Place -> (0..Len(Sizes)) \X Place]
      BY <1>0 DEF TypeOK
    <2> HIDE DEF f, p
    <2>2. /\ \A q \in Phase \ {p} : rPos'[c][q] = q /\ rN'[c][q] = 0
          /\ rPos'[c][p] = p + W /\ rN'[c][p] = 1
      BY <1>2, <1>t
    <2>3. \A i \in Place : rBuf'[c][i] = IF i = p THEN <<rInfo[c], p>> ELSE rBuf[c][i]
      BY <1>2, <1>p, <2>1
    <2> QED BY <2>2, <2>3, <1>p DEF Holds
  <1> HIDE DEF f, p
  <1>4. SlotInv(c)'
    <2>1. Kinds(down[c], {0, 2, 3, 4})'
      <3>1. After(down[c], {2}, {0, 2, 3, 4})
        BY <1>0 DEF ChildOf, QueueInv, Ordered
      <3> QED BY <3>1, <1>h
    <2>2. \A k \in 1..Len(down'[c]) : down'[c][k][1] \in {1, 2} => down'[c][k][4][1] = rInfo[c]
      BY <1>0, <1>h, <1>i, SMTT(30) DEF ChildOf, SlotInv
    <2> QED BY <2>1, <2>2, <1>0, <1>1, <1>i DEF SlotInv
  <1>5. DataInv(c)'
    <2>1. Fits(c)'
      BY <1>1 DEF Fits
    <2>2. Stored(c)'
      <3>a. \A i : i \in Nat /\ i < Sizes[rInfo[c]] => i \in Place
        BY <1>1, <1>i DEF Fits, Place
      <3>b. \A q \in Phase : rPos'[c][q] \in Nat
        BY <1>3, <1>t, SMTT(30) DEF Phase
      <3> SUFFICES ASSUME NEW q \in Phase
                   PROVE  /\ Numbered(q, rPos'[c][q], Bump(rN'[c][q]))
                          /\ \A i \in 0..rPos'[c][q] : OfPhase(q, i) /\ i < rPos'[c][q] =>
                               i < Sizes[rInfo[c]] /\ rBuf'[c][i] = <<rInfo[c], i>>
        BY <1>1, <3>a, <3>b DEF Stored, Holds
      <3>0. q \in Nat /\ Numbered(q, q, 1) /\ OfPhase(q, q) /\ Bump(0) = 1 /\ W \in Nat \ {0}
        BY PhaseStart, BumpFacts
      <3>1. CASE q # p
        <4>1. ASSUME NEW i \in 0..q, OfPhase(q, i) PROVE ~(i < q)
          BY <4>1, <3>0, PhaseFacts
        <4> QED BY <3>1, <4>1, <3>0, <1>3
      <3>2. CASE q = p
        <4>1. Numbered(p, p + W, Bump(1))
          BY <3>0, <3>2, NumberFacts
        <4>2. ASSUME NEW i \in 0..p + W, OfPhase(p, i), i < p + W PROVE i = p
          <5>1. i \in Nat /\ ~(p < i)
            BY <4>2, <3>0, <3>2, PhaseFacts
          <5>2. i >= p
            BY <5>1, <4>2, <3>2, PhaseFacts
          <5> QED BY <5>1, <5>2, <1>t
        <4>3. \A i \in 0..rPos'[c][p] : OfPhase(p, i) /\ i < rPos'[c][p] =>
                               i < Sizes[rInfo[c]] /\ rBuf'[c][i] = <<rInfo[c], i>>
          BY <4>2, <1>3, <1>n
        <4> QED BY <3>2, <4>1, <4>3, <1>3
      <3> QED BY <3>1, <3>2
    <2>3. InTurn(c)'
      <3>1. \A k \in 1..Len(down'[c]) : down'[c][k][1] = 2 =>
              down'[c][k][4][2] = down'[c][k][2] /\ down'[c][k][2] \in Phase
        BY <1>f, <1>h
      <3>2. \A q \in Phase : q \in Nat /\ W \in Nat \ {0} /\ (q = rPos'[c][q] \/ (q = p /\ q + W = rPos'[c][q]))
        BY <1>3 DEF Phase
      <3>3. ASSUME NEW k \in 1..Len(down'[c]), down'[c][k][1] = 2
            PROVE  \/ down'[c][k][4][2] = rPos'[c][down'[c][k][2]]
                   \/ down'[c][k][4][2] + W = rPos'[c][down'[c][k][2]]
        BY <3>1, <3>2, <3>3
      <3>4. ASSUME NEW k \in 1..Len(down'[c]), NEW l \in 1..Len(down'[c]), k < l,
                   down'[c][k][1] = 2, down'[c][l][1] = 2, down'[c][k][2] = down'[c][l][2],
                   down'[c][k][4][2] = rPos'[c][down'[c][k][2]]
            PROVE  down'[c][l][4][2] = rPos'[c][down'[c][k][2]]
        BY <3>1, <3>4
      <3> QED BY <3>3, <3>4 DEF InTurn
    <2>4. ~Has(down[c], 3)'
      <3>1. ~Has(down[c], 3)
        <4>1. Kinds(down[c], {0, 1, 2, 4})
          BY <1>0 DEF ChildOf, SlotInv
        <4> QED BY <4>1 DEF Kinds, Has
      <3> QED BY <3>1, <1>h
    <2> QED BY <2>1, <2>2, <2>3, <2>4 DEF DataInv
  <1>6. ASSUME c \in sTarget PROVE TargetInv(c)'
    <2>0. TargetInv(c)
      BY <1>6 DEF IInv
    <2>u. UNCHANGED <<sState, sTarget, sN, sAck, sPos, sRemain, tr, up>>
      BY DEF Heard, sender
    <2>1. sState # "ctl"
      BY <2>0, <1>1, <1>h DEF TargetInv, CtlInv, Kinds, f
    <2>2. sState \notin {"end", "acked", "ok"}
      BY <2>0 DEF TargetInv, EndInv, Quiet
    <2>3. ASSUME sState = "data" PROVE DatInv(c)' /\ \A q \in Phase : SyncInv(c, q)'
      <3>0. DatInv(c)
        BY <2>0, <2>3 DEF TargetInv
      <3>1. ~Started(c) /\ ~Has(up[c], 2) /\ rInfo[c] = tr
        BY <3>0, <1>i DEF DatInv
      <3>2. Started(c)' = Started(c) /\ Has(up[c], 2)' = Has(up[c], 2)
            /\ After(up[c], {2}, {2})' = After(up[c], {2}, {2})
        BY <2>u DEF Started, Has, After
      <3>3. Kinds(down[c], {2})' /\ After(down[c], {1}, {1, 2})' /\ After(down[c], {2}, {2})'
        BY <3>0, <1>h DEF DatInv
      <3>4. \A k \in 1..Len(down'[c]) : down'[c][k][1] \in {1, 2} => down'[c][k][4][1] = tr
        BY <3>0, <1>h DEF DatInv
      <3>5. \A k \in 1..Len(down'[c]) : down'[c][k][1] = 2 => down'[c][k][4][2] <= sPos[down'[c][k][2]]
        BY <3>0, <1>h DEF DatInv
      <3>6. DatInv(c)'
        BY <1>1, <2>u, <3>0, <3>1, <3>2, <3>3, <3>4, <3>5 DEF DatInv
      <3>7. ASSUME NEW q \in Phase PROVE SyncInv(c, q)'
        <4>1. sPos[q] = q /\ c \notin sAck[q]
          BY <3>1 DEF Started
        <4>2. \A k \in 1..Len(up'[c]) : up'[c][k][1] # 2
          BY <3>1, <2>u DEF Has
        <4>3. \A i \in 0..Sizes[tr] - 1 : OfPhase(q, i) => ~(i < q)
          <5>1. \A i \in 0..Sizes[tr] - 1 : i \in Nat
            BY <3>1, <1>i
          <5>2. q \in Nat
            BY DEF Phase
          <5> QED BY <5>1, <5>2, PhaseFacts
        <4>4. rPos'[c][q] = q \/ rPos'[c][q] = q + W
          BY <1>3
        <4> QED BY <4>1, <4>2, <4>3, <4>4, <2>u DEF SyncInv
      <3> QED BY <3>6, <3>7
    <2> QED BY <2>1, <2>2, <2>3, <2>u DEF TargetInv
  <1> QED BY <1>h, <1>4, <1>5, <1>6, <1>p, <1>i DEF ChildOf, f, p

\* A later subframe: it is taken exactly when it is the one the slot waits for,
\* because the number before the expected one is that of the subframe before.
LEMMA LaterData ==
  ASSUME IInv, NEW c \in Child, Heard(c), RecvData(c, down[c][1]), rState[c] = "data"
  PROVE  /\ ChildOf(c)' /\ (c \in sTarget => TargetInv(c)')
         /\ rBuf' = rBuf \/ ( /\ down[c][1][4] \in (0..Len(Sizes)) \X Place
                              /\ down[c][1][4] = <<rInfo[c], rPos[c][down[c][1][2]]>> )
  <1> DEFINE f == down[c][1]
             p == f[2]
             pos == rPos[c][p]
  <1>0. TypeOK /\ ChildOf(c) /\ tr' = tr
    BY DEF IInv, ChildInv, Heard
  <1>1. f[1] = 2 /\ rState'[c] = "data" /\ rInfo' = rInfo /\ rPhase'[c] = p
    BY <1>0 DEF RecvData, TypeOK
  <1>h. 1 \in 1..Len(down[c]) /\ f \in Frame
    BY HeardFacts
  <1>e. /\ \A k \in 1..Len(down'[c]) : \E m \in 1..Len(down[c]) : down'[c][k] = down[c][m]
        /\ \A k, l \in 1..Len(down'[c]) : k < l =>
             \E m, n \in 1..Len(down[c]) : m < n /\ down'[c][k] = down[c][m] /\ down'[c][l] = down[c][n]
    BY HeardFacts
  <1>k. /\ \A K : Kinds(down[c], K) => Kinds(down[c], K)'
        /\ \A K, L : After(down[c], K, L) => After(down[c], K, L)'
        /\ \A x : Has(down[c], x)' => Has(down[c], x)
    BY HeardFacts
  <1>q. QueueInv(c)'
    BY <1>1, HeardFacts DEF QueueInv
  <1>t. /\ p \in Phase /\ f[3] \in 0..3 /\ f[4] \in (0..Len(Sizes)) \X Nat
        /\ f[4] = <<f[4][1], f[4][2]>> /\ f[4][2] \in Nat
        /\ pos \in Nat /\ rN[c][p] \in 0..3 /\ W \in Nat \ {0}
    <2>1. p \in Phase /\ f[3] \in 0..3 /\ f[4] \in (0..Len(Sizes)) \X Nat
      BY <1>h DEF Frame
    <2>2. f[4] = <<f[4][1], f[4][2]>> /\ f[4][2] \in Nat
      BY <2>1
    <2>3. rPos[c] \in [Phase -> Nat] /\ rN[c] \in [Phase -> 0..3]
      BY <1>0 DEF TypeOK
    <2> QED BY <2>1, <2>2, <2>3, NIAssumption
  <1>s. SlotInv(c) /\ Fits(c) /\ Stored(c) /\ InTurn(c) /\ (Has(down[c], 3) => HasAll(c, rInfo[c]))
        /\ QueueInv(c)
    BY <1>0 DEF ChildOf, DataInv
  <1>i. /\ rInfo[c] # 0 /\ rInfo[c] \in 0..tr /\ rInfo[c] \in 1..Len(Sizes) /\ f[4][1] = rInfo[c]
        /\ Sizes[rInfo[c]] \in Nat
    <2>1. rInfo[c] # 0 /\ rInfo[c] \in 0..tr
      BY <1>s DEF SlotInv
    <2>2. rInfo[c] \in 1..Len(Sizes) /\ Len(Sizes) \in Nat
      BY <2>1, <1>0, NIAssumption DEF TypeOK
    <2>3. f[4][1] = rInfo[c]
      BY <2>1, <1>s, <1>1, <1>h DEF SlotInv
    <2>4. Sizes[rInfo[c]] \in Nat
      BY <2>2, NIAssumption
    <2> QED BY <2>1, <2>2, <2>3, <2>4
  <1>n. /\ Numbered(p, f[4][2], f[3]) /\ f[4][2] < Sizes[rInfo[c]]
        /\ Numbered(p, pos, Bump(rN[c][p])) /\ Bump(rN[c][p]) \in 0..3
        /\ f[4][2] = pos \/ f[4][2] + W = pos
    <2>1. Numbered(p, f[4][2], f[3]) /\ f[4][2] < Sizes[rInfo[c]]
      BY <1>s, <1>1, <1>h, <1>i DEF QueueInv, DataFrames
    <2>2. f[4][2] = pos \/ f[4][2] + W = pos
      BY <1>s, <1>1, <1>h DEF InTurn
    <2>3. Numbered(p, pos, Bump(rN[c][p]))
      BY <1>s, <1>t DEF Stored
    <2> QED BY <2>1, <2>2, <2>3, <1>t, BumpFacts
  <1>2. CASE f[4][2] # pos
    <2>1. ~Expected(rN[c][p], f[3])
      <3> HIDE DEF f, p, pos
      <3>0. f[4][2] + W = pos
        BY <1>2, <1>n
      <3>1. Numbered(p, f[4][2] + W, Bump(f[3])) /\ Bump(f[3]) \in 0..3
        BY <1>n, <1>t, NumberFacts, BumpFacts, SMTT(30)
      <3>2. Bump(f[3]) = Bump(rN[c][p])
        BY <3>0, <3>1, <1>n, <1>t, NumberFacts
      <3>3. f[3] = rN[c][p]
        BY <3>2, <1>t, BumpFacts
      <3> QED BY <3>3, <1>t, BumpFacts DEF Expected
    <2>2. SlotKept(c) /\ rBuf' = rBuf
      <3>1. /\ rN' = [rN EXCEPT ![c] = rN[c]] /\ rPos' = [rPos EXCEPT ![c] = rPos[c]]
            /\ rRemain' = [rRemain EXCEPT ![c] = rRemain[c]] /\ rBuf' = rBuf
        BY <2>1 DEF RecvData
      <3> QED BY <3>1, <1>0, <1>1 DEF SlotKept, TypeOK
    <2> QED BY <2>2, <1>1, KeptChild, KeptTarget
  <1>3. CASE f[4][2] = pos
    <2>p. pos \in Place /\ f[4] = <<rInfo[c], pos>> /\ pos < Sizes[rInfo[c]]
      <3>1. pos \in Nat /\ f[4] = <<rInfo[c], pos>>
        BY <1>3, <1>t, <1>i
      <3>2. pos < Sizes[rInfo[c]] /\ Sizes[rInfo[c]] <= BufLen
        BY <1>3, <1>n, <1>s DEF Fits
      <3> HIDE DEF pos
      <3>3. pos \in Place
        BY <3>1, <3>2, <1>i, NIAssumption DEF Place
      <3> QED BY <3>1, <3>2, <3>3
    <2>1. f[3] = Bump(rN[c][p]) /\ Expected(rN[c][p], f[3])
      <3> HIDE DEF f, p, pos
      <3>1. Numbered(p, pos, f[3]) /\ Numbered(p, pos, Bump(rN[c][p]))
        BY <1>3, <1>n
      <3>2. f[3] = Bump(rN[c][p])
        BY <3>1, <1>n, <1>t, NumberFacts
      <3> QED BY <3>2 DEF Expected
    <2>2. /\ rN'[c] = [rN[c] EXCEPT ![p] = f[3]]
          /\ rPos'[c] = [rPos[c] EXCEPT ![p] = @ + W]
          /\ rBuf'[c] = [rBuf[c] EXCEPT ![pos] = f[4]]
      <3>1. /\ rN' = [rN EXCEPT ![c] = [rN[c] EXCEPT ![p] = f[3]]]
            /\ rPos' = [rPos EXCEPT ![c] = [rPos[c] EXCEPT ![p] = @ + W]]
            /\ rBuf' = [rBuf EXCEPT ![c] = [@ EXCEPT ![pos] = f[4]]]
        BY <2>1 DEF RecvData
      <3>2. rN'[c] = [rN[c] EXCEPT ![p] = f[3]]
        BY <3>1, <1>0 DEF TypeOK
      <3>3. rPos'[c] = [rPos[c] EXCEPT ![p] = @ + W]
        BY <3>1, <1>0 DEF TypeOK
      <3>4. rBuf'[c] = [rBuf[c] EXCEPT ![pos] = f[4]]
        BY <3>1, <1>0 DEF TypeOK
      <3> QED BY <3>2, <3>3, <3>4
    <2> HIDE DEF f, p, pos
    <2>3. /\ \A q \in Phase \ {p} : rPos'[c][q] = rPos[c][q] /\ rN'[c][q] = rN[c][q]
          /\ rPos'[c][p] = pos + W /\ rN'[c][p] = f[3] /\ rPos[c][p] = pos
          /\ \A i \in Place : rBuf'[c][i] = IF i = pos THEN <<rInfo[c], pos>> ELSE rBuf[c][i]
      <3>1. rBuf[c] \in [Place -> (0..Len(Sizes)) \X Place] /\ rN[c] \in [Phase -> 0..3]
            /\ rPos[c] \in [Phase -> Nat]
        BY <1>0 DEF TypeOK
      <3>2. \A i \in Place : rBuf'[c][i] = IF i = pos THEN <<rInfo[c], pos>> ELSE rBuf[c][i]
        BY <2>2, <2>p, <3>1
      <3>3. \A q \in Phase \ {p} : rPos'[c][q] = rPos[c][q] /\ rN'[c][q] = rN[c][q]
        BY <2>2, <3>1
      <3>4. rPos'[c][p] = pos + W /\ rN'[c][p] = f[3] /\ rPos[c][p] = pos
        BY <2>2, <3>1, <1>t DEF pos
      <3> QED BY <3>2, <3>3, <3>4
    <2>m. \A i \in Place : Holds(c, rInfo[c], i) => Holds(c, rInfo[c], i)'
      BY <2>3, <1>1 DEF Holds
    <2>a. HasAll(c, rInfo[c]) => HasAll(c, rInfo[c])'
      <3>1. \A i \in 0..Sizes[rInfo[c]] - 1 : i \in Place
        BY <1>s, <1>i, NIAssumption DEF Fits, Place
      <3> QED BY <3>1, <2>m, <1>1 DEF HasAll
    <2>4. SlotInv(c)'
      <3>1. Kinds(down[c], {0, 2, 3, 4})'
        BY <1>k, <1>s DEF SlotInv
      <3>2. \A k \in 1..Len(down'[c]) : down'[c][k][1] \in {1, 2} => down'[c][k][4][1] = rInfo[c]
        BY <1>e, <1>s, <1>i DEF SlotInv
      <3> QED BY <3>1, <3>2, <1>0, <1>1, <1>i DEF SlotInv
    <2>5. DataInv(c)'
      <3>1. Fits(c)'
        BY <1>s, <1>1 DEF Fits
      <3>2. Stored(c)'
        <4>0. \A i \in Nat : i < Sizes[rInfo[c]] => i \in Place
          BY <1>s, <1>i, NIAssumption DEF Fits, Place
        <4>a. \A q \in Phase : rPos[c][q] \in Nat
          BY <1>0 DEF TypeOK
        <4>b. \A q \in Phase : rPos'[c][q] \in Nat
          BY <2>3, <1>t, <4>a
        <4> SUFFICES ASSUME NEW q \in Phase
                     PROVE  /\ Numbered(q, rPos'[c][q], Bump(rN'[c][q]))
                            /\ \A i \in 0..rPos'[c][q] : OfPhase(q, i) /\ i < rPos'[c][q] =>
                                 i < Sizes[rInfo[c]] /\ rBuf'[c][i] = <<rInfo[c], i>>
          BY <1>1, <4>0, <4>b DEF Stored, Holds
        <4>h. ASSUME NEW i \in 0..rPos[c][q], OfPhase(q, i), i < rPos[c][q]
              PROVE  i < Sizes[rInfo[c]] /\ rBuf'[c][i] = <<rInfo[c], i>>
          <5>1. i \in Nat
            BY <4>h
          <5> QED BY <5>1, <4>h, <4>0, <2>3, <1>s DEF Stored, Holds
        <4>1. CASE q # p
          BY <4>1, <4>h, <2>3, <1>s DEF Stored
        <4>2. CASE q = p
          <5>1. Numbered(p, pos + W, Bump(f[3])) /\ OfPhase(p, pos)
            BY <1>n, <1>t, <2>1, NumberFacts
          <5>2. ASSUME NEW i \in 0..pos + W, OfPhase(p, i), i < pos + W
                PROVE  i < Sizes[rInfo[c]] /\ rBuf'[c][i] = <<rInfo[c], i>>
            <6>1. i \in Nat /\ ~(pos < i)
              BY <5>1, <5>2, <1>t, PhaseFacts
            <6>2. CASE i < pos
              <7>1. i \in 0..rPos[c][q] /\ OfPhase(q, i) /\ i < rPos[c][q]
                BY <6>1, <6>2, <4>2, <5>2, <2>3, <1>t
              <7> QED BY <7>1, <4>h
            <6>3. CASE i = pos
              BY <6>3, <2>p, <2>3
            <6> QED BY <6>1, <6>2, <6>3, <1>t
          <5> QED BY <4>2, <5>1, <5>2, <2>3
        <4> QED BY <4>1, <4>2
      <3>3. InTurn(c)'
        \* Behind the first frame every subframe of its phase is a copy of it.
        <4>1. \A k \in 1..Len(down[c]) : down[c][k][1] = 2 /\ down[c][k][2] = p => down[c][k][4][2] = pos
          <5>1. \A k \in 1..Len(down[c]) : k = 1 \/ 1 < k
            BY <1>h
          <5>2. \A k \in 1..Len(down[c]) : 1 < k /\ down[c][k][1] = 2 /\ down[c][k][2] = p =>
                  down[c][k][4][2] = pos
            BY <1>s, <1>h, <1>1, <1>3 DEF InTurn, f, p, pos
          <5> QED BY <5>1, <5>2, <1>3 DEF f
        <4>t. \A k \in 1..Len(down[c]) : down[c][k][2] \in Phase
          <5>1. \A k \in 1..Len(down[c]) : down[c][k] \in Frame
            BY DEF Heard
          <5> QED BY <5>1 DEF Frame
        <4>2. ASSUME NEW k \in 1..Len(down'[c]), down'[c][k][1] = 2
              PROVE  \/ down'[c][k][4][2] = rPos'[c][down'[c][k][2]]
                     \/ down'[c][k][4][2] + W = rPos'[c][down'[c][k][2]]
          <5>1. PICK m \in 1..Len(down[c]) : down'[c][k] = down[c][m]
            BY <1>e
          <5>2. CASE down[c][m][2] = p
            BY <5>1, <5>2, <4>1, <4>2, <2>3
          <5>3. CASE down[c][m][2] # p
            <6>1. rPos'[c][down[c][m][2]] = rPos[c][down[c][m][2]]
              BY <5>3, <4>t, <2>3
            <6> QED BY <5>1, <6>1, <4>2, <1>s DEF InTurn
          <5> QED BY <5>2, <5>3
        <4>3. ASSUME NEW k \in 1..Len(down'[c]), NEW l \in 1..Len(down'[c]), k < l,
                     down'[c][k][1] = 2, down'[c][l][1] = 2, down'[c][k][2] = down'[c][l][2],
                     down'[c][k][4][2] = rPos'[c][down'[c][k][2]]
              PROVE  down'[c][l][4][2] = rPos'[c][down'[c][k][2]]
          <5>1. PICK m \in 1..Len(down[c]), n \in 1..Len(down[c]) :
                  m < n /\ down'[c][k] = down[c][m] /\ down'[c][l] = down[c][n]
            BY <4>3, <1>e
          <5>2. CASE down[c][m][2] = p
            <6>1. down'[c][k][4][2] = pos /\ rPos'[c][down'[c][k][2]] = pos + W
              BY <5>1, <5>2, <4>1, <4>3, <2>3
            <6>2. pos # pos + W
              BY <1>t
            <6> QED BY <6>1, <6>2, <4>3
          <5>3. CASE down[c][m][2] # p
            <6>1. rPos'[c][down[c][m][2]] = rPos[c][down[c][m][2]]
              BY <5>3, <4>t, <2>3
            <6> QED BY <5>1, <6>1, <4>3, <1>s, SMTT(30) DEF InTurn
          <5> QED BY <5>2, <5>3
        <4> QED BY <4>2, <4>3 DEF InTurn
      <3>4. Has(down[c], 3)' => HasAll(c, rInfo[c])'
        BY <1>k, <1>s, <2>a
      <3> QED BY <3>1, <3>2, <3>3, <3>4 DEF DataInv
    <2>6. ASSUME c \in sTarget PROVE TargetInv(c)'
      <3>0. TargetInv(c)
        BY <2>6 DEF IInv
      <3>u. UNCHANGED <<sState, sTarget, sN, sAck, sPos, sRemain, tr, up>>
        BY DEF Heard, sender
      <3>k. /\ \A K : Kinds(up[c], K)' = Kinds(up[c], K)
            /\ \A K, L : After(up[c], K, L)' = After(up[c], K, L)
            /\ \A x : Has(up[c], x)' = Has(up[c], x)
        BY <3>u DEF Kinds, After, Has
      <3>1. sState \notin {"ctl", "acked", "ok"}
        BY <3>0 DEF TargetInv, CtlInv, Quiet
      <3>2. ASSUME sState = "data" PROVE DatInv(c)'
        <4>0. DatInv(c)
          BY <3>0, <3>2 DEF TargetInv
        <4>1. Kinds(down[c], {2})' /\ After(down[c], {1}, {1, 2})' /\ After(down[c], {2}, {2})'
          BY <4>0, <1>k DEF DatInv
        <4>2. \A k \in 1..Len(down'[c]) : down'[c][k][1] \in {1, 2} => down'[c][k][4][1] = tr
          BY <4>0, <1>e DEF DatInv
        <4>3. \A k \in 1..Len(down'[c]) : down'[c][k][1] = 2 => down'[c][k][4][2] <= sPos[down'[c][k][2]]
          BY <4>0, <1>e DEF DatInv
        <4>4. Started(c)' = Started(c)
          BY <3>u DEF Started
        <4> QED BY <4>0, <4>1, <4>2, <4>3, <4>4, <3>u, <3>k, <1>1 DEF DatInv
      <3>3. ASSUME sState = "data", NEW q \in Phase PROVE SyncInv(c, q)'
        <4>0. DatInv(c) /\ SyncInv(c, q) /\ rInfo[c] = tr /\ sPos[q] \in Nat
          BY <3>0, <3>3, <1>0 DEF TargetInv, DatInv, TypeOK
        <4>1. \A i \in 0..Sizes[tr] - 1 : OfPhase(q, i) /\ i < sPos[q] => Holds(c, tr, i)'
          <5>1. \A i \in 0..Sizes[tr] - 1 : i \in Place
            BY <4>0, <1>s, <1>i, NIAssumption, SMTT(30) DEF Fits, Place
          <5>2. \A i \in Place : Holds(c, tr, i) => Holds(c, tr, i)'
            BY <4>0, <2>m, <1>1, <3>u DEF Holds
          <5> QED BY <5>1, <5>2, <4>0 DEF SyncInv
        <4>2. Got(c, q) => Got(c, q)'
          <5>1. sPos[q] < Sizes[tr] => sPos[q] \in Place
            BY <4>0, <1>s, <1>i, NIAssumption DEF Fits, Place
          <5>2. \A i \in Place : Holds(c, tr, i) => Holds(c, tr, i)'
            BY <4>0, <2>m, <1>1, <3>u DEF Holds
          <5> QED BY <5>1, <5>2, <4>0, <3>u DEF Got, Holds
        <4>3. CASE q # p
          <5>1. rPos'[c][q] = rPos[c][q]
            BY <4>3, <2>3
          <5> QED BY <4>0, <4>1, <4>2, <5>1, <1>1, <3>u DEF SyncInv
        <4>4. CASE q = p
          <5>1. pos <= sPos[p]
            BY <4>0, <4>4, <1>h, <1>1, <1>3 DEF DatInv, f, p
          <5>2. pos = sPos[p] /\ c \notin sAck[p]
            BY <5>1, <4>0, <4>4, <1>t, <2>3 DEF SyncInv
          <5>3. rPos'[c][p] = sPos[p] + W /\ rPos[c][p] # sPos[p] + W
            BY <5>2, <2>3, <1>t
          <5> QED BY <4>0, <4>1, <4>2, <4>4, <5>2, <5>3, <1>1, <3>u DEF SyncInv
        <4> QED BY <4>3, <4>4
      <3>4. ASSUME sState = "end" PROVE EndInv(c)'
        <4>0. EndInv(c) /\ rInfo[c] = tr
          BY <3>0, <3>4 DEF TargetInv, EndInv
        <4>1. HasAll(c, tr)'
          BY <4>0, <2>a, <1>1, <3>u DEF EndInv
        <4>2. Kinds(down[c], {2, 3})' /\ After(down[c], {3}, {3})'
          BY <4>0, <1>k DEF EndInv
        <4> QED BY <4>0, <4>1, <4>2, <3>u, <3>k, <1>1 DEF EndInv
      <3> QED BY <3>1, <3>2, <3>3, <3>4, <3>u DEF TargetInv
    <2>7. f[4] \in (0..Len(Sizes)) \X Place
      BY <2>p, <1>0, <1>i, NIAssumption DEF TypeOK
    <2> QED BY <1>q, <2>4, <2>5, <2>6, <2>7, <2>p DEF ChildOf, f, p, pos
  <1> QED BY <1>2, <1>3

\* A child takes a frame.
LEMMA Receives ==
  ASSUME IInv, NEW c \in Child, NEW again \in BOOLEAN, CB_recvData(c, again)
  PROVE  IInv'
  <1> DEFINE f == Head(down[c])
  <1>0. TypeOK /\ LinkType /\ ChildOf(c)
    BY DEF IInv, ChildInv
  <1>1. down[c] \in Seq(Frame) /\ down[c] # <<>> /\ down'[c] = IF again THEN down[c] ELSE Tail(down[c])
    BY <1>0 DEF LinkType, CB_recvData
  <1>2. /\ down'[c] \in Seq(Frame) /\ Shifted(down[c], down'[c]) /\ Len(down[c]) \in Nat \ {0}
        /\ f = down[c][1] /\ f \in Frame
    <2>1. down'[c] \in Seq(Frame) /\ Shifted(down[c], down'[c]) /\ Len(down[c]) \in Nat \ {0}
          /\ down[c][1] = Head(down[c]) /\ down[c][1] \in Frame
      BY <1>1, TakeShifts
    <2> QED BY <2>1
  <1>3. UNCHANGED <<sender, ready, tr, up, gaveUp>>
    BY DEF CB_recvData
  <1>4. Heard(c)
    BY <1>1, <1>2, <1>3 DEF Heard
  <1>5. LinkType'
    <2>1. down' \in [Child -> Seq(Frame)]
      BY <1>0, <1>2 DEF LinkType, CB_recvData
    <2> QED BY <2>1, <1>0, <1>3 DEF LinkType
  <1>6. \A d \in Child \ {c} : down'[d] = down[d] /\ up'[d] = up[d]
    BY <1>0, <1>3 DEF LinkType, CB_recvData
  <1>f. f[1] \in 0..4 /\ f[2] \in Phase /\ f[3] \in 0..3 /\ f[4][1] \in 0..Len(Sizes)
    BY <1>2 DEF Frame
  <1>a. RecvControl(c, f) \/ RecvTooLong(c, f) \/ RecvData(c, f) \/ RecvEnd(c, f) \/ RecvNothing(c, f)
    BY DEF CB_recvData
  <1> HIDE DEF f
  <1>s. \A d \in Child \ {c} : ChildSame(d)
    <2>0. /\ rState \in [Child -> {"none", "ctl", "data", "end", "ok", "failed", "stopped"}]
          /\ rPhase \in [Child -> Phase] /\ rRemain \in [Child -> Int]
          /\ rN \in [Child -> [Phase -> 0..3]] /\ rPos \in [Child -> [Phase -> Nat]]
          /\ rInfo \in [Child -> 0..Len(Sizes)]
          /\ rBuf \in [Child -> [Place -> (0..Len(Sizes)) \X Place]]
      BY <1>0 DEF TypeOK
    <2>1. CASE RecvControl(c, f)
      BY <2>0, <2>1, <1>6 DEF ChildSame, RecvControl
    <2>2. CASE RecvData(c, f)
      BY <2>0, <2>2, <1>6 DEF ChildSame, RecvData
    <2>3. CASE RecvTooLong(c, f) \/ RecvEnd(c, f) \/ RecvNothing(c, f)
      BY <2>0, <2>3, <1>6 DEF ChildSame, RecvTooLong, RecvEnd, RecvNothing
    <2> QED BY <1>a, <2>1, <2>2, <2>3
  <1>c. ChildOf(c)' /\ (c \in sTarget => TargetInv(c)')
    <2>1. CASE RecvControl(c, f)
      BY <2>1, <1>2, <1>4, ControlChild
    <2>2. CASE RecvTooLong(c, f)
      <3>1. SlotKept(c) /\ rState'[c] = "failed"
        BY <2>2, <1>0 DEF RecvTooLong, SlotKept, TypeOK
      <3> QED BY <3>1, <1>4, KeptChild, KeptTarget
    <2>3. CASE RecvData(c, f)
      <3>1. rState[c] \in {"ctl", "data"}
        BY <2>3 DEF RecvData, DataBegins
      <3> QED BY <2>3, <3>1, <1>2, <1>4, FirstData, LaterData
    <2>4. CASE RecvEnd(c, f)
      BY <2>4, <1>2, <1>4, EndChild
    <2>5. CASE RecvNothing(c, f)
      <3>1. SlotKept(c)
        BY <2>5, <1>0 DEF RecvNothing, SlotKept, TypeOK
      <3>2. ASSUME c \in sTarget, sState = "ctl", rState'[c] = "ctl" PROVE rPhase'[c] = 0
        <4>1. rState[c] = "ctl"
          BY <2>5, <3>2, <1>0 DEF RecvNothing, TypeOK
        <4>2. CtlInv(c)
          BY <3>2 DEF IInv, TargetInv
        <4>3. f[1] = 1
          <5>1. Kinds(down[c], {1}) /\ 1 \in 1..Len(down[c])
            BY <4>1, <4>2, <1>2 DEF CtlInv
          <5> QED BY <5>1, <1>2 DEF Kinds
        <4> QED BY <2>5, <4>1, <4>3 DEF RecvNothing
      <3> QED BY <3>1, <3>2, <1>4, KeptChild, KeptTarget
    <2> QED BY <1>a, <2>1, <2>2, <2>3, <2>4, <2>5
  <1>t. TypeOK'
    <2>1. rState' \in [Child -> {"none", "ctl", "data", "end", "ok", "failed", "stopped"}]
      BY <1>0, <1>a DEF TypeOK, RecvControl, RecvTooLong, RecvData, RecvEnd, RecvNothing
    <2>2. rPhase' \in [Child -> Phase]
      BY <1>0, <1>a, <1>f DEF TypeOK, RecvControl, RecvTooLong, RecvData, RecvEnd, RecvNothing
    <2>3. rRemain' \in [Child -> Int]
      <3>1. \A n \in 0..Len(Sizes) : n # 0 => Sizes[n] \in Int
        BY NIAssumption
      <3>2. rState[c] = "ctl" /\ rRemain[c] = 0 => rInfo[c] # 0
        BY <1>0, NIAssumption DEF ChildOf, SlotInv
      <3>3. CASE RecvControl(c, f)
        BY <3>3, <1>0, NIAssumption, SMTT(30) DEF TypeOK, RecvControl
      <3>4. CASE RecvData(c, f)
        <4>1. rState[c] = "ctl" => Sizes[rInfo[c]] \in Int
          BY <3>1, <3>2, <3>4, <1>0 DEF TypeOK, RecvData, DataBegins
        <4>2. rRemain[c] \in Int
          BY <1>0 DEF TypeOK
        <4>3. \E n \in Int : rRemain' = [rRemain EXCEPT ![c] = n]
          BY <4>1, <4>2, <3>4, SMTT(30) DEF RecvData
        <4> QED BY <4>3, <1>0 DEF TypeOK
      <3>5. CASE rRemain' = rRemain
        BY <3>5, <1>0 DEF TypeOK
      <3> QED BY <1>a, <3>3, <3>4, <3>5 DEF RecvTooLong, RecvEnd, RecvNothing
    <2>4. rN' \in [Child -> [Phase -> 0..3]]
      <3>0. rN \in [Child -> [Phase -> 0..3]] /\ rN[c] \in [Phase -> 0..3] /\ FirstNumbers(c) \in [Phase -> 0..3]
            /\ 0 \in Phase /\ 0 \in 0..3
        BY <1>0, NIAssumption DEF TypeOK, FirstNumbers, Phase
      <3>1. CASE RecvControl(c, f)
        <4>1. rN' = rN \/ rN' = [rN EXCEPT ![c] = [@ EXCEPT ![f[2]] = f[3]]]
          BY <3>1 DEF RecvControl
        <4> QED BY <4>1, <3>0, <1>f
      <3>2. CASE RecvData(c, f)
        <4>1. \E n \in [Phase -> 0..3] :
                rN' = [rN EXCEPT ![c] = n] \/ rN' = [rN EXCEPT ![c] = [n EXCEPT ![f[2]] = f[3]]]
          BY <3>0, <3>2 DEF RecvData
        <4> QED BY <4>1, <3>0, <1>f
      <3>3. CASE RecvEnd(c, f)
        BY <3>0, <3>3 DEF RecvEnd
      <3>4. CASE rN' = rN
        BY <3>0, <3>4
      <3> QED BY <1>a, <3>1, <3>2, <3>3, <3>4 DEF RecvTooLong, RecvNothing
    <2>5. rPos' \in [Child -> [Phase -> Nat]]
      <3>0. rPos \in [Child -> [Phase -> Nat]] /\ rPos[c] \in [Phase -> Nat]
            /\ [q \in Phase |-> q] \in [Phase -> Nat] /\ W \in Nat
        <4>1. \A q \in Phase : q \in Nat
          BY DEF Phase
        <4>2. [q \in Phase |-> q] \in [Phase -> Nat]
          BY <4>1
        <4>3. rPos \in [Child -> [Phase -> Nat]] /\ W \in Nat
          BY <1>0, NIAssumption DEF TypeOK
        <4> QED BY <4>2, <4>3
      <3>1. CASE RecvControl(c, f)
        <4> DEFINE n == [rPos[c] EXCEPT ![f[2]] = @ + 1]
        <4>1. rPos' = rPos \/ rPos' = [rPos EXCEPT ![c] = n]
          BY <3>1 DEF RecvControl
        <4>2. n \in [Phase -> Nat]
          BY <3>0, <1>f
        <4> HIDE DEF n
        <4> QED BY <4>1, <4>2, <3>0
      <3>2. CASE RecvData(c, f)
        <4>1. \E n \in [Phase -> Nat] :
                rPos' = [rPos EXCEPT ![c] = n] \/ rPos' = [rPos EXCEPT ![c] = [n EXCEPT ![f[2]] = @ + W]]
          BY <3>0, <3>2 DEF RecvData
        <4>2. PICK n \in [Phase -> Nat] :
                rPos' = [rPos EXCEPT ![c] = n] \/ rPos' = [rPos EXCEPT ![c] = [n EXCEPT ![f[2]] = @ + W]]
          BY <4>1
        <4>3. [n EXCEPT ![f[2]] = @ + W] \in [Phase -> Nat]
          BY <3>0, <1>f
        <4> QED BY <4>2, <4>3, <3>0
      <3>3. CASE rPos' = rPos
        BY <3>0, <3>3
      <3> QED BY <1>a, <3>1, <3>2, <3>3 DEF RecvTooLong, RecvEnd, RecvNothing
    <2>6. rInfo' \in [Child -> 0..Len(Sizes)]
      BY <1>0, <1>a, <1>f DEF TypeOK, RecvControl, RecvTooLong, RecvData, RecvEnd, RecvNothing
    <2>7. rBuf' \in [Child -> [Place -> (0..Len(Sizes)) \X Place]]
      <3>0. rBuf \in [Child -> [Place -> (0..Len(Sizes)) \X Place]]
            /\ rBuf[c] \in [Place -> (0..Len(Sizes)) \X Place]
        BY <1>0 DEF TypeOK
      <3>1. CASE RecvData(c, f)
        <4>1. rState[c] \in {"ctl", "data"}
          BY <3>1 DEF RecvData, DataBegins
        <4>2. rBuf' = rBuf \/ f[4] \in (0..Len(Sizes)) \X Place
          BY <3>1, <4>1, <1>2, <1>4, FirstData, LaterData
        <4>3. rBuf' = rBuf \/ \E i : rBuf' = [rBuf EXCEPT ![c] = [@ EXCEPT ![i] = f[4]]]
          BY <3>1 DEF RecvData
        <4> QED BY <3>0, <4>2, <4>3
      <3>2. CASE rBuf' = rBuf
        BY <3>0, <3>2
      <3> QED BY <1>a, <3>1, <3>2 DEF RecvControl, RecvTooLong, RecvEnd, RecvNothing
    <2> QED BY <1>0, <1>3, <2>1, <2>2, <2>3, <2>4, <2>5, <2>6, <2>7 DEF TypeOK, sender
  <1> QED BY <1>3, <1>5, <1>6, <1>s, <1>c, <1>t, ChildStep

-----------------------------------------------------------------------------
(* The parent takes an acknowledgement.                                    *)

\* What an acknowledgement of child c does to the parent's slot.
AckSeen(c) ==
  /\ up[c] \in Seq(Frame) /\ up'[c] \in Seq(Frame) /\ Len(up[c]) > 0
  /\ Shifted(up[c], up'[c])
  /\ \A d \in Child \ {c} : up'[d] = up[d]
  /\ UNCHANGED <<sTarget, sFirst, sBusy, ready, tr, receiver, down, gaveUp>>

\* The acknowledgements that are left when the first one is taken.
LEMMA UpFacts ==
  ASSUME NEW c \in Child, AckSeen(c), NEW d \in Child, LinkType
  PROVE  /\ \A k \in 1..Len(up'[d]) : \E m \in 1..Len(up[d]) : up'[d][k] = up[d][m]
         /\ \A k, l \in 1..Len(up'[d]) : k < l =>
              \E m, n \in 1..Len(up[d]) : m < n /\ up'[d][k] = up[d][m] /\ up'[d][l] = up[d][n]
         /\ \A K : Kinds(up[d], K) => Kinds(up[d], K)'
         /\ \A K, L : After(up[d], K, L) => After(up[d], K, L)'
         /\ \A x : Has(up[d], x)' => Has(up[d], x)
  <1>1. CASE d = c
    <2>1. up[d] \in Seq(Frame) /\ up'[d] \in Seq(Frame) /\ Shifted(up[d], up'[d])
      BY <1>1 DEF AckSeen
    <2> QED BY <2>1, ShiftedFacts
  <1>2. CASE d # c
    <2>1. up'[d] = up[d]
      BY <1>2 DEF AckSeen
    <2> QED BY <2>1 DEF Kinds, After, Has
  <1> QED BY <1>1, <1>2

\* The receivers are as they were, for every target.
LEMMA UpKept ==
  ASSUME NEW c \in Child, AckSeen(c), NEW d \in Child, LinkType
  PROVE  /\ rState'[d] = rState[d] /\ rPhase'[d] = rPhase[d] /\ rPos'[d] = rPos[d]
         /\ rInfo'[d] = rInfo[d] /\ tr' = tr
         /\ \A t, i : Holds(d, t, i)' = Holds(d, t, i)
         /\ HasAll(d, tr)' = HasAll(d, tr)
         /\ \A K : Kinds(down[d], K)' = Kinds(down[d], K)
         /\ \A K, L : After(down[d], K, L)' = After(down[d], K, L)
         /\ down'[d] = down[d]
  BY DEF AckSeen, receiver, Holds, HasAll, Kinds, After

\* Nothing is acknowledged that is new: the parent's slot is as it was.
LEMMA SameSlot ==
  ASSUME IInv, NEW c \in Child, AckSeen(c), NEW d \in sTarget,
         UNCHANGED <<sState, sPos, sN, sAck>>
  PROVE  TargetInv(d)'
  <1>0. d \in Child /\ TargetInv(d) /\ LinkType
    BY DEF IInv, TypeOK
  <1>e. /\ \A k \in 1..Len(up'[d]) : \E m \in 1..Len(up[d]) : up'[d][k] = up[d][m]
        /\ \A k, l \in 1..Len(up'[d]) : k < l =>
             \E m, n \in 1..Len(up[d]) : m < n /\ up'[d][k] = up[d][m] /\ up'[d][l] = up[d][n]
    BY <1>0, UpFacts
  <1>k. /\ \A K : Kinds(up[d], K) => Kinds(up[d], K)'
        /\ \A K, L : After(up[d], K, L) => After(up[d], K, L)'
        /\ \A x : Has(up[d], x)' => Has(up[d], x)
    BY <1>0, UpFacts
  <1>u. /\ rState'[d] = rState[d] /\ rPhase'[d] = rPhase[d] /\ rPos'[d] = rPos[d]
        /\ rInfo'[d] = rInfo[d] /\ tr' = tr
        /\ \A t, i : Holds(d, t, i)' = Holds(d, t, i)
        /\ HasAll(d, tr)' = HasAll(d, tr)
        /\ \A K : Kinds(down[d], K)' = Kinds(down[d], K)
        /\ \A K, L : After(down[d], K, L)' = After(down[d], K, L)
        /\ down'[d] = down[d]
    BY <1>0, UpKept
  <1>1. ASSUME CtlInv(d) PROVE CtlInv(d)'
    <2>1. \A k \in 1..Len(up'[d]) : up'[d][k][1] # 2 /\ (up'[d][k][1] = 1 => up'[d][k][2] = 0)
      BY <1>1, <1>e DEF CtlInv
    <2> QED BY <2>1, <1>1, <1>u DEF CtlInv
  <1>2. ASSUME DatInv(d) PROVE DatInv(d)'
    <2>1. Started(d)' = Started(d)
      BY DEF Started
    <2> QED BY <2>1, <1>2, <1>u, <1>k DEF DatInv
  <1>3. ASSUME NEW p \in Phase, SyncInv(d, p) PROVE SyncInv(d, p)'
    <2>1. Got(d, p)' = Got(d, p)
      BY <1>u DEF Got
    <2>2. ASSUME NEW k \in 1..Len(up'[d]), up'[d][k][1] = 2, up'[d][k][2] = p
          PROVE  \/ /\ up'[d][k][3] = sN[p] /\ Got(d, p)
                    /\ rState[d] = "data" => rPos[d][p] = sPos[p] + W
                 \/ Bump(up'[d][k][3]) = sN[p] /\ d \notin sAck[p]
      BY <1>3, <2>2, <1>e DEF SyncInv
    <2>3. ASSUME NEW k \in 1..Len(up'[d]), NEW l \in 1..Len(up'[d]), k < l,
                 up'[d][k][1] = 2, up'[d][l][1] = 2, up'[d][k][2] = p, up'[d][l][2] = p,
                 up'[d][k][3] = sN[p]
          PROVE  up'[d][l][3] = sN[p]
      <3>1. PICK m \in 1..Len(up[d]), n \in 1..Len(up[d]) :
              m < n /\ up'[d][k] = up[d][m] /\ up'[d][l] = up[d][n]
        BY <2>3, <1>e
      <3> QED BY <1>3, <2>3, <3>1 DEF SyncInv
    <2> QED BY <1>3, <2>1, <2>2, <2>3, <1>u DEF SyncInv
  <1>4. ASSUME EndInv(d) PROVE EndInv(d)'
    BY <1>4, <1>u, <1>k DEF EndInv
  <1>5. ASSUME Quiet(d) PROVE Quiet(d)'
    BY <1>5, <1>u, <1>e DEF Quiet
  <1> QED BY <1>0, <1>1, <1>2, <1>3, <1>4, <1>5 DEF TargetInv

\* What the head of a target's queue says in the state "data": if it counts,
\* the target has the subframe, and all that comes behind it says the same.
LEMMA AckMeans ==
  ASSUME IInv, NEW c \in sTarget, Len(up[c]) > 0, sState = "data",
         NEW p \in Phase, up[c][1][1] = 2, up[c][1][2] = p, up[c][1][3] = sN[p]
  PROVE  /\ Got(c, p) /\ (rState[c] = "data" => rPos[c][p] = sPos[p] + W)
         /\ \A k \in 1..Len(up[c]) : up[c][k][1] = 2 /\ up[c][k][2] = p => up[c][k][3] = sN[p]
         /\ Kinds(up[c], {2}) /\ Kinds(down[c], {2}) /\ rState[c] \notin {"ctl", "end"}
  <1>0. c \in Child /\ DatInv(c) /\ SyncInv(c, p) /\ sN[p] \in 0..3 /\ up[c] \in Seq(Frame)
    BY DEF IInv, TypeOK, LinkType, TargetInv
  <1>1. Len(up[c]) \in Nat /\ 1 \in 1..Len(up[c])
    BY <1>0
  <1>2. Bump(up[c][1][3]) # sN[p]
    BY <1>0, BumpFacts
  <1>3. Got(c, p) /\ (rState[c] = "data" => rPos[c][p] = sPos[p] + W)
    BY <1>0, <1>1, <1>2 DEF SyncInv
  <1>4. ASSUME NEW k \in 1..Len(up[c]), up[c][k][1] = 2, up[c][k][2] = p PROVE up[c][k][3] = sN[p]
    <2>1. k = 1 \/ 1 < k
      BY <1>1
    <2> QED BY <2>1, <1>0, <1>1, <1>4 DEF SyncInv
  <1>5. Has(up[c], 2) /\ Kinds(up[c], {2})
    <2>1. \A k \in 1..Len(up[c]) : k = 1 \/ 1 < k
      BY <1>1
    <2>2. After(up[c], {2}, {2})
      BY <1>0 DEF DatInv
    <2> QED BY <2>1, <2>2, <1>1 DEF Has, Kinds, After
  <1>6. Kinds(down[c], {2}) /\ rState[c] \notin {"ctl", "end"}
    BY <1>0, <1>5 DEF DatInv
  <1> QED BY <1>3, <1>4, <1>5, <1>6

\* The children that count as having acknowledged phase p in the state "data".
LEMMA DataAcked ==
  ASSUME IInv, NEW c \in sTarget, Len(up[c]) > 0, sState = "data", NEW p \in Phase, up[c][1][2] = p,
         NEW d \in sTarget, d \in Acked(c, up[c][1][1], p, up[c][1][3])
  PROVE  /\ Got(d, p) /\ (rState[d] = "data" => rPos[d][p] = sPos[p] + W)
         /\ \A k \in 1..Len(up[d]) : up[d][k][1] = 2 /\ up[d][k][2] = p => up[d][k][3] = sN[p]
         /\ Kinds(up[d], {2}) /\ Kinds(down[d], {2}) /\ rState[d] \notin {"ctl", "end"}
  <1>1. CASE d = c /\ up[c][1][1] = 2 /\ up[c][1][3] = sN[p]
    BY <1>1, AckMeans
  <1>2. CASE d \in sAck[p]
    <2>0. d \in Child /\ DatInv(d) /\ SyncInv(d, p) /\ sPos[p] \in Nat
      BY DEF IInv, TypeOK, TargetInv
    <2>1. Started(d)
      BY <1>2 DEF Started
    <2> QED BY <2>0, <2>1, <1>2 DEF DatInv, SyncInv
  <1> QED BY <1>1, <1>2 DEF Acked, Kind

\* One more target has acknowledged phase p, but not the last.
LEMMA OneAck ==
  ASSUME IInv, NEW c \in sTarget, AckSeen(c), NEW p \in Phase, up[c][1][2] = p,
         sAck' = [sAck EXCEPT ![p] = Acked(c, up[c][1][1], p, up[c][1][3])],
         UNCHANGED <<sState, sPhase, sN, sPos, sRemain>>,
         NEW d \in sTarget
  PROVE  TargetInv(d)'
  <1>0. c \in Child /\ d \in Child /\ TargetInv(d) /\ LinkType /\ sAck \in [Phase -> SUBSET Child]
        /\ up[c] \in Seq(Frame) /\ Len(up[c]) > 0
    BY DEF IInv, TypeOK, LinkType, AckSeen
  <1>1. CASE d # c
    <2>1. \A q \in Phase : d \in sAck'[q] <=> d \in sAck[q]
      BY <1>0, <1>1 DEF Acked
    <2>e. up'[d] = up[d]
      BY <1>1, <1>0 DEF AckSeen
    <2>u. UNCHANGED <<receiver, tr, down>>
      BY DEF AckSeen
    <2>2. CtlInv(d)' = CtlInv(d) /\ Quiet(d)' = Quiet(d)
      BY <2>e, <2>u DEF CtlInv, Quiet, Kinds, After, receiver
    <2>3. EndInv(d) => EndInv(d)'
      <3>1. /\ HasAll(d, tr)' = HasAll(d, tr) /\ rState' = rState /\ rInfo' = rInfo /\ tr' = tr
            /\ \A K : Kinds(down[d], K)' = Kinds(down[d], K) /\ Kinds(up[d], K)' = Kinds(up[d], K)
            /\ \A K, L : After(down[d], K, L)' = After(down[d], K, L) /\ After(up[d], K, L)' = After(up[d], K, L)
            /\ \A x : Has(up[d], x)' = Has(up[d], x)
        BY <2>e, <2>u DEF receiver, HasAll, Holds, Kinds, After, Has
      <3> QED BY <2>1, <3>1 DEF EndInv
    <2>4. DatInv(d) => DatInv(d)'
      <3>1. /\ rState' = rState /\ rInfo' = rInfo /\ tr' = tr /\ down' = down
            /\ \A K : Kinds(down[d], K)' = Kinds(down[d], K) /\ Kinds(up[d], K)' = Kinds(up[d], K)
            /\ \A K, L : After(down[d], K, L)' = After(down[d], K, L) /\ After(up[d], K, L)' = After(up[d], K, L)
            /\ \A x : Has(up[d], x)' = Has(up[d], x)
        BY <2>e, <2>u DEF receiver, Kinds, After, Has
      <3>2. Started(d)' = Started(d)
        BY <2>1 DEF Started
      <3> QED BY <3>1, <3>2 DEF DatInv
    <2>5. ASSUME NEW q \in Phase, SyncInv(d, q) PROVE SyncInv(d, q)'
      <3>1. /\ rState' = rState /\ rPos' = rPos /\ tr' = tr /\ Got(d, q)' = Got(d, q)
            /\ \A i : Holds(d, tr, i)' = Holds(d, tr, i)
        BY <2>e, <2>u DEF receiver, Got, Holds
      <3> QED BY <2>1, <2>5, <2>e, <3>1 DEF SyncInv
    <2> QED BY <1>0, <2>2, <2>3, <2>4, <2>5 DEF TargetInv
  <1>2. CASE d = c /\ c \notin sAck[p] /\ Acked(c, up[c][1][1], p, up[c][1][3]) # sAck[p]
    <2>1. /\ Kind(sState) = up[c][1][1] /\ up[c][1][3] = sN[p]
          /\ \A q \in Phase : c \in sAck'[q] => c \in sAck[q] \/ q = p
          /\ \A q \in Phase \ {p} : sAck'[q] = sAck[q]
      BY <1>0, <1>2 DEF Acked
    <2>u. /\ rState'[c] = rState[c] /\ rPhase'[c] = rPhase[c] /\ rPos'[c] = rPos[c]
          /\ rInfo'[c] = rInfo[c] /\ tr' = tr
          /\ \A t, i : Holds(c, t, i)' = Holds(c, t, i)
          /\ HasAll(c, tr)' = HasAll(c, tr)
          /\ \A K : Kinds(down[c], K)' = Kinds(down[c], K)
          /\ \A K, L : After(down[c], K, L)' = After(down[c], K, L)
          /\ down'[c] = down[c]
      BY <1>0, UpKept
    <2>e. \A k \in 1..Len(up'[c]) : \E m \in 1..Len(up[c]) : up'[c][k] = up[c][m]
      BY <1>0, UpFacts
    <2>k. /\ \A K : Kinds(up[c], K) => Kinds(up[c], K)'
          /\ \A K, L : After(up[c], K, L) => After(up[c], K, L)'
          /\ \A x : Has(up[c], x)' => Has(up[c], x)
      BY <1>0, UpFacts
    <2>3. ASSUME sState = "ctl" PROVE CtlInv(c)'
      <3>0. CtlInv(c)
        BY <2>3, <1>0, <1>2 DEF TargetInv
      <3>1. \A k \in 1..Len(up'[c]) : up'[c][k][1] # 2 /\ (up'[c][k][1] = 1 => up'[c][k][2] = 0)
        BY <3>0, <2>e DEF CtlInv
      <3> QED BY <3>0, <3>1, <2>u DEF CtlInv
    <2>4. ASSUME sState = "data" PROVE DatInv(c)' /\ \A q \in Phase : SyncInv(c, q)'
      <3>0. DatInv(c) /\ \A q \in Phase : SyncInv(c, q)
        BY <2>4, <1>0, <1>2 DEF TargetInv
      <3>1. /\ Got(c, p) /\ (rState[c] = "data" => rPos[c][p] = sPos[p] + W)
            /\ \A k \in 1..Len(up[c]) : up[c][k][1] = 2 /\ up[c][k][2] = p => up[c][k][3] = sN[p]
            /\ Kinds(up[c], {2}) /\ Kinds(down[c], {2}) /\ rState[c] \notin {"ctl", "end"}
        <4>1. up[c][1][1] = 2
          BY <2>1, <2>4 DEF Kind
        <4> QED BY <4>1, <2>1, <2>4, <1>0, AckMeans
      <3>2. DatInv(c)'
        BY <3>0, <3>1, <2>u, <2>k DEF DatInv
      <3>3. ASSUME NEW q \in Phase PROVE SyncInv(c, q)'
        <4>g. Got(c, q)' = Got(c, q)
          BY <2>u DEF Got
        <4>1. CASE q = p
          <5>1. \A k \in 1..Len(up'[c]) : up'[c][k][1] = 2 /\ up'[c][k][2] = p => up'[c][k][3] = sN[p]
            BY <3>1, <2>e
          <5>2. SyncInv(c, p)
            BY <3>0
          <5> QED BY <3>1, <4>1, <4>g, <5>1, <5>2, <2>u DEF SyncInv
        <4>2. CASE q # p
          <5>0. SyncInv(c, q) /\ (c \in sAck'[q] <=> c \in sAck[q])
            BY <3>0, <4>2, <2>1
          <5>1. ASSUME NEW k \in 1..Len(up'[c]), up'[c][k][1] = 2, up'[c][k][2] = q
                PROVE  \/ /\ up'[c][k][3] = sN[q] /\ Got(c, q)
                          /\ rState[c] = "data" => rPos[c][q] = sPos[q] + W
                       \/ Bump(up'[c][k][3]) = sN[q] /\ c \notin sAck[q]
            BY <5>0, <5>1, <2>e DEF SyncInv
          <5>2. ASSUME NEW k \in 1..Len(up'[c]), NEW l \in 1..Len(up'[c]), k < l,
                       up'[c][k][1] = 2, up'[c][l][1] = 2, up'[c][k][2] = q, up'[c][l][2] = q,
                       up'[c][k][3] = sN[q]
                PROVE  up'[c][l][3] = sN[q]
            <6>1. PICK m \in 1..Len(up[c]), n \in 1..Len(up[c]) :
                    m < n /\ up'[c][k] = up[c][m] /\ up'[c][l] = up[c][n]
              BY <5>2, <1>0, UpFacts
            <6> QED BY <5>0, <5>2, <6>1 DEF SyncInv
          <5> QED BY <5>0, <5>1, <5>2, <4>g, <2>u DEF SyncInv
        <4> QED BY <4>1, <4>2
      <3> QED BY <3>2, <3>3
    <2>5. ASSUME sState = "end" PROVE EndInv(c)'
      <3>0. EndInv(c)
        BY <2>5, <1>0, <1>2 DEF TargetInv
      <3>1. Has(up[c], 3) /\ Kinds(up[c], {3})
        <4>1. up[c][1][1] = 3 /\ 1 \in 1..Len(up[c]) /\ \A k \in 1..Len(up[c]) : k = 1 \/ 1 < k
          BY <2>1, <2>5, <1>0 DEF Kind
        <4>2. After(up[c], {3}, {3})
          BY <3>0 DEF EndInv
        <4> QED BY <4>1, <4>2 DEF Has, Kinds, After
      <3>2. Kinds(down[c], {3}) /\ rState[c] # "data"
        BY <3>0, <3>1 DEF EndInv
      <3> QED BY <3>0, <3>1, <3>2, <2>u, <2>k DEF EndInv
    <2>6. Quiet(c) => Quiet(c)'
      BY <2>e, <2>u DEF Quiet
    <2> QED BY <1>0, <1>2, <2>3, <2>4, <2>5, <2>6 DEF TargetInv
  <1>3. CASE d = c /\ Acked(c, up[c][1][1], p, up[c][1][3]) = sAck[p]
    <2>1. sAck' = sAck
      BY <1>0, <1>3
    <2> QED BY <2>1, <1>0, SameSlot
  <1>4. c \in sAck[p] => Acked(c, up[c][1][1], p, up[c][1][3]) = sAck[p]
    BY DEF Acked
  <1> QED BY <1>1, <1>2, <1>3, <1>4

\* The control block and success, in which nothing depends on sAck.
LEMMA CtlKept ==
  ASSUME IInv, NEW c \in Child, AckSeen(c), NEW d \in sTarget
  PROVE  (CtlInv(d) => CtlInv(d)') /\ (Quiet(d) => Quiet(d)')
  <1>0. d \in Child /\ LinkType
    BY DEF IInv, TypeOK
  <1>e. \A k \in 1..Len(up'[d]) : \E m \in 1..Len(up[d]) : up'[d][k] = up[d][m]
    BY <1>0, UpFacts
  <1>u. /\ rState'[d] = rState[d] /\ rPhase'[d] = rPhase[d]
        /\ rInfo'[d] = rInfo[d] /\ tr' = tr
        /\ \A K : Kinds(down[d], K)' = Kinds(down[d], K)
        /\ \A K, L : After(down[d], K, L)' = After(down[d], K, L)
        /\ down'[d] = down[d]
    BY <1>0, UpKept
  <1>1. ASSUME CtlInv(d) PROVE CtlInv(d)'
    <2>1. \A k \in 1..Len(up'[d]) : up'[d][k][1] # 2 /\ (up'[d][k][1] = 1 => up'[d][k][2] = 0)
      BY <1>1, <1>e DEF CtlInv
    <2> QED BY <2>1, <1>1, <1>u DEF CtlInv
  <1>2. ASSUME Quiet(d) PROVE Quiet(d)'
    BY <1>2, <1>u, <1>e DEF Quiet
  <1> QED BY <1>1, <1>2

\* Every target has acknowledged the subframe of phase p.
AllAcked(c, p) ==
  /\ AckSeen(c) /\ up[c][1][2] = p
  /\ Everyone(Acked(c, up[c][1][1], p, up[c][1][3]))
  /\ sAck' = [sAck EXCEPT ![p] = {}]
  /\ NextSubframe(p)

\* A control block counts in phase 0 only.
LEMMA ControlPhase ==
  ASSUME IInv, NEW c \in sTarget, NEW p \in Phase, AllAcked(c, p), sState = "ctl"
  PROVE  p = 0 /\ \A q \in Phase : sAck'[q] = {}
  <1>0. SendInv /\ TypeOK /\ CtlInv(c) /\ up[c] \in Seq(Frame) /\ Len(up[c]) > 0
    BY DEF IInv, TargetInv, AllAcked, AckSeen
  <1>1. up[c][1][1] = 1 => p = 0
    <2>1. 1 \in 1..Len(up[c])
      BY <1>0
    <2> QED BY <2>1, <1>0 DEF CtlInv, AllAcked
  <1>2. p # 0 => sAck[p] = {} /\ up[c][1][1] # 1
    BY <1>0, <1>1 DEF SendInv
  <1>3. p = 0
    BY <1>2 DEF AllAcked, Everyone, Acked, Kind
  <1> QED BY <1>0, <1>3 DEF AllAcked, SendInv, TypeOK

\* The control block is acknowledged: every target has all of it, and the data begins.
LEMMA ControlEnds ==
  ASSUME IInv, NEW c \in sTarget, NEW p \in Phase, AllAcked(c, p), sState = "ctl", LastOne
  PROVE  SendInv' /\ \A d \in sTarget : TargetInv(d)'
  <1>0. SendInv /\ TypeOK /\ LinkType /\ c \in Child /\ AckSeen(c) /\ tr' = tr
    BY DEF IInv, TypeOK, AllAcked, AckSeen
  <1>1. /\ sN' = [q \in Phase |-> 1] /\ sPos' = [q \in Phase |-> q]
        /\ sRemain' = Sizes[tr] /\ sPhase' = 0 /\ sState' = "data"
    BY DEF AllAcked, NextSubframe
  <1>2. \A q \in Phase : sAck'[q] = {}
    BY ControlPhase
  <1>t. tr \in 1..Len(Sizes) /\ Sizes[tr] \in Nat \ {0}
    BY <1>0, NIAssumption DEF SendInv, TypeOK
  <1>p. \A q \in Phase : q \in Nat /\ OfPhase(q, q) /\ Numbered(q, q, 1)
    BY PhaseStart
  <1>3. SendInv'
    <2>1. \A q \in Phase : Numbered(q, sPos'[q], sN'[q])
      BY <1>1, <1>p
    <2>2. Todo' = 0..Sizes[tr] - 1
      <3>1. ASSUME NEW i \in 0..Sizes[tr] - 1 PROVE \E q \in Phase : OfPhase(q, i) /\ sPos'[q] <= i
        <4>1. i \in Nat
          BY <1>t
        <4>2. PICK q \in Phase : OfPhase(q, i)
          BY <4>1, SomePhase
        <4>3. i >= q /\ q \in Nat
          BY <4>1, <4>2, <1>p, PhaseFacts
        <4> QED BY <4>1, <4>2, <4>3, <1>1
      <3> QED BY <3>1, <1>0 DEF Todo
    <2>3. Cardinality(0..Sizes[tr] - 1) = Sizes[tr]
      <3>1. Sizes[tr] - 1 \in Int /\ 0 \in Int /\ ~(0 > Sizes[tr] - 1)
        BY <1>t
      <3>2. Cardinality(0..Sizes[tr] - 1) = (Sizes[tr] - 1) - 0 + 1
        BY <3>1, FS_Interval
      <3> QED BY <3>2, <1>t
    <2>4. sRemain' > 0 /\ Cardinality(Todo') = sRemain'
      BY <2>2, <2>3, <1>1, <1>t
    <2> QED BY <2>1, <2>4, <1>0, <1>1, <1>t DEF SendInv
  <1>4. ASSUME NEW d \in sTarget PROVE DatInv(d)' /\ \A q \in Phase : SyncInv(d, q)'
    <2>0. d \in Child /\ CtlInv(d)
      BY <1>0 DEF IInv, TypeOK, TargetInv
    <2>u. /\ rState'[d] = rState[d] /\ rInfo'[d] = rInfo[d] /\ tr' = tr
          /\ \A K : Kinds(down[d], K)' = Kinds(down[d], K)
          /\ \A K, L : After(down[d], K, L)' = After(down[d], K, L)
          /\ down'[d] = down[d]
      BY <1>0, <2>0, UpKept
    <2>e. \A k \in 1..Len(up'[d]) : \E m \in 1..Len(up[d]) : up'[d][k] = up[d][m]
      BY <1>0, <2>0, UpFacts
    <2>1. ~Started(d)'
      BY <1>1, <1>2 DEF Started
    <2>2. \A k \in 1..Len(up'[d]) : up'[d][k][1] # 2
      BY <2>0, <2>e DEF CtlInv
    <2>3. ~Has(up[d], 2)' /\ After(up[d], {2}, {2})'
      BY <2>2 DEF Has, After
    <2>4. \A k \in 1..Len(down[d]) : down[d][k][1] # 2
      BY <2>0 DEF CtlInv, Kinds
    <2>5. After(down[d], {1}, {1, 2}) /\ After(down[d], {2}, {2})
          /\ (rState[d] = "ctl" => Kinds(down[d], {1, 2}))
      BY <2>0, <2>4 DEF CtlInv, After, Kinds
    <2>6. DatInv(d)'
      BY <2>0, <2>u, <2>1, <2>3, <2>4, <2>5 DEF DatInv, CtlInv
    <2>7. ASSUME NEW q \in Phase PROVE SyncInv(d, q)'
      <3>1. \A i \in 0..Sizes[tr] - 1 : i \in Nat /\ (OfPhase(q, i) => ~(i < q))
        <4>1. \A i \in 0..Sizes[tr] - 1 : i \in Nat
          BY <1>t
        <4> QED BY <4>1, <1>p, PhaseFacts
      <3>2. sPos'[q] = q /\ d \notin sAck'[q] /\ rState'[d] # "data"
        BY <1>1, <1>2, <2>0, <2>u DEF CtlInv
      <3> QED BY <3>1, <3>2, <2>2, <2>u DEF SyncInv
    <2> QED BY <2>6, <2>7
  <1> QED BY <1>1, <1>3, <1>4 DEF TargetInv

\* What is left to send when phase p has got on.
LEMMA TodoShrinks ==
  ASSUME IInv, NEW p \in Phase, sState = "data", sPos[p] < Sizes[tr], tr' = tr,
         sPos' = [sPos EXCEPT ![p] = @ + W]
  PROVE  /\ sPos[p] \in Todo /\ Todo' = Todo \ {sPos[p]}
         /\ IsFiniteSet(Todo) /\ Cardinality(Todo') = sRemain - 1
  <1>0. /\ sPos \in [Phase -> Nat] /\ tr \in 1..Len(Sizes) /\ Sizes[tr] \in Nat \ {0} /\ W \in Nat \ {0}
        /\ \A q \in Phase : Numbered(q, sPos[q], sN[q]) /\ sPos[q] \in Nat /\ sN[q] \in 0..3
        /\ Cardinality(Todo) = sRemain
    BY NIAssumption DEF IInv, TypeOK, SendInv
  <1>1. \A q \in Phase : OfPhase(q, sPos[q])
    BY <1>0, NumberFacts
  <1>2. sPos[p] \in Todo
    BY <1>0, <1>1 DEF Todo
  <1>3. sPos'[p] = sPos[p] + W /\ \A q \in Phase \ {p} : sPos'[q] = sPos[q]
    BY <1>0
  <1>4. ASSUME NEW i \in Todo' PROVE i \in Todo \ {sPos[p]}
    <2>1. PICK q \in Phase : OfPhase(q, i) /\ sPos'[q] <= i
      BY <1>4 DEF Todo
    <2>2. i \in 0..Sizes[tr] - 1 /\ i \in Nat
      BY <1>4, <1>0 DEF Todo
    <2>3. sPos[q] <= i
      BY <2>1, <2>2, <1>0, <1>3
    <2>4. i # sPos[p]
      <3>1. CASE q = p
        BY <3>1, <2>1, <2>2, <1>0, <1>3
      <3>2. CASE q # p
        BY <3>2, <2>1, <2>2, <1>1, PhaseFacts
      <3> QED BY <3>1, <3>2
    <2> QED BY <2>1, <2>2, <2>3, <2>4 DEF Todo
  <1>5. ASSUME NEW i \in Todo, i # sPos[p] PROVE i \in Todo'
    <2>1. PICK q \in Phase : OfPhase(q, i) /\ sPos[q] <= i
      BY <1>5 DEF Todo
    <2>2. i \in 0..Sizes[tr] - 1 /\ i \in Nat
      BY <1>5, <1>0 DEF Todo
    <2>3. sPos'[q] <= i
      <3>1. CASE q = p
        <4>1. sPos[p] < i
          BY <3>1, <2>1, <2>2, <1>0, <1>5
        <4>2. sPos[p] + W <= i
          BY <4>1, <3>1, <2>1, <2>2, <1>0, <1>1, PhaseFacts
        <4> QED BY <4>2, <3>1, <1>3
      <3>2. CASE q # p
        BY <3>2, <2>1, <1>3
      <3> QED BY <3>1, <3>2
    <2> QED BY <2>1, <2>2, <2>3 DEF Todo
  <1>6. Todo' = Todo \ {sPos[p]}
    BY <1>4, <1>5
  <1>7. IsFiniteSet(Todo)
    <2>1. IsFiniteSet(0..Sizes[tr] - 1)
      <3>1. Sizes[tr] - 1 \in Int /\ 0 \in Int
        BY <1>0
      <3> QED BY <3>1, FS_Interval
    <2>2. Todo \subseteq 0..Sizes[tr] - 1
      BY DEF Todo
    <2> QED BY <2>1, <2>2, FS_Subset
  <1>8. Cardinality(Todo \ {sPos[p]}) = Cardinality(Todo) - 1
    BY <1>2, <1>7, FS_RemoveElement
  <1> QED BY <1>0, <1>2, <1>6, <1>7, <1>8

\* A subframe that is not the last is acknowledged: its phase moves on.
LEMMA DataOn ==
  ASSUME IInv, NEW c \in sTarget, NEW p \in Phase, AllAcked(c, p), sState = "data", ~LastOne
  PROVE  SendInv' /\ \A d \in sTarget : TargetInv(d)'
  <1>0. SendInv /\ TypeOK /\ LinkType /\ c \in Child /\ AckSeen(c) /\ tr' = tr /\ Len(up[c]) > 0
        /\ up[c][1][2] = p
    BY DEF IInv, TypeOK, AllAcked, AckSeen
  <1>1. /\ sN' = [sN EXCEPT ![p] = Bump(@)] /\ sPos' = [sPos EXCEPT ![p] = @ + W]
        /\ sRemain' = sRemain - 1 /\ sState' = sState /\ sAck' = [sAck EXCEPT ![p] = {}]
    BY DEF AllAcked, NextSubframe
  <1>t. /\ sN[p] \in 0..3 /\ sPos[p] \in Nat /\ sRemain \in Nat /\ sRemain > 1 /\ W \in Nat \ {0}
        /\ Numbered(p, sPos[p], sN[p])
    BY <1>0, NIAssumption DEF SendInv, TypeOK, LastOne
  <1>2. /\ sN'[p] = Bump(sN[p]) /\ sPos'[p] = sPos[p] + W /\ sAck'[p] = {}
        /\ \A q \in Phase \ {p} : sN'[q] = sN[q] /\ sPos'[q] = sPos[q] /\ sAck'[q] = sAck[q]
    BY <1>0, <1>1 DEF TypeOK
  <1>a. ASSUME NEW d \in sTarget
        PROVE  /\ Got(d, p) /\ (rState[d] = "data" => rPos[d][p] = sPos[p] + W)
               /\ \A k \in 1..Len(up[d]) : up[d][k][1] = 2 /\ up[d][k][2] = p => up[d][k][3] = sN[p]
               /\ Kinds(up[d], {2}) /\ Kinds(down[d], {2}) /\ rState[d] \notin {"ctl", "end"}
    <2>1. d \in Acked(c, up[c][1][1], p, up[c][1][3])
      BY DEF AllAcked, Everyone
    <2> QED BY <2>1, <1>0, DataAcked
  <1>3. SendInv'
    <2>1. \A q \in Phase : Numbered(q, sPos'[q], sN'[q])
      <3>1. Numbered(p, sPos[p] + W, Bump(sN[p]))
        BY <1>t, NumberFacts
      <3> QED BY <3>1, <1>0, <1>2 DEF SendInv
    <2>2. sPos[p] < Sizes[tr]
      BY <1>a DEF Got
    <2>3. Cardinality(Todo') = sRemain - 1
      BY <2>2, <1>0, <1>1, TodoShrinks
    <2> QED BY <2>1, <2>3, <1>0, <1>1, <1>t DEF SendInv
  <1>4. ASSUME NEW d \in sTarget PROVE DatInv(d)' /\ \A q \in Phase : SyncInv(d, q)'
    <2>0. d \in Child /\ DatInv(d) /\ \A q \in Phase : SyncInv(d, q)
      BY <1>0 DEF IInv, TypeOK, TargetInv
    <2>u. /\ rState'[d] = rState[d] /\ rInfo'[d] = rInfo[d] /\ tr' = tr /\ rPos'[d] = rPos[d]
          /\ \A t, i : Holds(d, t, i)' = Holds(d, t, i)
          /\ \A K : Kinds(down[d], K)' = Kinds(down[d], K)
          /\ \A K, L : After(down[d], K, L)' = After(down[d], K, L)
          /\ down'[d] = down[d]
      BY <1>0, <2>0, UpKept
    <2>e. \A k \in 1..Len(up'[d]) : \E m \in 1..Len(up[d]) : up'[d][k] = up[d][m]
      BY <1>0, <2>0, UpFacts
    <2>f. \A k, l \in 1..Len(up'[d]) : k < l =>
            \E m, n \in 1..Len(up[d]) : m < n /\ up'[d][k] = up[d][m] /\ up'[d][l] = up[d][n]
      BY <1>0, <2>0, UpFacts
    <2>k. /\ Kinds(up[d], {2})'
          /\ \A K, L : After(up[d], K, L) => After(up[d], K, L)'
      BY <1>0, <1>a, <2>0, UpFacts
    <2>1. DatInv(d)'
      <3>1. ASSUME NEW k \in 1..Len(down[d]), down[d][k][1] = 2
            PROVE  down[d][k][4][2] <= sPos'[down[d][k][2]]
        <4>1. down[d][k] \in Frame
          BY <1>0, <2>0 DEF LinkType
        <4>2. down[d][k][4][2] \in Nat /\ down[d][k][2] \in Phase /\ down[d][k][4][2] <= sPos[down[d][k][2]]
          BY <4>1, <3>1, <2>0 DEF Frame, DatInv
        <4>3. CASE down[d][k][2] = p
          BY <4>2, <4>3, <1>2, <1>t
        <4>4. CASE down[d][k][2] # p
          BY <4>2, <4>4, <1>2
        <4> QED BY <4>3, <4>4
      <3> QED BY <3>1, <2>0, <2>u, <2>k, <1>a DEF DatInv
    <2>2. ASSUME NEW q \in Phase PROVE SyncInv(d, q)'
      <3>0. SyncInv(d, q)
        BY <2>0
      <3>1. CASE q # p
        <4>0. Got(d, q)' = Got(d, q) /\ sN'[q] = sN[q] /\ sPos'[q] = sPos[q] /\ sAck'[q] = sAck[q]
          BY <3>1, <1>2, <2>u DEF Got
        <4>1. ASSUME NEW k \in 1..Len(up'[d]), up'[d][k][1] = 2, up'[d][k][2] = q
              PROVE  \/ /\ up'[d][k][3] = sN[q] /\ Got(d, q)
                        /\ rState[d] = "data" => rPos[d][q] = sPos[q] + W
                     \/ Bump(up'[d][k][3]) = sN[q] /\ d \notin sAck[q]
          BY <3>0, <4>1, <2>e DEF SyncInv
        <4>2. ASSUME NEW k \in 1..Len(up'[d]), NEW l \in 1..Len(up'[d]), k < l,
                     up'[d][k][1] = 2, up'[d][l][1] = 2, up'[d][k][2] = q, up'[d][l][2] = q,
                     up'[d][k][3] = sN[q]
              PROVE  up'[d][l][3] = sN[q]
          <5>1. PICK m \in 1..Len(up[d]), n \in 1..Len(up[d]) :
                  m < n /\ up'[d][k] = up[d][m] /\ up'[d][l] = up[d][n]
            BY <4>2, <2>f
          <5> QED BY <3>0, <4>2, <5>1 DEF SyncInv
        <4> QED BY <3>0, <4>0, <4>1, <4>2, <2>u DEF SyncInv
      <3>2. CASE q = p
        <4>1. ASSUME NEW i \in 0..Sizes[tr] - 1, OfPhase(p, i), i < sPos[p] + W PROVE Holds(d, tr, i)
          <5>1. OfPhase(p, sPos[p])
            BY <1>t, NumberFacts
          <5>2. i \in Nat
            <6>1. Sizes[tr] \in Nat
              BY <1>0, NIAssumption, SMTT(30) DEF TypeOK, SendInv
            <6> QED BY <6>1
          <5>3. ~(sPos[p] < i)
            BY <4>1, <5>1, <5>2, <1>t, PhaseFacts
          <5>4. CASE i = sPos[p]
            BY <5>4, <1>a DEF Got
          <5>5. CASE i < sPos[p]
            BY <5>5, <3>0, <3>2, <4>1 DEF SyncInv
          <5> QED BY <5>2, <5>3, <5>4, <5>5, <1>t
        <4>2. \A k \in 1..Len(up'[d]) : up'[d][k][1] = 2 /\ up'[d][k][2] = p => up'[d][k][3] = sN[p]
          BY <1>a, <2>e
        <4>3. sN'[p] # sN[p]
          BY <1>2, <1>t, BumpFacts
        <4> QED BY <3>2, <4>1, <4>2, <4>3, <1>2, <1>a, <2>u DEF SyncInv
      <3> QED BY <3>1, <3>2
    <2> QED BY <2>1, <2>2
  <1> QED BY <1>1, <1>3, <1>4 DEF TargetInv

\* The last subframe is acknowledged: nothing is left to do, and every target
\* has the whole block.
LEMMA DataEnds ==
  ASSUME IInv, NEW c \in sTarget, NEW p \in Phase, AllAcked(c, p), sState = "data", LastOne
  PROVE  SendInv' /\ \A d \in sTarget : TargetInv(d)'
  <1>0. SendInv /\ TypeOK /\ LinkType /\ c \in Child /\ AckSeen(c) /\ tr' = tr /\ Len(up[c]) > 0
        /\ up[c][1][2] = p
    BY DEF IInv, TypeOK, AllAcked, AckSeen
  <1>1. /\ sPos' = [sPos EXCEPT ![p] = @ + W] /\ sState' = "end" /\ sAck' = [sAck EXCEPT ![p] = {}]
    BY DEF AllAcked, NextSubframe
  <1>t. /\ sPos[p] \in Nat /\ sRemain = 1 /\ tr \in 1..Len(Sizes) /\ Sizes[tr] \in Nat \ {0}
    BY <1>0, NIAssumption DEF SendInv, TypeOK, LastOne
  <1>2. sAck'[p] = {} /\ \A q \in Phase \ {p} : sAck'[q] = sAck[q]
    BY <1>0, <1>1 DEF TypeOK
  <1>a. ASSUME NEW d \in sTarget
        PROVE  /\ Got(d, p) /\ (rState[d] = "data" => rPos[d][p] = sPos[p] + W)
               /\ Kinds(up[d], {2}) /\ Kinds(down[d], {2}) /\ rState[d] \notin {"ctl", "end"}
    <2>1. d \in Acked(c, up[c][1][1], p, up[c][1][3])
      BY DEF AllAcked, Everyone
    <2> QED BY <2>1, <1>0, DataAcked
  <1>3. SendInv'
    BY <1>0, <1>1, <1>t DEF SendInv
  \* The one subframe that was left is the acknowledged one.
  <1>4. Todo = {sPos[p]}
    <2>1. sPos[p] < Sizes[tr]
      BY <1>a DEF Got
    <2>2. sPos[p] \in Todo /\ Todo' = Todo \ {sPos[p]} /\ IsFiniteSet(Todo) /\ Cardinality(Todo') = sRemain - 1
      BY <2>1, <1>0, <1>1, TodoShrinks
    <2>3. Cardinality(Todo \ {sPos[p]}) = 0 /\ IsFiniteSet(Todo \ {sPos[p]})
      BY <2>2, <1>t, FS_RemoveElement
    <2>4. Todo \ {sPos[p]} = {}
      BY <2>3, FS_EmptySet
    <2> QED BY <2>2, <2>4
  <1>5. ASSUME NEW d \in sTarget PROVE EndInv(d)'
    <2>0. d \in Child /\ DatInv(d) /\ \A q \in Phase : SyncInv(d, q)
      BY <1>0 DEF IInv, TypeOK, TargetInv
    <2>u. /\ rState'[d] = rState[d] /\ rInfo'[d] = rInfo[d] /\ tr' = tr
          /\ HasAll(d, tr)' = HasAll(d, tr)
          /\ \A K : Kinds(down[d], K)' = Kinds(down[d], K)
          /\ \A K, L : After(down[d], K, L)' = After(down[d], K, L)
      BY <1>0, <2>0, UpKept
    <2>k. Kinds(up[d], {2})'
      BY <1>0, <1>a, <2>0, UpFacts
    <2>1. HasAll(d, tr)
      <3> SUFFICES ASSUME NEW i \in 0..Sizes[tr] - 1 PROVE Holds(d, tr, i)
        BY DEF HasAll
      <3>1. i \in Nat
        BY <1>t
      <3>2. PICK q \in Phase : OfPhase(q, i)
        BY <3>1, SomePhase
      <3>3. CASE i = sPos[p]
        BY <3>3, <1>a DEF Got
      <3>4. CASE i # sPos[p]
        <4>1. ~(sPos[q] <= i) /\ sPos[q] \in Nat
          BY <3>2, <3>4, <1>0, <1>4 DEF Todo, TypeOK
        <4>2. i < sPos[q]
          BY <4>1, <3>1
        <4> QED BY <4>2, <3>2, <2>0 DEF SyncInv
      <3> QED BY <3>3, <3>4
    <2>2. \A q \in Phase : d \notin sAck'[q]
      <3> SUFFICES ASSUME NEW q \in Phase, d \in sAck'[q] PROVE FALSE
        OBVIOUS
      <3>1. q # p /\ d \in sAck[q]
        BY <1>2
      <3>2. sPos[q] < Sizes[tr] /\ sPos[q] \in Nat /\ OfPhase(q, sPos[q])
        <4>1. Got(d, q)
          BY <3>1, <2>0 DEF SyncInv
        <4>2. Numbered(q, sPos[q], sN[q]) /\ sPos[q] \in Nat /\ sN[q] \in 0..3
          BY <1>0 DEF SendInv, TypeOK
        <4> QED BY <4>1, <4>2, NumberFacts DEF Got
      <3>3. sPos[q] \in Todo
        BY <3>2, <1>t DEF Todo
      <3>4. sPos[q] = sPos[p]
        BY <3>3, <1>4
      <3>5. OfPhase(p, sPos[p])
        <4>1. Numbered(p, sPos[p], sN[p]) /\ sN[p] \in 0..3
          BY <1>0 DEF SendInv, TypeOK
        <4> QED BY <4>1, <1>t, NumberFacts
      <3> QED BY <3>1, <3>2, <3>4, <3>5, PhaseFacts
    <2>3. /\ ~Has(up[d], 3)' /\ Kinds(up[d], {2, 3})' /\ After(up[d], {3}, {3})'
      BY <2>k DEF Has, Kinds, After
    <2>4. Kinds(down[d], {2, 3}) /\ After(down[d], {3}, {3})
      BY <1>a DEF Kinds, After
    <2>5. rState[d] = "data" => rInfo[d] = tr
      BY <2>0 DEF DatInv
    <2> QED BY <1>a, <2>u, <2>1, <2>2, <2>3, <2>4, <2>5 DEF EndInv
  <1> QED BY <1>1, <1>3, <1>5 DEF TargetInv

\* The end is acknowledged: no trace of the block is left at a target or under way.
LEMMA EndAcked ==
  ASSUME IInv, NEW c \in sTarget, NEW p \in Phase, AllAcked(c, p), sState = "end"
  PROVE  SendInv' /\ \A d \in sTarget : TargetInv(d)'
  <1>0. SendInv /\ TypeOK /\ LinkType /\ c \in Child /\ AckSeen(c) /\ tr' = tr
        /\ up[c] \in Seq(Frame) /\ Len(up[c]) > 0
    BY DEF IInv, TypeOK, AllAcked, AckSeen
  <1>1. sState' = "acked"
    BY DEF AllAcked, NextSubframe
  <1>2. SendInv'
    BY <1>0, <1>1 DEF SendInv
  <1>3. ASSUME NEW d \in sTarget PROVE Quiet(d)
    <2>0. d \in Child /\ EndInv(d)
      BY <1>0 DEF IInv, TypeOK, TargetInv
    <2>1. d \in Acked(c, up[c][1][1], p, up[c][1][3])
      BY DEF AllAcked, Everyone
    <2>2. Kinds(down[d], {3}) /\ Kinds(up[d], {3}) /\ rState[d] # "data"
      <3>1. CASE d \in sAck[p]
        BY <3>1, <2>0 DEF EndInv
      <3>2. CASE d = c /\ up[c][1][1] = 3
        <4>1. 1 \in 1..Len(up[c]) /\ \A k \in 1..Len(up[c]) : k = 1 \/ 1 < k
          BY <1>0
        <4>2. After(up[d], {3}, {3})
          BY <2>0 DEF EndInv
        <4>3. Has(up[d], 3) /\ Kinds(up[d], {3})
          BY <3>2, <4>1, <4>2 DEF Has, Kinds, After
        <4> QED BY <4>3, <2>0 DEF EndInv
      <3> QED BY <2>1, <3>1, <3>2 DEF Acked, Kind
    <2>3. rState[d] # "ctl"
      BY <2>0 DEF EndInv
    <2> QED BY <2>2, <2>3 DEF Quiet, Kinds
  <1>4. \A d \in sTarget : Quiet(d)'
    BY <1>0, <1>3, CtlKept
  <1> QED BY <1>1, <1>2, <1>4 DEF TargetInv

\* The parent takes an acknowledgement.
LEMMA Acks ==
  ASSUME IInv, NEW c \in Child, NEW again \in BOOLEAN, CB_recvAck(c, again)
  PROVE  IInv'
  <1> DEFINE f == Head(up[c])
  <1>0. TypeOK /\ LinkType /\ SendInv
    BY DEF IInv
  <1>1. up[c] \in Seq(Frame) /\ up[c] # <<>> /\ up'[c] = IF again THEN up[c] ELSE Tail(up[c])
    BY <1>0 DEF LinkType, CB_recvAck
  <1>2. /\ up'[c] \in Seq(Frame) /\ Shifted(up[c], up'[c]) /\ Len(up[c]) \in Nat \ {0}
        /\ f = up[c][1] /\ f \in Frame
    <2>1. up'[c] \in Seq(Frame) /\ Shifted(up[c], up'[c]) /\ Len(up[c]) \in Nat \ {0}
          /\ up[c][1] = Head(up[c]) /\ up[c][1] \in Frame
      BY <1>1, TakeShifts
    <2> QED BY <2>1
  <1>3. UNCHANGED <<sTarget, sFirst, sBusy, ready, tr, receiver, down, gaveUp>>
    BY DEF CB_recvAck
  <1>4. AckSeen(c)
    BY <1>0, <1>1, <1>2, <1>3 DEF AckSeen, LinkType, CB_recvAck
  <1>5. LinkType'
    <2>1. up' \in [Child -> Seq(Frame)]
      BY <1>0, <1>2 DEF LinkType, CB_recvAck
    <2> QED BY <2>1, <1>0, <1>3 DEF LinkType
  <1>6. ChildInv'
    <2>1. \A d \in Child : ChildSame(d)
      BY <1>3 DEF ChildSame, receiver
    <2>2. tr' \in Nat /\ tr' >= tr
      BY <1>0, <1>3 DEF TypeOK
    <2> QED BY <2>1, <2>2, ChildKept DEF ChildInv
  <1>7. f[2] \in Phase
    BY <1>2 DEF Frame
  <1>8. CASE ~(c \in sTarget /\ c \in sBusy)
    <2>1. UNCHANGED <<sState, sPhase, sN, sAck, sPos, sRemain>>
      BY <1>8 DEF CB_recvAck
    <2>2. UNCHANGED <<sender, tr>>
      BY <2>1, <1>3 DEF sender
    <2>3. SendInv'
      BY <2>2, <1>0, SendKept
    <2>4. TypeOK'
      BY <1>0, <1>3, <2>1 DEF TypeOK, receiver
    <2>5. \A d \in sTarget : TargetInv(d)'
      BY <2>1, <1>4, SameSlot
    <2> QED BY <2>3, <2>4, <2>5, <1>3, <1>5, <1>6 DEF IInv
  <1>9. CASE c \in sTarget /\ c \in sBusy
    <2> DEFINE p == f[2]
    <2>0. NI_receive_Sender(c, f[1], p, f[3])
      BY <1>9 DEF CB_recvAck
    <2> HIDE DEF f
    <2>1. CASE ~Everyone(Acked(c, f[1], p, f[3]))
      <3>1. /\ sAck' = [sAck EXCEPT ![p] = Acked(c, up[c][1][1], p, up[c][1][3])]
            /\ UNCHANGED <<sState, sPhase, sN, sPos, sRemain>>
        BY <2>0, <2>1, <1>2 DEF NI_receive_Sender
      <3>2. TypeOK'
        <4>1. Acked(c, up[c][1][1], p, up[c][1][3]) \in SUBSET Child
          BY <1>0, <1>7 DEF Acked, TypeOK
        <4> QED BY <4>1, <3>1, <1>0, <1>3, <1>7 DEF TypeOK, receiver
      <3>3. SendInv'
        <4>1. Todo' = Todo
          BY <3>1, <1>3 DEF Todo
        <4>2. ASSUME sState = "ctl" PROVE \A q \in Phase \ {0} : sAck'[q] = {}
          <5>1. CtlInv(c) /\ 1 \in 1..Len(up[c])
            BY <4>2, <1>2, <1>9 DEF IInv, TargetInv
          <5>2. up[c][1][1] = 1 => p = 0
            BY <5>1, <1>2 DEF CtlInv
          <5>3. p # 0 => Acked(c, up[c][1][1], p, up[c][1][3]) = sAck[p]
            BY <4>2, <5>2 DEF Acked, Kind
          <5> QED BY <5>3, <4>2, <3>1, <1>0, <1>7 DEF SendInv, TypeOK
        <4> QED BY <4>1, <4>2, <3>1, <1>0, <1>3 DEF SendInv
      <3>4. \A d \in sTarget : TargetInv(d)'
        BY <3>1, <1>2, <1>4, <1>7, <1>9, OneAck
      <3> QED BY <3>2, <3>3, <3>4, <1>3, <1>5, <1>6 DEF IInv
    <2>2. CASE Everyone(Acked(c, f[1], p, f[3]))
      <3>1. AllAcked(c, p)
        BY <2>0, <2>2, <1>2, <1>4 DEF AllAcked, NI_receive_Sender
      <3>2. TypeOK'
        <4>0. /\ sAck' = [sAck EXCEPT ![p] = {}] /\ NextSubframe(p)
          BY <3>1 DEF AllAcked
        <4>t. /\ p \in Phase /\ 0 \in Phase /\ sN \in [Phase -> 0..3] /\ sPos \in [Phase -> Nat]
              /\ sPhase \in Phase /\ sRemain \in Nat /\ W \in Nat \ {0}
              /\ Bump(sN[p]) \in 0..3
          <5>1. p \in Phase /\ 0 \in Phase
            BY <1>7, NIAssumption DEF Phase
          <5>2. /\ sN \in [Phase -> 0..3] /\ sPos \in [Phase -> Nat]
                /\ sPhase \in Phase /\ sRemain \in Nat /\ W \in Nat \ {0}
            BY <1>0, NIAssumption DEF TypeOK
          <5>3. Bump(sN[p]) \in 0..3
            BY <5>1, <5>2, BumpFacts
          <5> QED BY <5>1, <5>2, <5>3
        <4>1. sAck' \in [Phase -> SUBSET Child]
          BY <4>0, <1>0 DEF TypeOK
        <4>2. /\ sState' \in {"none", "ctl", "data", "end", "acked", "ok", "failed"}
              /\ sN' \in [Phase -> 0..3] /\ sPos' \in [Phase -> Nat] /\ sRemain' \in Nat /\ sPhase' \in Phase
          <5>0. sState \in {"none", "ctl", "data", "end", "acked", "ok", "failed"}
            BY <1>0 DEF TypeOK
          <5>1. CASE sState \in {"ctl", "data"} /\ ~LastOne
            <6>1. /\ sN' = [sN EXCEPT ![p] = Bump(@)]
                  /\ sPos' = [sPos EXCEPT ![p] = @ + (IF sState = "ctl" THEN 1 ELSE W)]
                  /\ sRemain' = sRemain - 1
                  /\ UNCHANGED <<sState, sPhase>>
              BY <4>0, <5>1 DEF NextSubframe
            <6>2. sN' \in [Phase -> 0..3]
              BY <6>1, <4>t
            <6>3. sPos' \in [Phase -> Nat]
              BY <6>1, <4>t
            <6> QED BY <6>1, <6>2, <6>3, <5>0, <5>1, <4>t DEF LastOne
          <5>2. CASE sState = "ctl" /\ LastOne
            <6>1. /\ sN' = [q \in Phase |-> 1] /\ sPos' = [q \in Phase |-> q]
                  /\ sRemain' = Sizes[tr] /\ sPhase' = 0 /\ sState' = "data"
              BY <4>0, <5>2 DEF NextSubframe
            <6>2. sPos' \in [Phase -> Nat]
              <7>1. \A q \in Phase : q \in Nat
                BY DEF Phase
              <7> QED BY <6>1, <7>1
            <6>3. Sizes[tr] \in Nat
              BY <5>2, <1>0, NIAssumption DEF SendInv, TypeOK
            <6>4. sN' \in [Phase -> 0..3]
              BY <6>1
            <6> QED BY <6>1, <6>2, <6>3, <6>4, <4>t
          <5>3. CASE sState = "data" /\ LastOne
            <6>1. /\ sN' = [[sN EXCEPT ![p] = Bump(@)] EXCEPT ![0] = 0]
                  /\ sPos' = [sPos EXCEPT ![p] = @ + W]
                  /\ sRemain' = 0 /\ sPhase' = 0 /\ sState' = "end"
              BY <4>0, <5>3 DEF NextSubframe
            <6>2. sN' \in [Phase -> 0..3]
              BY <6>1, <4>t
            <6>3. sPos' \in [Phase -> Nat]
              BY <6>1, <4>t
            <6> QED BY <6>1, <6>2, <6>3, <4>t
          <5>4. CASE sState \notin {"ctl", "data"}
            <6>1. /\ sN' = [sN EXCEPT ![p] = Bump(@)]
                  /\ sState' = IF sState = "end" THEN "acked" ELSE sState
                  /\ UNCHANGED <<sPos, sRemain, sPhase>>
              BY <4>0, <5>4 DEF NextSubframe
            <6>2. sN' \in [Phase -> 0..3]
              BY <6>1, <4>t
            <6> QED BY <6>1, <6>2, <5>0, <4>t
          <5> QED BY <5>1, <5>2, <5>3, <5>4
        <4> QED BY <4>1, <4>2, <1>0, <1>3 DEF TypeOK, receiver
      <3>3. SendInv' /\ \A d \in sTarget : TargetInv(d)'
        <4>1. CASE sState = "ctl" /\ LastOne
          BY <4>1, <3>1, <1>7, <1>9, ControlEnds
        <4>2. CASE sState = "data" /\ LastOne
          BY <4>2, <3>1, <1>7, <1>9, DataEnds
        <4>3. CASE sState = "data" /\ ~LastOne
          BY <4>3, <3>1, <1>7, <1>9, DataOn
        <4>4. CASE sState = "end"
          BY <4>4, <3>1, <1>7, <1>9, EndAcked
        <4>5. CASE sState = "ctl" /\ ~LastOne
          <5>1. sState' = "ctl" /\ sPhase' = sPhase
            BY <4>5, <3>1 DEF AllAcked, NextSubframe
          <5>2. \A q \in Phase : sAck'[q] = {}
            BY <4>5, <3>1, <1>7, <1>9, ControlPhase
          <5>3. SendInv'
            BY <5>1, <5>2, <4>5, <1>0, <1>3 DEF SendInv
          <5>4. \A d \in sTarget : CtlInv(d)
            BY <4>5 DEF IInv, TargetInv
          <5>5. \A d \in sTarget : CtlInv(d)'
            BY <5>4, <1>4, CtlKept
          <5> QED BY <5>1, <5>3, <5>5 DEF TargetInv
        <4>6. CASE sState \in {"acked", "ok"}
          <5>1. sState' = sState
            BY <4>6, <3>1 DEF AllAcked, NextSubframe
          <5>2. SendInv'
            BY <5>1, <4>6, <1>0, <1>3 DEF SendInv
          <5>3. \A d \in sTarget : Quiet(d)
            BY <4>6 DEF IInv, TargetInv
          <5>4. \A d \in sTarget : Quiet(d)'
            BY <5>3, <1>4, CtlKept
          <5> QED BY <5>1, <5>2, <5>4, <4>6 DEF TargetInv
        <4>7. sState \notin {"none", "failed"}
          BY <1>0, <1>9 DEF SendInv
        <4> QED BY <4>1, <4>2, <4>3, <4>4, <4>5, <4>6, <4>7, <1>0 DEF TypeOK
      <3> QED BY <3>2, <3>3, <1>3, <1>5, <1>6 DEF IInv
    <2> QED BY <2>1, <2>2
  <1> QED BY <1>8, <1>9

-----------------------------------------------------------------------------
(* The invariant holds.                                                    *)

\* The invariant holds initially.
LEMMA InitInv == Init => IInv
  <1> SUFFICES ASSUME Init PROVE IInv
    OBVIOUS
  <1>0. 0 \in Phase /\ W \in Nat \ {0} /\ CtlLen \in Nat \ {0} /\ Len(Sizes) \in Nat
    BY NIAssumption DEF Phase
  <1>1. TypeOK
    <2>1. rBuf \in [Child -> [Place -> (0..Len(Sizes)) \X Place]]
      <3>1. Nothing \in (0..Len(Sizes)) \X Place
        BY <1>0, NIAssumption DEF Nothing, Place
      <3> QED BY <3>1 DEF Init
    <2>2. /\ sN \in [Phase -> 0..3] /\ sAck \in [Phase -> SUBSET Child] /\ sPos \in [Phase -> Nat]
      BY DEF Init
    <2>3. /\ rState \in [Child -> {"none", "ctl", "data", "end", "ok", "failed", "stopped"}]
          /\ rPhase \in [Child -> Phase] /\ rRemain \in [Child -> Int]
          /\ rInfo \in [Child -> 0..Len(Sizes)]
      BY <1>0 DEF Init
    <2>4. rN \in [Child -> [Phase -> 0..3]]
      BY DEF Init
    <2>5. rPos \in [Child -> [Phase -> Nat]]
      BY DEF Init
    <2> QED BY <1>0, <2>1, <2>2, <2>3, <2>4, <2>5, NIAssumption DEF Init, TypeOK
  <1>2. \A c \in Child : down[c] = <<>> /\ up[c] = <<>> /\ rState[c] = "none" /\ rInfo[c] = 0
    BY DEF Init
  <1>3. LinkType
    BY DEF Init, LinkType
  <1>4. ChildInv
    <2> SUFFICES ASSUME NEW c \in Child PROVE ChildOf(c)
      BY DEF ChildInv
    <2>1. Len(down[c]) = 0 /\ 1..Len(down[c]) = {}
      BY <1>2
    <2>2. QueueInv(c)
      BY <2>1 DEF QueueInv, Ordered, OneBlock, DataFrames, After
    <2>3. tr = 0 /\ rInfo[c] \in 0..tr
      BY <1>2 DEF Init
    <2> QED BY <1>2, <2>2, <2>3 DEF ChildOf, SlotInv, DataInv
  <1>5. SendInv /\ sTarget = {}
    BY DEF Init, SendInv
  <1> QED BY <1>1, <1>3, <1>4, <1>5 DEF IInv

\* Every step keeps it.
LEMMA NextInv == IInv /\ [Next]_vars => IInv'
  <1> SUFFICES ASSUME IInv, [Next]_vars PROVE IInv'
    OBVIOUS
  <1>1. CASE UNCHANGED vars
    <2>1. UNCHANGED <<sender, tr, receiver, down, up, ready, gaveUp>>
      BY <1>1 DEF vars
    <2>2. TypeOK' /\ LinkType'
      BY <2>1 DEF IInv, TypeOK, LinkType, sender, receiver
    <2>3. \A d \in Child : ChildSame(d)
      BY <2>1 DEF ChildSame, receiver
    <2>4. tr' \in Nat /\ tr' >= tr /\ sTarget' = sTarget /\ sTarget \subseteq Child
      BY <2>1 DEF IInv, TypeOK, sender
    <2>5. ChildInv'
      BY <2>3, <2>4, ChildKept DEF ChildInv
    <2>6. SendInv'
      BY <2>1, SendKept DEF IInv
    <2>7. \A d \in sTarget : TargetInv(d)'
      BY <2>1, <2>3, <2>4, TargetKept DEF IInv
    <2> QED BY <2>2, <2>4, <2>5, <2>6, <2>7 DEF IInv
  <1>2. CASE \E T \in SUBSET Child : NI_setSendData(T) \/ changeSendTarget(T)
    BY <1>2, Begins, Changes
  <1>3. CASE clearSend
    BY <1>3, ClearsSend
  <1>4. CASE \E c \in Child : clearRecv(c) \/ NI_stopReceivingData(c) \/ SendAck(c)
    BY <1>4, Drops, AckGoes
  <1>5. CASE \E heard \in SUBSET Child :
               REQ_sendOther(heard) \/ \E p \in Phase : REQ_sendData(p, heard)
    BY <1>5, OtherGoes, DataGoes
  <1>6. CASE \E err \in {0, 1} : CB_sendData(err)
    BY <1>6, SendReturns
  <1>7. CASE \E c \in Child, again \in BOOLEAN : CB_recvAck(c, again) \/ CB_recvData(c, again)
    BY <1>7, Acks, Receives
  <1> QED BY <1>1, <1>2, <1>3, <1>4, <1>5, <1>6, <1>7 DEF Next

\* The library keeps the invariant, for any number of children and phases, any
\* sizes of blocks and buffers, and any number of frames under way: whatever the
\* link loses or repeats, and whenever a program gives up.
THEOREM Invariance == SafeSpec => []IInv
  BY InitInv, NextInv, PTL DEF SafeSpec

\* Every variable of the two slots keeps its type; in particular no number of a
\* subframe leaves its two bits and nothing is written outside of Place.
THEOREM TypeCorrect == SafeSpec => []TypeOK
  <1>1. IInv => TypeOK
    BY DEF IInv
  <1> QED BY <1>1, Invariance, PTL

\* When rfu_CB_sendData reports success, no subframe of the block and no receiver
\* in the midst of it is left that a next block could be mistaken for.
THEOREM SuccessClean == SafeSpec => []SuccessIsClean
  <1>1. IInv => SuccessIsClean
    BY DEF IInv, TargetInv, SuccessIsClean
  <1> QED BY <1>1, Invariance, PTL

\* The loop of rfu_STC_NI_constructLLSF that looks for a phase with a subframe to
\* send always finds one: the phases have as many subframes left as are counted.
THEOREM PhaseFound == SafeSpec => []PhaseToSend
  <1>1. IInv => PhaseToSend
    <2> SUFFICES ASSUME IInv, sState = "data" PROVE \E p \in Phase : Live(p)
      BY DEF PhaseToSend
    <2>1. sRemain \in Nat /\ sRemain > 0 /\ Cardinality(Todo) = sRemain
      BY DEF IInv, TypeOK, SendInv
    <2>2. Todo # {}
      BY <2>1, FS_EmptySet
    <2>3. PICK i \in 0..Sizes[tr] - 1 : \E p \in Phase : OfPhase(p, i) /\ sPos[p] <= i
      BY <2>2 DEF Todo
    <2>4. Sizes[tr] \in Nat /\ \A p \in Phase : sPos[p] \in Nat
      BY NIAssumption DEF IInv, TypeOK, SendInv
    <2> QED BY <2>3, <2>4 DEF Live
  <1> QED BY <1>1, Invariance, PTL

-----------------------------------------------------------------------------
(* What a child's program gets to see.                                     *)

\* A child stores a piece of the block it receives, into its place.
Stores(c, i) ==
  /\ i \in Place /\ rInfo[c] \in 1..tr /\ i < Sizes[rInfo[c]] /\ i < BufLen
  /\ rBuf' = [rBuf EXCEPT ![c] = [@ EXCEPT ![i] = <<rInfo[c], i>>]]

\* rfu_STC_NI_receive_Receiver computes the place itself; it is that of the piece.
LEMMA DataStores ==
  ASSUME IInv, NEW c \in Child, Heard(c), RecvData(c, down[c][1])
  PROVE  rBuf' = rBuf \/ \E i \in Place : Stores(c, i)
  <1> DEFINE f == down[c][1]
             p == f[2]
  <1>1. rState[c] \in {"ctl", "data"} /\ f[1] = 2 /\ 1 \in 1..Len(down[c]) /\ f \in Frame
    BY HeardFacts DEF RecvData, DataBegins
  <1>2. p \in Phase /\ p \in Nat
    BY <1>1 DEF Frame, Phase
  <1>3. TypeOK /\ ChildOf(c)
    BY DEF IInv, ChildInv
  <1>4. f[4][2] < Sizes[f[4][1]] /\ f[4][1] \in 1..tr
    BY <1>1, <1>3 DEF ChildOf, QueueInv, DataFrames, OneBlock
  <1>5. Fits(c)
    BY <1>1, <1>3 DEF ChildOf, DataInv, RecvData
  <1>6. tr \in 0..Len(Sizes) /\ BufLen \in Nat /\ \A t \in 1..Len(Sizes) : Sizes[t] \in Nat
    BY <1>3, NIAssumption, SMTT(30) DEF TypeOK
  <1>7. CASE rState[c] = "ctl"
    <2>1. f[4] \in (0..Len(Sizes)) \X Place /\ f[4] = <<rInfo[c], p>>
      BY <1>7, FirstData
    <2>2. [q \in Phase |-> q][p] = p
      BY <1>2
    <2>3. rBuf' = rBuf \/ rBuf' = [rBuf EXCEPT ![c] = [@ EXCEPT ![p] = f[4]]]
      BY <1>7, <2>2 DEF RecvData
    <2>4. p \in Place /\ rInfo[c] \in 1..tr /\ p < Sizes[rInfo[c]] /\ p < BufLen
      BY <2>1, <1>2, <1>4, <1>5, <1>6 DEF Fits
    <2> QED BY <2>1, <2>3, <2>4 DEF Stores
  <1>8. CASE rState[c] = "data"
    <2> DEFINE i == rPos[c][p]
    <2>1. rBuf' = rBuf \/ (f[4] \in (0..Len(Sizes)) \X Place /\ f[4] = <<rInfo[c], i>>)
      BY <1>8, LaterData
    <2>2. rBuf' = rBuf \/ rBuf' = [rBuf EXCEPT ![c] = [@ EXCEPT ![i] = f[4]]]
      BY <1>8 DEF RecvData
    <2> SUFFICES ASSUME rBuf' # rBuf PROVE Stores(c, i)
      BY DEF Stores
    <2>3. i \in Nat
      BY <1>2, <1>3 DEF TypeOK
    <2>5. f[4][1] = rInfo[c] /\ f[4][2] = i /\ i \in Place
      BY <2>1
    <2> HIDE DEF f, p, i
    <2>4. i \in Place /\ rInfo[c] \in 1..tr /\ i < Sizes[rInfo[c]] /\ i < BufLen
      BY <2>3, <2>5, <1>4, <1>5, <1>6 DEF Fits
    <2> QED BY <2>1, <2>2, <2>4 DEF Stores
  <1> QED BY <1>1, <1>7, <1>8

\* Every call of rfu_CB_recvData at a child hears the first frame under way.
LEMMA RecvHears ==
  ASSUME IInv, NEW c \in Child, NEW again \in BOOLEAN, CB_recvData(c, again)
  PROVE  Heard(c) /\ Head(down[c]) = down[c][1]
  <1>0. LinkType
    BY DEF IInv
  <1>1. down[c] \in Seq(Frame) /\ down[c] # <<>> /\ down'[c] = IF again THEN down[c] ELSE Tail(down[c])
    BY <1>0 DEF LinkType, CB_recvData
  <1>2. /\ down'[c] \in Seq(Frame) /\ Shifted(down[c], down'[c]) /\ Len(down[c]) \in Nat \ {0}
        /\ down[c][1] = Head(down[c])
    BY <1>1, TakeShifts
  <1>3. UNCHANGED <<sender, ready, tr, up, gaveUp>>
    BY DEF CB_recvData
  <1> QED BY <1>1, <1>2, <1>3 DEF Heard

\* A child's memory changes only when a data subframe is taken.
LEMMA BufferStep ==
  ASSUME IInv, [Next]_vars
  PROVE  \/ rBuf' = rBuf
         \/ \E c \in Child, again \in BOOLEAN, i \in Place :
              CB_recvData(c, again) /\ RecvData(c, down[c][1]) /\ Stores(c, i)
  <1>1. CASE UNCHANGED vars
    BY <1>1 DEF vars, receiver
  <1>2. CASE \E T \in SUBSET Child : NI_setSendData(T) \/ changeSendTarget(T)
    BY <1>2 DEF NI_setSendData, changeSendTarget, receiver
  <1>3. CASE clearSend
    BY <1>3 DEF clearSend, receiver
  <1>4. CASE \E c \in Child : clearRecv(c) \/ NI_stopReceivingData(c) \/ SendAck(c)
    BY <1>4 DEF clearRecv, NI_stopReceivingData, SendAck, receiver
  <1>5. CASE \E heard \in SUBSET Child :
               REQ_sendOther(heard) \/ \E p \in Phase : REQ_sendData(p, heard)
    BY <1>5 DEF REQ_sendOther, REQ_sendData, receiver
  <1>6. CASE \E err \in {0, 1} : CB_sendData(err)
    BY <1>6 DEF CB_sendData, receiver
  <1>7. CASE \E c \in Child, again \in BOOLEAN : CB_recvAck(c, again)
    BY <1>7 DEF CB_recvAck, receiver
  <1>8. ASSUME NEW c \in Child, NEW again \in BOOLEAN, CB_recvData(c, again)
        PROVE  rBuf' = rBuf \/ (RecvData(c, down[c][1]) /\ \E i \in Place : Stores(c, i))
    <2>1. Heard(c) /\ Head(down[c]) = down[c][1]
      BY <1>8, RecvHears
    <2>2. rBuf' = rBuf \/ RecvData(c, down[c][1])
      BY <1>8, <2>1 DEF CB_recvData, RecvControl, RecvTooLong, RecvEnd, RecvNothing
    <2> QED BY <2>1, <2>2, DataStores
  <1> QED BY <1>1, <1>2, <1>3, <1>4, <1>5, <1>6, <1>7, <1>8 DEF Next

\* InPlace is inductive together with IInv.
LEMMA InPlaceStep == IInv /\ InPlace /\ [Next]_vars => InPlace'
  <1> SUFFICES ASSUME IInv, InPlace, [Next]_vars PROVE InPlace'
    OBVIOUS
  <1>1. CASE rBuf' = rBuf
    BY <1>1 DEF InPlace
  <1>2. ASSUME NEW c \in Child, NEW i \in Place, Stores(c, i) PROVE InPlace'
    <2>0. rBuf \in [Child -> [Place -> (0..Len(Sizes)) \X Place]]
      BY DEF IInv, TypeOK
    <2>1. \A d \in Child, j \in Place :
            rBuf'[d][j] = IF d = c /\ j = i THEN <<rInfo[c], i>> ELSE rBuf[d][j]
      BY <1>2, <2>0 DEF Stores
    <2>2. SUFFICES ASSUME NEW d \in Child, NEW j \in Place, rBuf'[d][j] # Nothing
                   PROVE  rBuf'[d][j][2] = j /\ j < Sizes[rBuf'[d][j][1]] /\ j < BufLen
      BY DEF InPlace
    <2>3. CASE d = c /\ j = i
      BY <1>2, <2>1, <2>3 DEF Stores
    <2>4. CASE ~(d = c /\ j = i)
      BY <2>1, <2>2, <2>4 DEF InPlace
    <2> QED BY <2>3, <2>4
  <1> QED BY <1>1, <1>2, BufferStep

\* rfu_STC_NI_receive_Receiver stores every piece at its place and inside of the
\* receive buffer.
THEOREM PiecesInPlace == SafeSpec => []InPlace
  <1>1. Init => InPlace
    BY DEF Init, InPlace
  <1> QED BY <1>1, InPlaceStep, Invariance, PTL DEF SafeSpec

-----------------------------------------------------------------------------
(* The library implements NITransfer.                                      *)

\* The refinement mapping.
Have == [c \in Child |-> Piece(c)]
ToldAll == [c \in Child |-> Told(c)]

\* A whole block at a child is a whole block for NITransfer.
LEMMA WholeBlock ==
  ASSUME NEW c \in Child, NEW t, HasAll(c, t) PROVE Transfer!Whole(c, t)
  <1>1. ASSUME NEW i \in 0..Sizes[t] - 1 PROVE Have[c][i] = t
    <2>1. i \in Place /\ rBuf[c][i] = <<t, i>>
      BY DEF HasAll, Holds
    <2> QED BY <2>1 DEF Have, Piece
  <1> QED BY <1>1 DEF Transfer!Whole, Have

\* The pieces are a function of the memory.
LEMMA HaveSame == ASSUME rBuf' = rBuf PROVE Have' = Have
  BY DEF Have, Piece

\* What was reported changes only with the state "ok".
LEMMA ToldSame ==
  ASSUME \A c \in Child : \/ rState'[c] = rState[c] /\ rInfo'[c] = rInfo[c]
                          \/ rState'[c] # "ok" /\ rState[c] # "ok"
  PROVE  ToldAll' = ToldAll
  BY DEF ToldAll, Told

\* A step that changes nothing NITransfer speaks of.
LEMMA Stutters ==
  ASSUME Status' = Status, tr' = tr, sTarget' = sTarget, Have' = Have, ToldAll' = ToldAll
  PROVE  UNCHANGED Transfer!vars
  BY DEF Transfer!vars, Have, ToldAll

\* The parent's part of the mapping.
LEMMA SenderSame == ASSUME UNCHANGED sender PROVE Status' = Status /\ sTarget' = sTarget
  BY DEF Status, sender

\* The children's part of the mapping.
LEMMA ReceiverSame == ASSUME UNCHANGED receiver PROVE Have' = Have /\ ToldAll' = ToldAll
  BY DEF Have, Piece, ToldAll, Told, receiver

\* A block is begun, or targets are dropped.
LEMMA ProgramSteps ==
  ASSUME IInv, NEW T \in SUBSET Child, NI_setSendData(T) \/ changeSendTarget(T)
  PROVE  Transfer!Next
  <1>1. Have' = Have /\ ToldAll' = ToldAll
    BY ReceiverSame DEF NI_setSendData, changeSendTarget
  <1>2. CASE NI_setSendData(T)
    <2>1. Status # "running" /\ Status' = "running"
      BY <1>2 DEF NI_setSendData, Sending, Status
    <2>2. Transfer!Begin(T)
      BY <1>1, <1>2, <2>1 DEF NI_setSendData, Transfer!Begin, Have, ToldAll
    <2> QED BY <2>2 DEF Transfer!Next
  <1>3. CASE changeSendTarget(T)
    <2>1. Status' = IF T = {} THEN "idle" ELSE Status
      BY <1>3 DEF changeSendTarget, Status
    <2>2. Transfer!Drop(T)
      BY <1>1, <1>3, <2>1 DEF changeSendTarget, Transfer!Drop, Have, ToldAll
    <2> QED BY <2>2 DEF Transfer!Next
  <1> QED BY <1>2, <1>3

\* Clearing the send slot drops all targets.
LEMMA ClearStep == ASSUME IInv, clearSend PROVE Transfer!Next
  <1>1. Have' = Have /\ ToldAll' = ToldAll
    BY ReceiverSame DEF clearSend
  <1>2. Status' = "idle"
    BY DEF clearSend, Status
  <1>3. Transfer!Drop({})
    BY <1>1, <1>2 DEF clearSend, Transfer!Drop, Have, ToldAll
  <1> QED BY <1>3 DEF Transfer!Next

\* Clearing a receive slot forgets what was reported.
LEMMA ForgetStep == ASSUME IInv, NEW c \in Child, clearRecv(c) PROVE Transfer!Next
  <1>0. /\ rState \in [Child -> {"none", "ctl", "data", "end", "ok", "failed", "stopped"}]
        /\ rInfo \in [Child -> 0..Len(Sizes)]
    BY DEF IInv, TypeOK
  <1>1. Have' = Have /\ Status' = Status /\ sTarget' = sTarget /\ tr' = tr
    BY HaveSame, SenderSame DEF clearRecv
  <1>2. \A d \in Child : Told(d)' = IF d = c THEN 0 ELSE Told(d)
    BY <1>0 DEF clearRecv, Told
  <1>3. ToldAll' = [ToldAll EXCEPT ![c] = 0]
    BY <1>2 DEF ToldAll
  <1>4. Transfer!Forget(c)
    BY <1>1, <1>3 DEF Transfer!Forget, Have, ToldAll
  <1> QED BY <1>4 DEF Transfer!Next

\* The sender reports success only with the acknowledgement of the end, which
\* EndInv relates to what the targets hold.
LEMMA AckStep ==
  ASSUME IInv, NEW c \in Child, NEW again \in BOOLEAN, CB_recvAck(c, again)
  PROVE  Transfer!Next \/ UNCHANGED Transfer!vars
  <1>0. Have' = Have /\ ToldAll' = ToldAll /\ sTarget' = sTarget /\ tr' = tr
    BY ReceiverSame DEF CB_recvAck
  <1>1. CASE sState' = sState
    <2>1. Status' = Status
      BY <1>1 DEF Status
    <2> QED BY <1>0, <2>1, Stutters
  <1>2. CASE sState' # sState
    <2>1. \E p : NextSubframe(p)
      BY <1>2 DEF CB_recvAck, NI_receive_Sender
    <2>2. \/ sState = "ctl" /\ sState' = "data"
          \/ sState = "data" /\ sState' = "end"
          \/ sState = "end" /\ sState' = "acked"
      BY <1>2, <2>1 DEF NextSubframe
    <2>3. CASE sState \in {"ctl", "data"}
      <3>1. Status' = Status
        BY <2>2, <2>3 DEF Status
      <3> QED BY <1>0, <3>1, Stutters
    <2>4. CASE sState = "end"
      <3>1. Status = "running" /\ Status' = "done"
        BY <2>2, <2>4 DEF Status
      <3>2. \A d \in sTarget : Transfer!Whole(d, tr)
        <4> SUFFICES ASSUME NEW d \in sTarget PROVE Transfer!Whole(d, tr)
          OBVIOUS
        <4>1. d \in Child /\ HasAll(d, tr)
          BY <2>4 DEF IInv, TypeOK, TargetInv, EndInv
        <4> QED BY <4>1, WholeBlock
      <3>3. Transfer!Finish
        BY <1>0, <3>1, <3>2 DEF Transfer!Finish, Have, ToldAll
      <3> QED BY <3>3 DEF Transfer!Next
    <2> QED BY <2>2, <2>3, <2>4
  <1> QED BY <1>1, <1>2

\* A data subframe is taken: its piece is stored.
LEMMA StoreStep ==
  ASSUME IInv, NEW c \in Child, NEW i \in Place, Stores(c, i), RecvData(c, down[c][1]),
         UNCHANGED <<sender, tr>>
  PROVE  Transfer!Next
  <1>0. /\ rState \in [Child -> {"none", "ctl", "data", "end", "ok", "failed", "stopped"}]
        /\ rBuf \in [Child -> [Place -> (0..Len(Sizes)) \X Place]]
        /\ tr \in 0..Len(Sizes) /\ Len(Sizes) \in Nat
    BY NIAssumption DEF IInv, TypeOK
  <1>1. Status' = Status /\ sTarget' = sTarget /\ tr' = tr
    BY SenderSame
  <1>2. ToldAll' = ToldAll
    <2>1. rState' = [rState EXCEPT ![c] = "data"] /\ rInfo' = rInfo /\ rState[c] \in {"ctl", "data"}
      BY DEF RecvData, DataBegins
    <2> QED BY <1>0, <2>1, ToldSame
  <1>3. \A d \in Child, j \in Place :
          rBuf'[d][j] = IF d = c /\ j = i THEN <<rInfo[c], i>> ELSE rBuf[d][j]
    BY <1>0 DEF Stores
  <1>4. \A d \in Child \ {c} : Piece(d)' = Piece(d)
    BY <1>3 DEF Piece
  <1>5. Piece(c)' = [Piece(c) EXCEPT ![i] = rInfo[c]]
    <2>1. rBuf'[c][i][2] = i /\ rBuf'[c][i][1] = rInfo[c]
      BY <1>3
    <2>2. \A j \in Place \ {i} : rBuf'[c][j] = rBuf[c][j]
      BY <1>3
    <2>3. \A j \in Place : Piece(c)'[j] = IF j = i THEN rInfo[c] ELSE Piece(c)[j]
      BY <2>1, <2>2 DEF Piece
    <2> QED BY <2>3 DEF Piece
  <1>6. Have' = [Have EXCEPT ![c] = [@ EXCEPT ![i] = rInfo[c]]]
    BY <1>4, <1>5 DEF Have
  <1>7. rInfo[c] \in 1..tr /\ i < Sizes[rInfo[c]] /\ rInfo[c] \in 1..Len(Sizes)
    BY <1>0 DEF Stores
  <1>8. Transfer!Store(c, rInfo[c], i)
    BY <1>1, <1>2, <1>6, <1>7 DEF Transfer!Store, Have, ToldAll
  <1> QED BY <1>7, <1>8 DEF Transfer!Next

\* A receiver closes: it has the whole block, and if that is the one the sender
\* is at, the sender has been told.
LEMMA ReportStep ==
  ASSUME IInv, NEW c \in Child, Heard(c), RecvNothing(c, down[c][1]),
         Closes(c, down[c][1][1])
  PROVE  Transfer!Next
  <1>0. /\ rState \in [Child -> {"none", "ctl", "data", "end", "ok", "failed", "stopped"}]
        /\ tr \in 0..Len(Sizes) /\ Len(Sizes) \in Nat /\ ChildOf(c) /\ SendInv /\ TypeOK
    BY NIAssumption, SMTT(30) DEF IInv, TypeOK, ChildInv
  <1>1. Have' = Have /\ Status' = Status /\ sTarget' = sTarget /\ tr' = tr
    BY HaveSame, SenderSame DEF RecvNothing, Heard
  <1>2. rState[c] = "end" /\ rState' = [rState EXCEPT ![c] = "ok"] /\ rInfo' = rInfo
    BY DEF RecvNothing, Closes
  <1>3. rInfo[c] \in 1..tr /\ rInfo[c] \in 1..Len(Sizes) /\ HasAll(c, rInfo[c])
    BY <1>0, <1>2 DEF ChildOf, SlotInv
  <1>4. \A d \in Child : Told(d)' = IF d = c THEN rInfo[c] ELSE Told(d)
    BY <1>0, <1>2 DEF Told
  <1>5. ToldAll' = [ToldAll EXCEPT ![c] = rInfo[c]]
    BY <1>4 DEF ToldAll
  <1>6. ASSUME rInfo[c] = tr, c \in sTarget PROVE Status = "done"
    <2>0. TargetInv(c)
      BY <1>6 DEF IInv
    <2>1. sState \notin {"none", "failed"}
      BY <1>0, <1>6 DEF SendInv
    <2>2. sState \notin {"ctl", "data"}
      BY <1>0, <1>2, <1>6, <2>0 DEF TargetInv, CtlInv, DatInv
    <2>3. sState # "end"
      <3>1. 1 \in 1..Len(down[c]) /\ down[c][1][1] # 3
        BY HeardFacts DEF Closes
      <3> QED BY <3>1, <1>2, <2>0 DEF TargetInv, EndInv, Kinds
    <2> QED BY <1>0, <2>1, <2>2, <2>3 DEF TypeOK, Status
  <1>7. Transfer!Whole(c, rInfo[c])
    BY <1>3, WholeBlock
  <1>8. Transfer!Report(c, rInfo[c])
    BY <1>1, <1>3, <1>5, <1>6, <1>7 DEF Transfer!Report, Have, ToldAll
  <1> QED BY <1>3, <1>8 DEF Transfer!Next

\* What a frame does to a child, seen from NITransfer.
LEMMA RecvStep ==
  ASSUME IInv, NEW c \in Child, NEW again \in BOOLEAN, CB_recvData(c, again)
  PROVE  Transfer!Next \/ UNCHANGED Transfer!vars
  <1> DEFINE f == down[c][1]
  <1>0. Heard(c) /\ UNCHANGED <<sender, tr>>
    BY RecvHears DEF Heard
  <1>1. RecvControl(c, f) \/ RecvTooLong(c, f) \/ RecvData(c, f) \/ RecvEnd(c, f) \/ RecvNothing(c, f)
    BY RecvHears DEF CB_recvData
  <1>2. Status' = Status /\ sTarget' = sTarget /\ tr' = tr
    BY <1>0, SenderSame
  <1>3. /\ rState \in [Child -> {"none", "ctl", "data", "end", "ok", "failed", "stopped"}]
        /\ rInfo \in [Child -> 0..Len(Sizes)]
    BY DEF IInv, TypeOK
  <1> HIDE DEF f
  <1>4. CASE RecvControl(c, f)
    <2>1. /\ rBuf' = rBuf /\ rState' = [rState EXCEPT ![c] = "ctl"] /\ rState[c] \in {"none", "ctl"}
          /\ \A d \in Child \ {c} : rInfo'[d] = rInfo[d]
      BY <1>3, <1>4 DEF RecvControl
    <2>2. ToldAll' = ToldAll
      BY <1>3, <2>1, ToldSame
    <2> QED BY <1>2, <2>1, <2>2, HaveSame, Stutters
  <1>5. CASE RecvTooLong(c, f) \/ RecvEnd(c, f)
    <2>1. /\ rBuf' = rBuf /\ rInfo' = rInfo /\ rState[c] # "ok"
          /\ rState' = [rState EXCEPT ![c] = "failed"] \/ rState' = [rState EXCEPT ![c] = "end"]
      BY <1>5 DEF RecvTooLong, RecvEnd, DataBegins
    <2>2. ToldAll' = ToldAll
      BY <1>3, <2>1, ToldSame
    <2> QED BY <1>2, <2>1, <2>2, HaveSame, Stutters
  <1>6. CASE RecvNothing(c, f)
    <2>1. CASE Closes(c, f[1])
      BY <1>0, <1>6, <2>1, ReportStep DEF f
    <2>2. CASE ~Closes(c, f[1])
      <3>1. rBuf' = rBuf /\ rInfo' = rInfo /\ rState' = rState
        BY <1>3, <1>6, <2>2 DEF RecvNothing
      <3> QED BY <1>2, <3>1, HaveSame, ToldSame, Stutters
    <2> QED BY <2>1, <2>2
  <1>7. CASE RecvData(c, f)
    <2>1. CASE rBuf' = rBuf
      <3>1. /\ rState' = [rState EXCEPT ![c] = "data"] /\ rInfo' = rInfo /\ rState[c] \in {"ctl", "data"}
        BY <1>7 DEF RecvData, DataBegins
      <3>2. ToldAll' = ToldAll
        BY <1>3, <3>1, ToldSame
      <3> QED BY <1>2, <2>1, <3>2, HaveSame, Stutters
    <2>2. CASE \E i \in Place : Stores(c, i)
      BY <1>0, <1>7, <2>2, StoreStep DEF f
    <2> QED BY <1>0, <1>7, <2>1, <2>2, DataStores DEF f
  <1> QED BY <1>1, <1>4, <1>5, <1>6, <1>7

\* Every step of the library is a step of NITransfer, or changes nothing of it.
LEMMA TransferStep == IInv /\ [Next]_vars => [Transfer!Next]_(Transfer!vars)
  <1> SUFFICES ASSUME IInv, [Next]_vars PROVE Transfer!Next \/ UNCHANGED Transfer!vars
    OBVIOUS
  <1>1. CASE UNCHANGED vars
    BY <1>1, SenderSame, ReceiverSame, Stutters DEF vars
  <1>2. CASE \E T \in SUBSET Child : NI_setSendData(T) \/ changeSendTarget(T)
    BY <1>2, ProgramSteps
  <1>3. CASE clearSend
    BY <1>3, ClearStep
  <1>4. ASSUME NEW c \in Child, clearRecv(c) \/ NI_stopReceivingData(c) \/ SendAck(c)
        PROVE  Transfer!Next \/ UNCHANGED Transfer!vars
    <2>1. CASE NI_stopReceivingData(c)
      <3>1. rState \in [Child -> {"none", "ctl", "data", "end", "ok", "failed", "stopped"}]
        BY DEF IInv, TypeOK
      <3>2. /\ rState[c] # "ok" /\ rInfo' = rInfo
            /\ rState' = [rState EXCEPT ![c] = "stopped"] \/ rState' = [rState EXCEPT ![c] = "failed"]
        BY <2>1 DEF NI_stopReceivingData, Receiving
      <3>3. ToldAll' = ToldAll
        BY <3>1, <3>2, ToldSame
      <3>4. UNCHANGED <<sender, tr, rBuf>>
        BY <2>1 DEF NI_stopReceivingData
      <3> QED BY <3>3, <3>4, SenderSame, HaveSame, Stutters
    <2>2. CASE SendAck(c)
      BY <2>2, SenderSame, ReceiverSame, Stutters DEF SendAck
    <2> QED BY <1>4, <2>1, <2>2, ForgetStep
  <1>5. CASE \E heard \in SUBSET Child :
               REQ_sendOther(heard) \/ \E p \in Phase : REQ_sendData(p, heard)
    <2>1. UNCHANGED <<receiver, tr, sState, sTarget>>
      BY <1>5 DEF REQ_sendOther, REQ_sendData, sender
    <2>2. Status' = Status
      BY <2>1 DEF Status
    <2> QED BY <2>1, <2>2, ReceiverSame, Stutters
  <1>6. CASE \E err \in {0, 1} : CB_sendData(err)
    <2>1. UNCHANGED <<receiver, tr, sTarget>> /\ (sState' = sState \/ (sState = "acked" /\ sState' = "ok"))
      BY <1>6 DEF CB_sendData
    <2>2. Status' = Status
      BY <2>1 DEF Status
    <2> QED BY <2>1, <2>2, ReceiverSame, Stutters
  <1>7. CASE \E c \in Child, again \in BOOLEAN : CB_recvAck(c, again) \/ CB_recvData(c, again)
    BY <1>7, AckStep, RecvStep
  <1> QED BY <1>1, <1>2, <1>3, <1>4, <1>5, <1>6, <1>7 DEF Next

\* The library implements NITransfer: what sender and receivers report is true,
\* although a subframe names neither its block nor its place.
THEOREM Implements == SafeSpec => ImplementsTransfer
  <1>1. Init => Transfer!Init
    <2> SUFFICES ASSUME Init PROVE Transfer!Init
      OBVIOUS
    <2>1. Status = "idle" /\ tr = 0 /\ sTarget = {}
      BY DEF Init, Status
    <2>2. \A c \in Child : Piece(c) = [i \in Place |-> 0] /\ Told(c) = 0
      BY DEF Init, Piece, Told, Nothing
    <2> QED BY <2>1, <2>2 DEF Transfer!Init
  <1> QED BY <1>1, TransferStep, Invariance, PTL DEF SafeSpec, ImplementsTransfer, Transfer!Spec
=============================================================================
