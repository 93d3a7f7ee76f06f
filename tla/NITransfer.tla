----------------------------- MODULE NITransfer -----------------------------
(***************************************************************************)
(* What rfu_NI_setSendData promises a program: the pieces of a block reach *)
(* the receivers one by one, each into its place; the sender reports       *)
(* success only when every receiver it still counts on has all of them,    *)
(* and a receiver reports success only for a whole block, and not while    *)
(* the sender still waits for that receiver.                               *)
(*                                                                         *)
(* Module RfuNI implements this with numbered subframes over a link that   *)
(* loses and repeats them.                                                 *)
(***************************************************************************)
EXTENDS Integers, Sequences

CONSTANTS
  Child,   \* receivers
  Sizes,   \* number of pieces of each block
  Place    \* places of a receiver's memory

VARIABLES
  status,  \* of the sender: "idle", "running" or "done"
  tr,      \* number of blocks begun
  target,  \* receivers the sender counts on
  have,    \* have[c][i]: the block whose piece i is at place i, or 0
  told     \* told[c]: the block reported to the program of receiver c, or 0

vars == <<status, tr, target, have, told>>

Whole(c, t) == \A i \in 0..Sizes[t] - 1 : have[c][i] = t

Init ==
  /\ status = "idle" /\ tr = 0 /\ target = {}
  /\ have = [c \in Child |-> [i \in Place |-> 0]]
  /\ told = [c \in Child |-> 0]

Begin(T) ==
  /\ status # "running" /\ tr < Len(Sizes)
  /\ status' = "running" /\ tr' = tr + 1 /\ target' = T
  /\ UNCHANGED <<have, told>>

\* A piece arrives; it may belong to a block the sender has given up.
Store(c, t, i) ==
  /\ t \in 1..tr /\ i < Sizes[t]
  /\ have' = [have EXCEPT ![c] = [@ EXCEPT ![i] = t]]
  /\ UNCHANGED <<status, tr, target, told>>

Finish ==
  /\ status = "running"
  /\ \A c \in target : Whole(c, tr)
  /\ status' = "done"
  /\ UNCHANGED <<tr, target, have, told>>

\* The program drops receivers, all of them to give the block up.
Drop(T) ==
  /\ T \subseteq target
  /\ status' = IF T = {} THEN "idle" ELSE status
  /\ target' = T
  /\ UNCHANGED <<tr, have, told>>

Report(c, t) ==
  /\ t \in 1..tr /\ Whole(c, t)
  /\ t = tr /\ c \in target => status = "done"
  /\ told' = [told EXCEPT ![c] = t]
  /\ UNCHANGED <<status, tr, target, have>>

Forget(c) ==
  /\ told' = [told EXCEPT ![c] = 0]
  /\ UNCHANGED <<status, tr, target, have>>

Next ==
  \/ \E T \in SUBSET Child : Begin(T) \/ Drop(T)
  \/ \E c \in Child, t \in 1..Len(Sizes), i \in Place : Store(c, t, i)
  \/ Finish
  \/ \E c \in Child, t \in 1..Len(Sizes) : Report(c, t)
  \/ \E c \in Child : Forget(c)

Spec == Init /\ [][Next]_vars
=============================================================================
