----------------------------- MODULE SaveStore -----------------------------
(***************************************************************************)
(* What the flash save library promises a program whose chip is sound: a   *)
(* store of sectors and one request at a time.  While a request runs, its  *)
(* sector may hold anything and every other sector keeps its contents.  A  *)
(* request that reports success has done what it was asked for.  A power   *)
(* failure ends a request and tells nobody.                                *)
(*                                                                         *)
(* There are no banks, commands, polls, timers and retries here; module    *)
(* Flash is shown to implement this one.                                   *)
(***************************************************************************)
EXTENDS Integers

CONSTANTS
  Sectors,   \* sectors of the store
  Offsets,   \* offsets of bytes in a sector
  Contents,  \* what a sector may hold
  Blank      \* what an erased sector holds

VARIABLES
  store,                           \* the contents of the sectors
  running,                         \* 1 while a request runs
  kind, target, image, length, at, \* what is asked for
  outcome                          \* of the last request: "none", "ok" or "failed"

request == <<kind, target, image, length, at>>
vars    == <<store, running, request, outcome>>

Kinds == {"chip", "erase", "byte", "sector", "verify"}

Init ==
  /\ store = [s \in Sectors |-> Blank] /\ running = 0 /\ outcome = "none"
  /\ kind = "none" /\ target = 0 /\ image = Blank /\ length = 0 /\ at = 0

Begin ==
  /\ running = 0 /\ running' = 1
  /\ kind' \in Kinds /\ target' \in Nat /\ image' \in Contents /\ length' \in Nat /\ at' \in Nat
  /\ outcome' = "none"
  /\ UNCHANGED store

\* Nothing but the sector of the request changes.
OthersKept == \A s \in Sectors : s = target \/ kind = "chip" \/ store'[s] = store[s]

Work ==
  /\ running = 1 /\ OthersKept
  /\ store' \in [Sectors -> Contents]
  /\ UNCHANGED <<running, request, outcome>>

\* The request has been carried out.
Done ==
  CASE kind = "chip"   -> \A s \in Sectors : store[s] = Blank
    [] kind = "erase"  -> target \in Sectors /\ store[target] = Blank
    [] kind = "byte"   -> target \in Sectors /\ at \in Offsets /\ store[target][at] = image[at]
    [] kind = "sector" -> target \in Sectors /\ store[target] = image
    [] kind = "verify" -> /\ target \in Sectors
                           /\ \A o \in Offsets : o < length => store[target][o] = image[o]

Finish ==
  /\ running = 1 /\ running' = 0
  /\ outcome' \in {"ok", "failed"} /\ (outcome' = "ok" => Done)
  /\ UNCHANGED <<store, request>>

PowerFailure ==
  /\ running' = 0 /\ outcome' = "none"
  /\ IF running = 1 THEN OthersKept /\ store' \in [Sectors -> Contents] ELSE UNCHANGED store
  /\ kind' = "none" /\ target' = 0 /\ image' = Blank /\ length' = 0 /\ at' = 0

Next == Begin \/ Work \/ Finish \/ PowerFailure

Spec == Init /\ [][Next]_vars
=============================================================================
