---------------------------- MODULE GcnMultiboot ----------------------------
(***************************************************************************)
(* The GameCube multi-boot library (libgcnmultiboot): a handshake and an   *)
(* image transfer driven by the serial interrupt, one handler routine per  *)
(* step, while GameCubeMultiBoot_Main, called by the program again and     *)
(* again, checks and decrypts what has arrived.                            *)
(*                                                                         *)
(* Main and the handler share the structure and are not synchronised but   *)
(* for the two places that clear IME.  A step of Main is what lies between *)
(* two accesses to fields the handler also writes; the handler is one      *)
(* step.  The GameCube is external: any flags, any words.                  *)
(*                                                                         *)
(* What is in JOY_TRANS is told by the handler that waits for it to be     *)
(* sent.  Pointers count words from the load address.  Keys, hashes and    *)
(* the counters that feed them are abstracted to whether they belong       *)
(* together.                                                               *)
(***************************************************************************)
EXTENDS Integers

CONSTANTS
  HeaderWords,   \* words up to ROM_HEADER_NINTENDO_LOGO_END
  MaximumImageSizeUInt32s,  \* GameCubeMultiBoot_MaximumImageSizeUInt32s
  CounterLimit,  \* 10, the calls of Main that counter1 allows without an interrupt
  Burst          \* most serial interrupts from the read of curDestPtr to the end
                 \* of the logo check; anywhere else there is no bound

ASSUME BoundsAssumption ==
  /\ HeaderWords \in Nat /\ HeaderWords >= 3 /\ MaximumImageSizeUInt32s \in Nat \ {0}
  /\ CounterLimit \in Nat /\ Burst \in Nat

MaxWords == 2 * MaximumImageSizeUInt32s
Words    == 0..MaxWords - 1

\* What a word is: not received yet, a word of the logo, another word as it
\* was received, decrypted, or decrypted though it should not have been.
Contents == {"none", "logo", "cipher", "plain", "spoilt"}

Handlers ==
  {"none", "Stop", "CheckGameCodeSent", "CheckHandshakeResponse", "ReceiveKeyA", "CheckKeyBSent",
   "CheckImageSizeResponse", "CheckImageResponse", "CheckCounter2Sent", "CheckKeyCDerivationSent",
   "CheckBootKeyResponse", "StopUnconditionally"}

VARIABLES
  counter1, mbProgress, keys, keyC, bootKey, imageSize, hashVal, keyCDerivation,
  baseDestPtr, curDestPtr, serialIntrHandler,   \* fields of the structure
  mem,                 \* the words from the load address on
  joystat,             \* JOYSTAT >> 4
  ime, serial,         \* IME and the serial bit of IE
  pc, r1, r2, expired, \* Main: where it is, the pointers it has read, the carry flag
  booted,              \* ExecuteProgram has jumped to the image
  quiet,               \* history: calls of Main since the last interrupt or Init
  size,                \* history: words announced since the last Init, or 0
  burst                \* history: interrupts in the last logo check

keyVars  == <<keyC, bootKey, keyCDerivation>>
imgVars  == <<imageSize, keys, hashVal>>
ptrVars  == <<baseDestPtr, curDestPtr>>
irqVars  == <<ime, serial>>
regVars  == <<r1, r2, expired>>
histVars == <<quiet, size, burst>>
vars == <<counter1, mbProgress, keyVars, imgVars, ptrVars, serialIntrHandler, mem,
          joystat, irqVars, pc, regVars, booted, histVars>>

NONE == 0            \* MBPROGRESS_NONE
LOGO_CORRECT == 1    \* MBPROGRESS_LOGO_CORRECT
READY_TO_BOOT == 2   \* MBPROGRESS_READY_TO_BOOT

TypeOK ==
  /\ counter1 \in 0..CounterLimit + 1 /\ mbProgress \in {NONE, LOGO_CORRECT, READY_TO_BOOT}
  /\ keyC \in {0, 1} /\ keyCDerivation \in {0, 1} /\ bootKey \in {"zero", "right", "wrong"}
  /\ imageSize \in 0..MaxWords /\ keys \in {"other", "agreed"}
  /\ hashVal \in {"other", "agreed"}
  /\ curDestPtr \in 0..MaxWords /\ baseDestPtr \in 0..MaxWords + 1
  /\ serialIntrHandler \in Handlers /\ mem \in [Words -> Contents]
  /\ joystat \in 0..3
  /\ ime \in {0, 1} /\ serial \in {0, 1}
  /\ pc \in {"idle", "mask", "count", "store", "unmask", "init", "cur", "base", "logo", "matched", "keys",
             "decrypt", "save", "size", "ptrs", "keyC", "derive", "boot", "ready"}
  /\ r1 \in 0..MaxWords + CounterLimit /\ r2 \in 0..MaxWords + 1 /\ expired \in {0, 1}
  /\ booted \in {0, 1} /\ quiet \in 0..CounterLimit + 1 /\ size \in 0..MaxWords /\ burst \in 0..Burst

\* The structure is zero; the program has not called Init yet.
Init ==
  /\ counter1 = 0 /\ mbProgress = NONE /\ keyC = 0 /\ keyCDerivation = 0 /\ bootKey = "zero"
  /\ imageSize = 0 /\ keys = "other" /\ hashVal = "other" /\ curDestPtr = 0 /\ baseDestPtr = 0
  /\ serialIntrHandler = "none" /\ mem = [i \in Words |-> "none"]
  /\ joystat = 0 /\ ime = 1 /\ serial = 0
  /\ pc = "idle" /\ r1 = 0 /\ r2 = 0 /\ expired = 0 /\ booted = 0
  /\ quiet = 0 /\ size = 0 /\ burst = 0

-----------------------------------------------------------------------------
(***************************************************************************)
(* GameCubeMultiBoot_Init, with interrupts disabled: it clears the fields  *)
(* before the pointers, and the pointers keep their values.                *)
(***************************************************************************)
ClearStruct ==
  /\ counter1' = 0 /\ mbProgress' = NONE /\ keyC' = 0 /\ keyCDerivation' = 0 /\ bootKey' = "zero"
  /\ imageSize' = 0 /\ keys' = "other" /\ hashVal' = "other"
  /\ UNCHANGED ptrVars

Initialise ==
  /\ ClearStruct
  /\ serialIntrHandler' = "Stop"
  /\ joystat' = 0 /\ serial' = 1
  /\ pc' = "idle" /\ r1' = 0 /\ r2' = 0 /\ expired' = 0
  /\ quiet' = 0 /\ size' = 0 /\ burst' = 0
  /\ UNCHANGED <<mem, ime, booted>>

GameCubeMultiBoot_Init == pc = "idle" /\ booted = 0 /\ Initialise

GameCubeMultiBoot_Quit ==
  /\ pc = "idle" /\ booted = 0 /\ serial = 1
  /\ serial' = 0
  /\ UNCHANGED <<counter1, mbProgress, keyVars, imgVars, ptrVars, serialIntrHandler, mem,
                 joystat, ime, pc, regVars, booted, histVars>>

GameCubeMultiBoot_ExecuteProgram ==
  /\ pc = "idle" /\ booted = 0 /\ mbProgress = READY_TO_BOOT
  /\ ime' = 0 /\ booted' = 1
  /\ UNCHANGED <<counter1, mbProgress, keyVars, imgVars, ptrVars, serialIntrHandler, mem,
                 joystat, serial, pc, regVars, histVars>>

-----------------------------------------------------------------------------
(***************************************************************************)
(* GameCubeMultiBoot_HandleSerialInterrupt.                                *)
(***************************************************************************)

\* Main is between its read of curDestPtr and the mark that the logo is right:
\* some forty words are compared, where a word on the JOY bus takes thousands
\* of cycles.
LogoCheck == mbProgress = NONE /\ pc \in {"base", "logo", "matched"}

\* The interrupt is taken: its flags are acknowledged, counter1 is cleared.
Serial ==
  /\ serial = 1 /\ ime = 1
  /\ LogoCheck => burst < Burst
  /\ burst' = IF LogoCheck THEN burst + 1 ELSE burst
  /\ counter1' = 0 /\ quiet' = 0
  /\ UNCHANGED <<irqVars, pc, regVars, booted>>

SetInterruptHandler(handler) == serialIntrHandler' = handler

\* GcMbIntrHandler_Stop.
Stop ==
  /\ joystat' = 0 /\ SetInterruptHandler("none")
  /\ UNCHANGED <<mbProgress, keyVars, imgVars, ptrVars, mem, size>>

NoHandler ==
  /\ Serial /\ serialIntrHandler = "none"
  /\ UNCHANGED <<mbProgress, keyVars, imgVars, ptrVars, serialIntrHandler, mem, joystat,
                 size>>

\* A device reset, whatever the handler.
BeginHandshake_AnyProgress ==
  /\ Serial /\ serialIntrHandler # "none"
  /\ joystat' = 1 /\ SetInterruptHandler("CheckGameCodeSent")
  /\ baseDestPtr' = 0 /\ curDestPtr' = 0
  /\ keys' = "other"
  /\ UNCHANGED <<mbProgress, keyVars, imageSize, hashVal, mem, size>>
BeginHandshake ==
  /\ Serial /\ serialIntrHandler # "none"
  /\ \/ /\ mbProgress # NONE
        /\ joystat' = 0 /\ SetInterruptHandler("none")
        /\ UNCHANGED ptrVars
     \/ /\ mbProgress = NONE
        /\ joystat' = 1 /\ SetInterruptHandler("CheckGameCodeSent")
        /\ baseDestPtr' = 0 /\ curDestPtr' = 0
  /\ keys' = "other"
  /\ UNCHANGED <<mbProgress, keyVars, imageSize, hashVal, mem, size>>

\* The handler stops: nothing was received or sent, or the wrong word, or the
\* handler is one of those that always stop.
StopsAtOnce ==
  /\ Serial /\ serialIntrHandler # "none"
  /\ Stop

\* A handler that waits for its word to be sent does not wait for the answer.
Sent(handler, next) ==
  /\ Serial /\ serialIntrHandler = handler
  /\ SetInterruptHandler(next)
  /\ UNCHANGED <<mbProgress, keyVars, imgVars, ptrVars, mem, joystat, size>>

\* The answer to what a handler sent, to be received by it or by the next one.
Answered(handler, next) ==
  Serial /\ serialIntrHandler \in {handler, next}

\* The game code came back.
HandshakeResponse ==
  /\ Answered("CheckGameCodeSent", "CheckHandshakeResponse")
  /\ keys' = "other"
  /\ SetInterruptHandler("ReceiveKeyA")
  /\ UNCHANGED <<mbProgress, keyVars, imageSize, hashVal, ptrVars, mem, joystat, size>>

\* KeyA; with it the keys of this session are fixed.
ReceiveKeyA ==
  /\ Serial /\ serialIntrHandler = "ReceiveKeyA"
  /\ keys' = "agreed" /\ hashVal' = "other"
  /\ joystat' = 3
  /\ SetInterruptHandler("CheckKeyBSent")
  /\ UNCHANGED <<mbProgress, keyVars, imageSize, ptrVars, mem, size>>

\* The image size, in pairs of words less one.
ImageSizeResponse_AnyProgress(v) ==
  /\ Answered("CheckKeyBSent", "CheckImageSizeResponse")
  /\ v < MaximumImageSizeUInt32s
  /\ imageSize' = 2 * (v + 1) /\ size' = 2 * (v + 1)
  /\ baseDestPtr' = 0 /\ curDestPtr' = 0
  /\ SetInterruptHandler("CheckImageResponse")
  /\ UNCHANGED <<mbProgress, keyVars, keys, hashVal, mem, joystat>>

ImageSizeResponse(v) ==
  /\ Answered("CheckKeyBSent", "CheckImageSizeResponse")
  /\ v < MaximumImageSizeUInt32s
  /\ imageSize' = 2 * (v + 1) /\ size' = 2 * (v + 1)
  /\ \/ /\ mbProgress # NONE
        /\ joystat' = 0 /\ SetInterruptHandler("none")
        /\ UNCHANGED ptrVars
     \/ /\ mbProgress = NONE
        /\ baseDestPtr' = 0 /\ curDestPtr' = 0
        /\ SetInterruptHandler("CheckImageResponse")
        /\ UNCHANGED joystat
  /\ UNCHANGED <<mbProgress, keyVars, keys, hashVal, mem>>

\* A word of the image; after the last one, counter2 is sent.
ImageResponse_OneMore(word) ==
  /\ Serial /\ serialIntrHandler = "CheckImageResponse"
  /\ joystat' = 2 + (curDestPtr % 2)
  /\ mem' = [i \in Words |-> IF i = curDestPtr THEN word ELSE mem[i]]
  /\ curDestPtr' = curDestPtr + 1
  /\ imageSize' = imageSize - 1
  /\ \/ imageSize # 0 /\ UNCHANGED serialIntrHandler
     \/ imageSize = 0 /\ SetInterruptHandler("CheckCounter2Sent")
  /\ UNCHANGED <<mbProgress, keyVars, keys, hashVal, baseDestPtr, size>>
ImageResponse(word) ==
  /\ Serial /\ serialIntrHandler = "CheckImageResponse"
  /\ joystat' = 2 + (curDestPtr % 2)
  /\ mem' = [i \in Words |-> IF i = curDestPtr THEN word ELSE mem[i]]
  /\ curDestPtr' = curDestPtr + 1
  /\ imageSize' = imageSize - 1
  /\ \/ imageSize' # 0 /\ UNCHANGED serialIntrHandler
     \/ imageSize' = 0 /\ SetInterruptHandler("CheckCounter2Sent")
  /\ UNCHANGED <<mbProgress, keyVars, keys, hashVal, baseDestPtr, size>>

\* counter2 again and again until Main has made the KeyC derivation.
Counter2Sent ==
  /\ Serial /\ serialIntrHandler = "CheckCounter2Sent"
  /\ \/ keyCDerivation = 0 /\ UNCHANGED serialIntrHandler
     \/ keyCDerivation # 0 /\ SetInterruptHandler("CheckKeyCDerivationSent")
  /\ UNCHANGED <<mbProgress, keyVars, imgVars, ptrVars, mem, joystat, size>>

BootKeyResponse(key) ==
  /\ Answered("CheckKeyCDerivationSent", "CheckBootKeyResponse")
  /\ bootKey' = key
  /\ SetInterruptHandler("StopUnconditionally")
  /\ UNCHANGED <<mbProgress, keyC, keyCDerivation, imgVars, ptrVars, mem, joystat, size>>

HandleSerialInterrupt ==
  \/ NoHandler \/ BeginHandshake \/ StopsAtOnce
  \/ Sent("CheckGameCodeSent", "CheckHandshakeResponse") \/ HandshakeResponse
  \/ ReceiveKeyA
  \/ Sent("CheckKeyBSent", "CheckImageSizeResponse")
  \/ \E v \in 0..MaximumImageSizeUInt32s : ImageSizeResponse(v)
  \/ \E word \in {"logo", "cipher"} : ImageResponse(word)
  \/ Counter2Sent
  \/ Sent("CheckKeyCDerivationSent", "CheckBootKeyResponse")
  \/ \E key \in {"zero", "right", "wrong"} : BootKeyResponse(key)

-----------------------------------------------------------------------------
(***************************************************************************)
(* GameCubeMultiBoot_Main.                                                 *)
(***************************************************************************)

\* A step of Main that goes on at next and changes nothing the handler sees.
Local(at, next) ==
  /\ pc = at /\ pc' = next
  /\ UNCHANGED <<mbProgress, keyVars, imgVars, serialIntrHandler, mem, joystat, serial, booted, size>>

\* No handler: the structure is initialised.  Ready: there is nothing to do.
GameCubeMultiBoot_Main ==
  /\ serial = 1 /\ booted = 0
  /\ quiet' = IF quiet <= CounterLimit THEN quiet + 1 ELSE quiet
  /\ Local("idle", CASE serialIntrHandler = "none"  -> "init"
                     [] serialIntrHandler # "none" /\ mbProgress = READY_TO_BOOT -> "idle"
                     [] OTHER                       -> "mask")
  /\ UNCHANGED <<counter1, ptrVars, ime, regVars, burst>>

\* Interrupts are disabled while counter1 is incremented.
Mask_Leaves ==
  /\ Local("mask", "count")
  /\ UNCHANGED <<counter1, ptrVars, ime, regVars, quiet, burst>>
Mask ==
  /\ Local("mask", "count") /\ ime' = 0
  /\ UNCHANGED <<counter1, ptrVars, regVars, quiet, burst>>

LoadCounter ==
  /\ Local("count", "store") /\ r1' = counter1
  /\ UNCHANGED <<counter1, ptrVars, ime, r2, expired, quiet, burst>>

StoreCounter_NeverExpires ==
  /\ Local("store", "unmask")
  /\ counter1' = IF r1 > CounterLimit THEN counter1 ELSE r1 + 1
  /\ expired' = 0
  /\ UNCHANGED <<ptrVars, ime, r1, r2, quiet, burst>>
StoreCounter ==
  /\ Local("store", "unmask")
  /\ counter1' = IF r1 > CounterLimit THEN counter1 ELSE r1 + 1
  /\ expired' = IF r1 > CounterLimit THEN 1 ELSE 0
  /\ UNCHANGED <<ptrVars, ime, r1, r2, quiet, burst>>

Unmask ==
  /\ Local("unmask", IF expired = 1 THEN "init" ELSE "cur") /\ ime' = 1
  /\ UNCHANGED <<counter1, ptrVars, regVars, quiet, burst>>

MainInit == pc = "init" /\ Initialise

ReadCur ==
  /\ Local("cur", "base") /\ r1' = curDestPtr
  /\ burst' = 0
  /\ UNCHANGED <<counter1, ptrVars, ime, r2, expired, quiet>>

\* The distance of the pointers is unsigned.
HeaderArrived(cur, base) == cur < base \/ cur - base >= HeaderWords
ReadBase ==
  /\ Local("base", CASE mbProgress # NONE                                     -> "decrypt"
                     [] mbProgress = NONE /\ HeaderArrived(r1, baseDestPtr)   -> "logo"
                     [] OTHER                                                 -> "idle")
  /\ r2' = baseDestPtr
  /\ UNCHANGED <<counter1, ptrVars, ime, r1, expired, quiet, burst>>

\* The logo, which begins behind the first word, is compared word by word; only
\* the end of the last word counts, and the pointer is moved before it is
\* looked at.  There is no logo beyond the memory for images.
Matches(k) == r2 + k \in Words /\ mem[r2 + k] = "logo"
Logo ==
  /\ pc = "logo"
  /\ \/ /\ \E k \in 1..HeaderWords - 2 : ~Matches(k)
        /\ Local("logo", "init") /\ UNCHANGED baseDestPtr
     \/ /\ \A k \in 1..HeaderWords - 2 : Matches(k)
        /\ Local("logo", IF Matches(HeaderWords - 1) THEN "matched" ELSE "init")
        /\ baseDestPtr' = r2 + HeaderWords
  /\ UNCHANGED <<counter1, curDestPtr, ime, regVars, quiet, burst>>

LogoMatched ==
  /\ pc = "matched" /\ pc' = "keys"
  /\ mbProgress' = LOGO_CORRECT
  /\ UNCHANGED <<counter1, keyVars, imgVars, ptrVars, serialIntrHandler, mem, joystat, irqVars,
                 regVars, booted, histVars>>

\* The first hash value and session key, from KeyA and KeyB.
SessionKey ==
  /\ pc = "keys" /\ pc' = "idle"
  /\ hashVal' = keys
  /\ UNCHANGED <<counter1, mbProgress, keyVars, imageSize, keys, ptrVars, serialIntrHandler, mem,
                 joystat, irqVars, regVars, booted, histVars>>

\* One round of the loop: a word is decrypted where it stands.
Decrypted(word) == IF word \in {"logo", "cipher"} /\ hashVal = "agreed" THEN "plain" ELSE "spoilt"
Decrypt ==
  /\ pc = "decrypt" /\ r2 < r1
  /\ mem' = [i \in Words |-> IF i = r2 THEN Decrypted(mem[i]) ELSE mem[i]]
  /\ r2' = r2 + 1
  /\ UNCHANGED <<counter1, mbProgress, keyVars, imgVars, ptrVars, serialIntrHandler, joystat,
                 irqVars, pc, r1, expired, booted, histVars>>

DecryptEnd ==
  /\ r2 >= r1
  /\ Local("decrypt", "size") /\ baseDestPtr' = r2
  /\ UNCHANGED <<counter1, curDestPtr, ime, regVars, quiet, burst>>

\* Words are missing, or have arrived since: later.
TestSize ==
  /\ Local("size", IF imageSize = 0 THEN "ptrs" ELSE "idle")
  /\ UNCHANGED <<counter1, ptrVars, ime, regVars, quiet, burst>>

TestPtrs ==
  /\ Local("ptrs", CASE curDestPtr # baseDestPtr              -> "idle"
                     [] curDestPtr = baseDestPtr /\ keyC = 0  -> "keyC"
                     [] OTHER                                 -> "boot")
  /\ UNCHANGED <<counter1, ptrVars, ime, regVars, quiet, burst>>

GenerateKeyC ==
  /\ pc = "keyC" /\ pc' = "derive"
  /\ keyC' = 1
  /\ UNCHANGED <<counter1, mbProgress, bootKey, keyCDerivation, imgVars, ptrVars, serialIntrHandler,
                 mem, joystat, irqVars, regVars, booted, histVars>>

DeriveKeyC ==
  /\ pc = "derive" /\ pc' = "idle"
  /\ keyCDerivation' = 1
  /\ UNCHANGED <<counter1, mbProgress, bootKey, keyC, imgVars, ptrVars, serialIntrHandler, mem,
                 joystat, irqVars, regVars, booted, histVars>>

\* No boot key yet (or one that is zero), the wrong one, or the right one.
TestBootKey ==
  /\ Local("boot", CASE bootKey = "zero"  -> "idle"
                     [] bootKey = "wrong" -> "init"
                     [] bootKey = "right" -> "ready")
  /\ UNCHANGED <<counter1, ptrVars, ime, regVars, quiet, burst>>

Ready ==
  /\ pc = "ready" /\ pc' = "idle"
  /\ mbProgress' = READY_TO_BOOT
  /\ UNCHANGED <<counter1, keyVars, imgVars, ptrVars, serialIntrHandler, mem, joystat, irqVars,
                 regVars, booted, histVars>>

Steps ==
  \/ Mask \/ LoadCounter \/ StoreCounter \/ Unmask \/ MainInit
  \/ ReadCur \/ ReadBase \/ Logo \/ LogoMatched \/ SessionKey
  \/ Decrypt \/ DecryptEnd
  \/ TestSize \/ TestPtrs \/ GenerateKeyC \/ DeriveKeyC \/ TestBootKey \/ Ready

Next ==
  \/ GameCubeMultiBoot_Init \/ GameCubeMultiBoot_Quit \/ GameCubeMultiBoot_ExecuteProgram
  \/ GameCubeMultiBoot_Main \/ Steps \/ HandleSerialInterrupt

\* The program goes on calling Main, and Main runs.
Spec == Init /\ [][Next]_vars /\ WF_vars(Steps) /\ WF_vars(GameCubeMultiBoot_Main)

-----------------------------------------------------------------------------
(***************************************************************************)
(* Properties.                                                             *)
(***************************************************************************)

\* The image that was announced is in place: its first word as it came, then
\* the logo, which has been checked; every other word was received and
\* decrypted once, with the session's keys.
ImageVerified ==
  /\ size > 0 /\ imageSize = 0 /\ curDestPtr = size /\ baseDestPtr = size
  /\ mem[0] \in {"logo", "cipher"}
  /\ \A i \in 1..size - 1 : mem[i] = IF i < HeaderWords THEN "logo" ELSE "plain"

\* The image is declared ready, and jumped to, only if it has been verified,
\* however resets, errors and new handshakes interrupt Main.
ReadyMeansVerified == mbProgress = READY_TO_BOOT \/ booted = 1 => ImageVerified

\* The GameCube is asked for the boot key only when the image is verified, and
\* nothing touches the image from then on.
KeyCAfterImage ==
  serialIntrHandler \in {"CheckKeyCDerivationSent", "CheckBootKeyResponse", "StopUnconditionally"}
    => ImageVerified

\* While an image comes in, the words to come fill it exactly: no word is
\* stored beyond the image announced, or beyond the memory for images.
ImageFits ==
  serialIntrHandler = "CheckImageResponse" =>
    imageSize > 0 /\ curDestPtr + imageSize = size /\ size <= MaxWords

\* counter1 never ends a session that is alive: Init follows only more than
\* CounterLimit calls of Main without an interrupt, or a handler that stopped.
NoEarlyRestart == pc = "unmask" /\ expired = 1 => quiet > CounterLimit

\* KeyC is made only when the image size is known.
SizeKnown == keyC = 1 => size > 0

\* JOYSTAT shows the GameCube zero exactly when the library is in no session.
StatusTells == joystat = 0 <=> serialIntrHandler \in {"none", "Stop"}

\* A session that stopped, or in which nothing happens any more, is always
\* given up for a new one.
AlwaysRestarts == []<>(counter1 = 0 \/ mbProgress = READY_TO_BOOT \/ serial = 0)

-----------------------------------------------------------------------------
(***************************************************************************)
(* The inductive invariant of the parts of the protocol that do not depend *)
(* on Burst.                                                               *)
(***************************************************************************)

\* The pointers Main has read, where it uses them.
PointerPart ==
  pc \notin {"count", "store", "unmask"} => r1 <= MaxWords \/ pc \in {"idle", "mask", "init", "cur"}

\* counter1 against the calls without an interrupt.
CounterPart ==
  /\ pc \in {"count", "store", "unmask"} => ime = 0
  /\ pc \in {"mask", "count", "store"} => counter1 <= quiet
  /\ counter1 <= quiet + 1
  /\ pc = "store" => r1 = counter1

IInv == TypeOK /\ ImageFits /\ StatusTells /\ NoEarlyRestart /\ PointerPart /\ CounterPart
=============================================================================
