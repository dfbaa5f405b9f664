------------------------- MODULE ClientProofs -------------------------
(***************************************************************************)
(* The safety of the client beside its connections, one part per module:   *)
(*   - SharedFrame: its types, that each frame has one owner, that none is *)
(*     stranded, that the last one is delivered, and that the mailbox's    *)
(*     steps are steps of LatestFrame;                                     *)
(*   - Input: keys and the finger follow the keyboard and the mouse;       *)
(*   - AudioPath: the order of the sound and the account of its frames;    *)
(*   - Display: textures fit their frames, touches fall where the picture  *)
(*     shows them.                                                         *)
(* Each holds for every value of its module's constants.                   *)
(***************************************************************************)
EXTENDS SharedFrame, Display, Input, AudioPath, SequenceTheorems,
        WellFoundedInduction, TLAPS

(* What the two program counters say about the variables of their threads. *)
Places ==
    /\ mine # 0 <=> ppc = "swap"
    /\ old # 0 => ppc \in {"ready", "free"}
    /\ taken # 0 <=> cpc = "use"
    /\ timedOut => cpc \in {"destroy", "clear", "end"}
    /\ (cpc \in {"destroy", "clear", "end"} /\ ~timedOut) => ppc = "done"

(* Frames pass decoder, slot and main thread in the order of their numbers. *)
Order ==
    /\ \A f \in Frames : heap[f] = "unused" <=> f > decoded
    /\ seen <= published /\ published <= decoded
    /\ mine <= decoded /\ old <= decoded /\ taken <= decoded
    /\ current # 0 => current = published /\ seen < current
    /\ ppc = "swap" => published < mine

(* The inductive invariant. *)
IInv == TypeOK /\ Places /\ Order /\ Ownership


(* The initial states satisfy the invariant. *)
LEMMA InitIInv == Init => IInv
  <1> SUFFICES ASSUME Init PROVE IInv
    OBVIOUS
  <1>1. TypeOK
    <2>1. heap \in [Frames -> {"unused", "live", "freed"}]
      BY DEF Init
    <2>2. 0 \in 0 .. MaxFrames
      BY MaxFramesAssumption
    <2>3. ready \in {0, 1} /\ running \in BOOLEAN /\ timedOut \in BOOLEAN
      BY DEF Init
    <2> QED BY <2>1, <2>2, <2>3 DEF Init, TypeOK
  <1>2. Places BY DEF Init, Places
  <1>3. Order BY MaxFramesAssumption DEF Init, Order, Frames
  <1>4. Ownership
    BY DEF Init, Ownership, Owned, OneOwner, SlotOwns
  <1> QED BY <1>1, <1>2, <1>3, <1>4 DEF IInv

(* Every step of either thread preserves the types and what the program    *)
(* counters say.                                                           *)
LEMMA NextTypePlaces == IInv /\ [Next]_vars => TypeOK' /\ Places'
  <1> SUFFICES ASSUME IInv, [Next]_vars PROVE TypeOK' /\ Places'
    OBVIOUS
  <1> USE MaxFramesAssumption DEF Frames, IInv, TypeOK, Places, Order, slot, memory, producer, consumer,
              stopping, Free
  <1>1. CASE TestRunning BY <1>1 DEF TestRunning
  <1>2. CASE Decode BY <1>2 DEF Decode
  <1>3. CASE DecodeUnwrapped BY <1>3 DEF DecodeUnwrapped
  <1>4. CASE DecodeNothing BY <1>4 DEF DecodeNothing
  <1>5. CASE StopReading BY <1>5 DEF StopReading
  <1>6. CASE SubmitSwap BY <1>6 DEF SubmitSwap
  <1>7. CASE SubmitReady BY <1>7 DEF SubmitReady
  <1>8. CASE SubmitFree BY <1>8 DEF SubmitFree
  <1>9. CASE AcquireTest BY <1>9 DEF AcquireTest
  <1>10. CASE AcquireTake BY <1>10 DEF AcquireTake
  <1>11. CASE Render BY <1>11 DEF Render
  <1>12. CASE Capture BY <1>12 DEF Capture
  <1>13. CASE Join BY <1>13 DEF Join
  <1>14. CASE DestroyFree BY <1>14 DEF DestroyFree
  <1>15. CASE DestroyClear BY <1>15 DEF DestroyClear
  <1>16. CASE Idle BY <1>16 DEF Idle
  <1>17. CASE CaptureQuery BY <1>17 DEF CaptureQuery
  <1>18. CASE ScriptDone BY <1>18 DEF ScriptDone
  <1>19. CASE Quit BY <1>19 DEF Quit
  <1>20. CASE UNCHANGED vars BY <1>20 DEF vars
  <1>21. CASE Finished BY <1>21 DEF Finished, vars
  <1> QED
    BY <1>1, <1>2, <1>3, <1>4, <1>5, <1>6, <1>7, <1>8, <1>9, <1>10, <1>11,
       <1>12, <1>13, <1>14, <1>15, <1>16, <1>17, <1>18, <1>19, <1>20, <1>21
       DEF Next, Producer, Consumer

(* Every step preserves the order in which frames travel. *)
LEMMA NextOrder == IInv /\ [Next]_vars => Order'
  <1> SUFFICES ASSUME IInv, [Next]_vars PROVE Order'
    OBVIOUS
  <1> USE MaxFramesAssumption DEF Frames, IInv, TypeOK, Places, Order, slot,
          memory, producer, consumer, stopping, Free
  <1>1. CASE TestRunning BY <1>1 DEF TestRunning
  <1>2. CASE Decode BY <1>2 DEF Decode
  <1>3. CASE DecodeUnwrapped BY <1>3 DEF DecodeUnwrapped
  <1>4. CASE DecodeNothing BY <1>4 DEF DecodeNothing
  <1>5. CASE StopReading BY <1>5 DEF StopReading
  <1>6. CASE SubmitSwap BY <1>6 DEF SubmitSwap
  <1>7. CASE SubmitReady BY <1>7 DEF SubmitReady
  <1>8. CASE SubmitFree BY <1>8 DEF SubmitFree
  <1>9. CASE AcquireTest BY <1>9 DEF AcquireTest
  <1>10. CASE AcquireTake BY <1>10 DEF AcquireTake
  <1>11. CASE Render BY <1>11 DEF Render
  <1>12. CASE Capture BY <1>12 DEF Capture
  <1>13. CASE Join BY <1>13 DEF Join
  <1>14. CASE DestroyFree BY <1>14 DEF DestroyFree
  <1>15. CASE DestroyClear BY <1>15 DEF DestroyClear
  <1>16. CASE Idle BY <1>16 DEF Idle
  <1>17. CASE CaptureQuery BY <1>17 DEF CaptureQuery
  <1>18. CASE ScriptDone BY <1>18 DEF ScriptDone
  <1>19. CASE Quit BY <1>19 DEF Quit
  <1>20. CASE UNCHANGED vars BY <1>20 DEF vars
  <1>21. CASE Finished BY <1>21 DEF Finished, vars
  <1> QED
    BY <1>1, <1>2, <1>3, <1>4, <1>5, <1>6, <1>7, <1>8, <1>9, <1>10, <1>11,
       <1>12, <1>13, <1>14, <1>15, <1>16, <1>17, <1>18, <1>19, <1>20, <1>21
       DEF Next, Producer, Consumer

(* Every step preserves the ownership of frames.  The steps that move a    *)
(* frame from one place to another, allocate one or free one are those of  *)
(* submit, acquire, the two uses and application_destroy.                  *)
LEMMA NextOwnership == IInv /\ [Next]_vars => Ownership'
  <1> SUFFICES ASSUME IInv, [Next]_vars PROVE Ownership'
    OBVIOUS
  <1> USE MaxFramesAssumption DEF Frames, IInv, TypeOK, Places, Order, slot,
          memory, producer, consumer, stopping, Free, Ownership, Owned,
          OneOwner, SlotOwns
  <1>1. CASE TestRunning BY <1>1 DEF TestRunning
  <1>2. CASE Decode BY <1>2 DEF Decode
  <1>3. CASE DecodeUnwrapped BY <1>3 DEF DecodeUnwrapped
  <1>4. CASE DecodeNothing BY <1>4 DEF DecodeNothing
  <1>5. CASE StopReading BY <1>5 DEF StopReading
  <1>6. CASE SubmitSwap BY <1>6 DEF SubmitSwap
  <1>7. CASE SubmitReady BY <1>7 DEF SubmitReady
  <1>8. CASE SubmitFree BY <1>8 DEF SubmitFree
  <1>9. CASE AcquireTest BY <1>9 DEF AcquireTest
  <1>10. CASE AcquireTake BY <1>10 DEF AcquireTake
  <1>11. CASE Render BY <1>11 DEF Render
  <1>12. CASE Capture BY <1>12 DEF Capture
  <1>13. CASE Join BY <1>13 DEF Join
  <1>14. CASE DestroyFree BY <1>14 DEF DestroyFree
  <1>15. CASE DestroyClear BY <1>15 DEF DestroyClear
  <1>16. CASE Idle BY <1>16 DEF Idle
  <1>17. CASE CaptureQuery BY <1>17 DEF CaptureQuery
  <1>18. CASE ScriptDone BY <1>18 DEF ScriptDone
  <1>19. CASE Quit BY <1>19 DEF Quit
  <1>20. CASE UNCHANGED vars BY <1>20 DEF vars
  <1>21. CASE Finished BY <1>21 DEF Finished, vars
  <1> QED
    BY <1>1, <1>2, <1>3, <1>4, <1>5, <1>6, <1>7, <1>8, <1>9, <1>10, <1>11,
       <1>12, <1>13, <1>14, <1>15, <1>16, <1>17, <1>18, <1>19, <1>20, <1>21
       DEF Next, Producer, Consumer
(* The invariant holds in every reachable state. *)
LEMMA Invariance == Spec => []IInv
  <1>1. IInv /\ [Next]_vars => IInv'
    BY NextTypePlaces, NextOrder, NextOwnership DEF IInv
  <1> QED BY InitIInv, <1>1, PTL DEF Spec

(* The types of the mailbox and of the two threads. *)
THEOREM TypeCorrectness == Spec => []TypeOK
  <1>1. IInv => TypeOK BY DEF IInv
  <1> QED BY Invariance, <1>1, PTL

(* No frame is freed twice, used after it was freed or leaked, as long as  *)
(* the main thread saw the video thread end before it destroyed the        *)
(* mailbox.                                                                *)
THEOREM FrameOwnership == Spec => []Ownership
  <1>1. IInv => Ownership BY DEF IInv
  <1> QED BY Invariance, <1>1, PTL

(* A frame in the slot with the flag down is one that submit is about to   *)
(* announce or acquire is about to take.                                   *)
THEOREM NothingStranded == Spec => []NotStranded
  <1>1. Init => NotStranded BY DEF Init, NotStranded
  <1>2. NotStranded /\ IInv /\ [Next]_vars => NotStranded'
    <2> SUFFICES ASSUME NotStranded, IInv, [Next]_vars PROVE NotStranded'
      OBVIOUS
    <2> USE DEF NotStranded, slot, memory, producer, consumer, stopping
    <2>1. CASE Producer
      BY <2>1 DEF Producer, TestRunning, Decode, DecodeUnwrapped,
         DecodeNothing, StopReading, SubmitSwap, SubmitReady, SubmitFree
    <2>2. CASE Consumer
      BY <2>2 DEF Consumer, AcquireTest, AcquireTake, Render, Capture, Join,
         DestroyFree, DestroyClear, IInv, TypeOK
    <2>3. CASE Idle \/ CaptureQuery \/ ScriptDone \/ Quit
      BY <2>3 DEF Idle, CaptureQuery, ScriptDone, Quit
    <2>4. CASE Finished \/ UNCHANGED vars
      BY <2>4 DEF Finished, vars
    <2> QED BY <2>1, <2>2, <2>3, <2>4 DEF Next
  <1> QED BY <1>1, <1>2, Invariance, PTL DEF Spec

(* An empty slot has handed everything over, until application_destroy     *)
(* empties it without looking; what is in the window has the dimensions    *)
(* that input is scaled with.                                              *)
Delivered ==
    /\ current = 0 /\ cpc # "end" => seen = published
    /\ shown # 0 => deviceSize = size[shown]

(* Only submit fills the slot and moves published on, only acquire empties *)
(* it before the program ends, and rendering a frame follows its size.     *)
LEMMA NextDelivered == IInv /\ Delivered /\ [Next]_vars => Delivered'
  <1> SUFFICES ASSUME IInv, Delivered, [Next]_vars PROVE Delivered'
    OBVIOUS
  <1> USE DEF Delivered, slot, memory, producer, consumer, stopping
  <1>1. CASE SubmitSwap
    BY <1>1 DEF SubmitSwap, IInv, Places
  <1>2. CASE AcquireTake
    BY <1>2 DEF AcquireTake, IInv, Order
  <1>3. CASE Render
    BY <1>3 DEF Render, IInv, Places
  <1>4. CASE TestRunning \/ Decode \/ DecodeUnwrapped \/ DecodeNothing
               \/ StopReading \/ SubmitReady \/ SubmitFree
    BY <1>4 DEF TestRunning, Decode, DecodeUnwrapped, DecodeNothing,
       StopReading, SubmitReady, SubmitFree
  <1>5. CASE AcquireTest \/ Capture \/ Join \/ DestroyFree \/ DestroyClear
    BY <1>5 DEF AcquireTest, Capture, Join, DestroyFree, DestroyClear
  <1>6. CASE Idle \/ CaptureQuery \/ ScriptDone \/ Quit
    BY <1>6 DEF Idle, CaptureQuery, ScriptDone, Quit
  <1>7. CASE Finished \/ UNCHANGED vars
    BY <1>7 DEF Finished, vars
  <1> QED
    BY <1>1, <1>2, <1>3, <1>4, <1>5, <1>6, <1>7 DEF Next, Producer, Consumer

(* When both threads are between two turns and the slot is empty, the last *)
(* frame published is the last one the main thread acquired, and input is  *)
(* scaled with the dimensions of the frame in the window.                  *)
THEOREM Delivery == Spec => []LastFrameDelivered
  <1>1. Init => Delivered BY DEF Init, Delivered
  <1>2. Delivered => LastFrameDelivered
    BY DEF Delivered, LastFrameDelivered, AtRest
  <1> QED BY <1>1, <1>2, NextDelivered, Invariance, PTL DEF Spec

(* Every step of the mailbox is a step of LatestFrame or changes nothing   *)
(* in it: what the main thread takes is always the newest frame published, *)
(* and newer than the one it took before.                                  *)
THEOREM Refinement == Spec => Mailbox!Init /\ [][Mailbox!Next]_(Mailbox!vars)
  <1>1. Init => Mailbox!Init
    BY DEF Init, Mailbox!Init
  <1>2. IInv /\ [Next]_vars => [Mailbox!Next]_(Mailbox!vars)
    <2> SUFFICES ASSUME IInv, [Next]_vars
                 PROVE  [Mailbox!Next]_(Mailbox!vars)
      OBVIOUS
    <2> USE DEF Mailbox!vars, slot, memory, producer, consumer, stopping
    <2>1. CASE SubmitSwap
      BY <2>1, MaxFramesAssumption
      DEF SubmitSwap, Mailbox!Next, Mailbox!Publish, IInv, TypeOK, Order
    <2>2. CASE AcquireTake
      BY <2>2 DEF AcquireTake, Mailbox!Next, Mailbox!Take
    <2>3. CASE DestroyFree
      BY <2>3 DEF DestroyFree, Mailbox!Next, Mailbox!Close
    <2>4. CASE DestroyClear
      BY <2>4 DEF DestroyClear, Mailbox!Next, Mailbox!Close
    <2>5. CASE TestRunning \/ Decode \/ DecodeUnwrapped \/ DecodeNothing
                 \/ StopReading \/ SubmitReady \/ SubmitFree
      BY <2>5 DEF TestRunning, Decode, DecodeUnwrapped, DecodeNothing,
         StopReading, SubmitReady, SubmitFree
    <2>6. CASE AcquireTest \/ Render \/ Capture \/ Join
      BY <2>6 DEF AcquireTest, Render, Capture, Join
    <2>7. CASE Idle \/ CaptureQuery \/ ScriptDone \/ Quit
      BY <2>7 DEF Idle, CaptureQuery, ScriptDone, Quit
    <2>8. CASE Finished \/ UNCHANGED vars
      BY <2>8 DEF Finished, vars
    <2> QED
      BY <2>1, <2>2, <2>3, <2>4, <2>5, <2>6, <2>7, <2>8
      DEF Next, Producer, Consumer
  <1> QED BY <1>1, <1>2, Invariance, PTL DEF Spec

----------------------------------------------------------------------------
(* Keys and buttons *)

(* Only keys of the map are held down, so what Alt leaves astray is one.   *)
MappedHeld == pressed \subseteq Keys /\ (enabled => held \subseteq Mapped)
KeysInv    == MappedHeld /\ KeysInStep

(* What the messages of a key event do to the keys the device holds: the   *)
(* key itself, if it is not meant as a shortcut; a shortcut leaves none.   *)
LEMMA Obeyed ==
    ASSUME NEW h, NEW k \in Keys, NEW down \in BOOLEAN, NEW alt \in BOOLEAN,
           enabled, "POWER" \notin h
    PROVE  ObeyAll(h, KeyMessages(k, down, alt)) =
               IF alt \/ k \notin Mapped THEN h
               ELSE IF down THEN h \cup {k} ELSE h \ {k}
<1> DEFINE ms == KeyMessages(k, down, alt)
<1>1. CASE alt /\ down /\ k \in Shortcuts
  <2>1. ms = ShortcutMessages(k)
    BY <1>1 DEF KeyMessages
  <2>2. CASE k = "O"
    <3>1. ms = << DisplayPower >>
      BY <2>1, <2>2 DEF ShortcutMessages
    <3>2. ObeyAll(h, ms) = Obey(h, DisplayPower)
      BY <3>1 DEF ObeyAll
    <3> QED
      BY <1>1, <3>2 DEF Obey, DisplayPower
  <2>3. CASE k = "Backspace"
    <3>1. ms = << BackOrScreenOn, BackOrScreenOn >>
      BY <2>1, <2>3 DEF ShortcutMessages
    <3>2. ObeyAll(h, ms) = Obey(Obey(h, BackOrScreenOn), BackOrScreenOn)
      BY <3>1 DEF ObeyAll
    <3> QED
      BY <1>1, <3>2 DEF Obey, BackOrScreenOn
  <2>4. CASE k = "P"
    <3>1. ms = << Key("POWER", TRUE), Key("POWER", FALSE) >>
      BY <2>1, <2>4 DEF ShortcutMessages, Tap
    <3>2. ObeyAll(h, ms) = Obey(Obey(h, Key("POWER", TRUE)), Key("POWER", FALSE))
      BY <3>1 DEF ObeyAll
    <3>3. Obey(h, Key("POWER", TRUE)) = h \cup {"POWER"}
      BY DEF Obey, Key
    <3>4. Obey(h \cup {"POWER"}, Key("POWER", FALSE)) = (h \cup {"POWER"}) \ {"POWER"}
      BY DEF Obey, Key
    <3> QED
      BY <1>1, <3>2, <3>3, <3>4
  <2> QED
    BY <1>1, <2>2, <2>3, <2>4 DEF Shortcuts
<1>2. CASE ~alt /\ k \in Mapped
  <2>1. ms = << Key(k, down) >>
    BY <1>2 DEF KeyMessages
  <2>2. ObeyAll(h, ms) = Obey(h, Key(k, down))
    BY <2>1 DEF ObeyAll
  <2> QED
    BY <1>2, <2>2 DEF Obey, Key
<1>3. CASE ~(alt /\ down /\ k \in Shortcuts) /\ ~(~alt /\ k \in Mapped)
  <2>1. ms = << >>
    BY <1>3 DEF KeyMessages
  <2>2. ObeyAll(h, ms) = h
    BY <2>1 DEF ObeyAll
  <2> QED
    BY <1>3, <2>2
<1> QED
  BY <1>1, <1>2, <1>3

(* A key event leaves the device with the keys the hand holds, or sets the *)
(* key aside.                                                              *)
LEMMA KeyInStep ==
    ASSUME KeysInv, NEW k \in Keys, NEW down \in BOOLEAN, KeyChanges(k, down)
    PROVE  KeysInv'
<1>0. pressed' \subseteq Keys /\ enabled' = enabled
  BY DEF KeysInv, MappedHeld, KeyChanges
<1> SUFFICES ASSUME enabled PROVE (held \subseteq Mapped)' /\ KeysInStep'
  BY <1>0 DEF KeysInv, MappedHeld, KeysInStep
<1> DEFINE alt == "Alt" \in pressed'
<1>1. /\ pressed' = (IF down THEN pressed \cup {k} ELSE pressed \ {k})
      /\ held' = IF focus THEN ObeyAll(held, KeyMessages(k, down, alt)) ELSE held
      /\ astray' = IF focus /\ ~alt THEN astray \ {k}
                   ELSE IF (k \in pressed) # down THEN astray \cup {k} ELSE astray
  BY DEF KeyChanges
<1>2. /\ held \subseteq Mapped /\ "POWER" \notin held
      /\ held \ astray = (pressed \cap Mapped) \ astray
  BY DEF KeysInv, MappedHeld, KeysInStep
<1>3. held' = IF ~focus \/ alt \/ k \notin Mapped THEN held
              ELSE IF down THEN held \cup {k} ELSE held \ {k}
  <2>1. ASSUME NEW a \in BOOLEAN
        PROVE  ObeyAll(held, KeyMessages(k, down, a)) =
                   IF a \/ k \notin Mapped THEN held
                   ELSE IF down THEN held \cup {k} ELSE held \ {k}
    BY <1>2, Obeyed
  <2>2. alt \in BOOLEAN
    OBVIOUS
  <2>3. ObeyAll(held, KeyMessages(k, down, alt)) =
            IF alt \/ k \notin Mapped THEN held
            ELSE IF down THEN held \cup {k} ELSE held \ {k}
    BY <2>1, <2>2
  <2> HIDE DEF alt
  <2> QED
    BY <1>1, <2>3
<1> HIDE DEF alt
<1>4. "POWER" \notin Mapped
  BY InputAssumption DEF InputAssumption, Mapped, Shortcuts
<1>5. held' \subseteq Mapped
  BY <1>2, <1>3
<1>6. held' \ astray' = (pressed' \cap Mapped) \ astray'
  <2>1. CASE focus /\ ~alt
    BY <1>1, <1>2, <1>3, <2>1
  <2>2. CASE ~(focus /\ ~alt)
    BY <1>1, <1>2, <1>3, <2>2
  <2> QED
    BY <2>1, <2>2
<1> QED
  BY <1>4, <1>5, <1>6 DEF KeysInStep

(* The device holds the keys the hand holds, whatever shortcuts, repeats   *)
(* and changes of the focus came between, for any keys and in any order,   *)
(* except for those that changed under Alt or without the focus; and no    *)
(* shortcut leaves a key down (controller_on_key_event).                   *)
THEOREM KeysFollow == InputSpec => []KeysInStep
<1>1. InputInit => KeysInv
  BY DEF InputInit, KeysInv, MappedHeld, KeysInStep
<1>2. ASSUME KeysInv, [InputNext]_inputVars PROVE KeysInv'
  <2>1. CASE KeyDown
    BY <1>2, <2>1, KeyInStep DEF KeyDown
  <2>2. CASE KeyUp
    <3>1. PICK k \in pressed : KeyChanges(k, FALSE)
      BY <2>2 DEF KeyUp
    <3>2. k \in Keys
      BY <1>2, <2>2, <3>1 DEF KeysInv, MappedHeld
    <3> QED
      BY <1>2, <3>1, <3>2, KeyInStep
  <2>3. CASE FocusChanges \/ ButtonDown \/ ButtonUp \/ Move \/ UNCHANGED inputVars
    <3>1. UNCHANGED <<enabled, pressed, held, astray>>
      BY <2>3 DEF FocusChanges, ButtonDown, ButtonUp, Move, inputVars, keyboard
    <3> QED
      BY <1>2, <3>1 DEF KeysInv, MappedHeld, KeysInStep
  <2> QED
    BY <1>2, <2>1, <2>2, <2>3 DEF InputNext
<1>3. KeysInv => KeysInStep
  BY DEF KeysInv
<1> QED
  BY <1>1, <1>2, <1>3, PTL DEF InputSpec

(* As long as no two buttons were used at once, one is down at most.       *)
OneButton == ~mixed => \A b, c \in buttons : b = c
TouchType == touch \in {"up", "down"} /\ {odd, slipped, mixed, inside, enabled, sized} \subseteq BOOLEAN
TouchInv  == TouchType /\ OneButton /\ TouchInStep

(* What a message of WndProc does to the finger, if it is sent at all. *)
LEMMA TouchResult ==
    ASSUME NEW action \in {0, 1, 2}, NEW mask, Touch(action, mask), enabled, sized
    PROVE  /\ action = 1 => touch' = "down" /\ (odd' = (touch = "down"))
           /\ action = 0 => touch' = "up" /\ (odd' = (touch # "down"))
           /\ action = 2 => touch' = touch /\ (odd' => odd \/ (mask # {} /\ touch # "down"))
<1>1. ASSUME ~Dropped(action, mask), NEW does, AndroidAction(action) = does
      PROVE  /\ touch' = (IF does = "move" THEN touch ELSE does)
             /\ odd' = ((does = "down") = (touch = "down"))
  BY <1>1 DEF Touch
<1>2. CASE action = 1
  <2>1. AndroidAction(action) = "down" /\ ~Dropped(action, mask)
    BY <1>2 DEF AndroidAction, Dropped
  <2>2. touch' = "down" /\ (odd' = (("down" = "down") = (touch = "down")))
    BY <1>1, <2>1
  <2>3. (("down" = "down") = (touch = "down")) = (touch = "down")
    OBVIOUS
  <2> QED
    BY <1>2, <2>2, <2>3
<1>3. CASE action = 0
  <2>1. AndroidAction(action) = "up" /\ ~Dropped(action, mask)
    BY <1>3 DEF AndroidAction, Dropped
  <2>2. touch' = "up" /\ (odd' = (("up" = "down") = (touch = "down")))
    BY <1>1, <2>1
  <2>3. (("up" = "down") = (touch = "down")) = (touch # "down")
    OBVIOUS
  <2> QED
    BY <1>3, <2>2, <2>3
<1>4. CASE action = 2 /\ mask # {}
  <2>1. AndroidAction(action) = "move" /\ ~Dropped(action, mask)
    BY <1>4 DEF AndroidAction, Dropped
  <2>2. touch' = touch /\ (odd' = (("move" = "down") = (touch = "down")))
    BY <1>1, <2>1
  <2>3. touch' = touch /\ (odd' => touch # "down")
    BY <2>2
  <2> QED
    BY <1>4, <2>3
<1>5. CASE action = 2 /\ mask = {}
  <2>1. Dropped(action, mask)
    BY <1>5 DEF Dropped
  <2>2. touch' = touch /\ odd' = odd
    BY <2>1 DEF Touch
  <2> QED
    BY <1>5, <2>2
<1> QED
  BY <1>2, <1>3, <1>4, <1>5

(* The messages keep to the types. *)
LEMMA TouchTyped ==
    ASSUME TouchType, NEW action \in {0, 1, 2}, NEW mask,
           Touch(action, mask) \/ UNCHANGED <<touch, odd>>
    PROVE  touch' \in {"up", "down"} /\ odd' \in BOOLEAN
<1>1. AndroidAction(action) \in {"down", "up", "move"}
  BY DEF AndroidAction
<1> QED
  BY <1>1 DEF TouchType, Touch

LEMMA NextTouchInv == TouchInv /\ [InputNext]_inputVars => TouchInv'
<1> SUFFICES ASSUME TouchInv, [InputNext]_inputVars PROVE TouchInv'
  OBVIOUS
<1>1. TouchType /\ OneButton /\ TouchInStep
  BY DEF TouchInv
<1>2. CASE ButtonDown
  <2>1. PICK b \in Buttons \ buttons :
            /\ buttons' = buttons \cup {b}
            /\ IF inside THEN Touch(1, {b}) ELSE UNCHANGED <<touch, odd>>
            /\ slipped' = (~inside \/ (slipped /\ ~InStep))
            /\ mixed' = (buttons # {} \/ (mixed /\ ~InStep))
            /\ UNCHANGED <<enabled, sized, keyboard, inside>>
    BY <1>2 DEF ButtonDown
  <2>2. TouchType'
    BY <1>1, <2>1, TouchTyped DEF TouchType
  <2>3. OneButton'
    BY <1>1, <2>1 DEF OneButton, InStep
  <2>4. ASSUME enabled, sized PROVE TouchInStep'
    <3>1. /\ (buttons = {} /\ ~slipped) => touch = "up"
          /\ (~slipped /\ ~mixed) => ((touch = "down") = (buttons # {}))
          /\ odd => (slipped \/ mixed)
      BY <1>1, <2>4 DEF TouchInStep
    <3>2. buttons' # {}
      BY <2>1
    <3>3. CASE inside
      <4>1. touch' = "down" /\ (odd' = (touch = "down"))
        BY <2>1, <2>4, <3>3, TouchResult
      <4>2. odd' => (slipped' \/ mixed')
        BY <2>1, <3>1, <4>1 DEF InStep
      <4> QED
        BY <3>2, <4>1, <4>2 DEF TouchInStep
    <3>4. CASE ~inside
      BY <2>1, <3>2, <3>4 DEF TouchInStep
    <3> QED
      BY <3>3, <3>4
  <2> QED
    BY <2>1, <2>2, <2>3, <2>4 DEF TouchInv, TouchInStep
<1>3. CASE ButtonUp
  <2>1. PICK b \in buttons :
            /\ buttons' = buttons \ {b}
            /\ IF inside THEN Touch(0, {b}) ELSE UNCHANGED <<touch, odd>>
            /\ slipped' = (slipped \/ ~inside)
            /\ UNCHANGED <<enabled, sized, keyboard, inside, mixed>>
    BY <1>3 DEF ButtonUp
  <2>2. TouchType'
    BY <1>1, <2>1, TouchTyped DEF TouchType
  <2>3. OneButton'
    BY <1>1, <2>1 DEF OneButton
  <2>4. ASSUME enabled, sized PROVE TouchInStep'
    <3>1. /\ (~slipped /\ ~mixed) => ((touch = "down") = (buttons # {}))
          /\ odd => (slipped \/ mixed)
      BY <1>1, <2>4 DEF TouchInStep
    <3>2. ~mixed => buttons' = {}
      BY <1>1, <2>1 DEF OneButton
    <3>3. CASE inside
      <4>1. touch' = "up" /\ (odd' = (touch # "down"))
        BY <2>1, <2>4, <3>3, TouchResult
      <4>2. odd' => (slipped' \/ mixed')
        BY <2>1, <3>1, <4>1
      <4> QED
        BY <2>1, <3>2, <4>1, <4>2 DEF TouchInStep
    <3>4. CASE ~inside
      BY <2>1, <3>4 DEF TouchInStep
    <3> QED
      BY <3>3, <3>4
  <2> QED
    BY <2>1, <2>2, <2>3, <2>4 DEF TouchInv, TouchInStep
<1>4. CASE Move
  <2>1. /\ inside' \in BOOLEAN
        /\ IF inside' THEN Touch(2, buttons) ELSE UNCHANGED <<touch, odd>>
        /\ UNCHANGED <<enabled, sized, keyboard, buttons, slipped, mixed>>
    BY <1>4 DEF Move
  <2>2. TouchType'
    BY <1>1, <2>1, TouchTyped DEF TouchType
  <2>3. OneButton'
    BY <1>1, <2>1 DEF OneButton
  <2>4. ASSUME enabled, sized PROVE TouchInStep'
    <3>1. /\ (buttons = {} /\ ~slipped) => touch = "up"
          /\ (~slipped /\ ~mixed) => ((touch = "down") = (buttons # {}))
          /\ odd => (slipped \/ mixed)
      BY <1>1, <2>4 DEF TouchInStep
    <3>2. touch' = touch /\ (odd' => odd \/ (buttons # {} /\ touch # "down"))
      <4>1. CASE inside'
        BY <2>1, <2>4, <4>1, TouchResult
      <4>2. CASE ~inside'
        BY <2>1, <4>2
      <4> QED
        BY <4>1, <4>2
    <3> QED
      BY <2>1, <3>1, <3>2 DEF TouchInStep
  <2> QED
    BY <2>1, <2>2, <2>3, <2>4 DEF TouchInv, TouchInStep
<1>5. CASE KeyDown \/ KeyUp \/ FocusChanges \/ UNCHANGED inputVars
  <2>1. UNCHANGED <<enabled, sized, mouse>>
    BY <1>5 DEF KeyDown, KeyUp, KeyChanges, FocusChanges, inputVars
  <2> QED
    BY <1>1, <2>1 DEF TouchInv, TouchType, OneButton, TouchInStep, mouse
<1> QED
  BY <1>2, <1>3, <1>4, <1>5 DEF InputNext

(* With no button down the finger is up, unless a release was lost outside *)
(* the window; while one button is used at a time, inside the window, the  *)
(* finger is down with it and no message misses it, for any buttons        *)
(* (controller_on_mouse_event, WndProc).                                   *)
THEOREM TouchFollows == InputSpec => []TouchInStep
<1>1. InputInit => TouchInv
  BY DEF InputInit, TouchInv, TouchType, OneButton, TouchInStep
<1>2. TouchInv => TouchInStep
  BY DEF TouchInv
<1> QED
  BY <1>1, <1>2, NextTouchInv, PTL DEF InputSpec

----------------------------------------------------------------------------
(* Sound *)

Number == Nat \ {0}

AudioTypes ==
    /\ {wire, codec, heard} \subseteq Seq(Number)
    /\ {sent, packet, pcm, live, produced} \subseteq Nat
    /\ several \in BOOLEAN

(* What the audio thread has allocated where it stands; it runs only once  *)
(* the decoder has been set up, as well as it could.                       *)
AudioPlaces ==
    /\ thread \in {"none", "read", "done"} => packet = 0 /\ pcm = 0 /\ live = 0
    /\ thread = "decode" => packet # 0 /\ pcm = 0 /\ live = 1
    /\ thread = "write" => packet = 0 /\ pcm # 0 /\ live = 1
    /\ thread = "crashed" => (~open \/ ~swr) /\ pcm = 0
    /\ thread # "none" => app \in {"loop", "stopped"}
    /\ thread \in {"none", "read", "decode", "write", "done", "crashed"}

(* Packets in the order of their numbers: those heard, the one in hand,    *)
(* those in the codec, the one to be decoded, those in the socket.         *)
Fetched         == sent - Len(wire)
UpTo(q, n)      == \A i \in DOMAIN q : q[i] <= n
Below(q, n)     == \A i \in DOMAIN q : q[i] < n
Ascending(q)    == \A i, j \in DOMAIN q : i < j => q[i] <= q[j]
Rising(q)       == \A i, j \in DOMAIN q : i < j => q[i] < q[j]
From(q, n)      == \A i \in DOMAIN q : n <= q[i]
AudioOrder ==
    /\ Fetched \in Nat /\ \A j \in DOMAIN wire : wire[j] = Fetched + j
    /\ UpTo(heard, Fetched) /\ UpTo(codec, Fetched) /\ pcm <= Fetched
    /\ packet # 0 => packet = Fetched /\ Below(heard, packet) /\ Below(codec, packet)
    /\ Ascending(heard) /\ Ascending(codec)
    /\ \A i \in DOMAIN heard : From(codec, heard[i])
    /\ pcm # 0 => UpTo(heard, pcm) /\ From(codec, pcm)
    /\ ~several => codec = << >> /\ Rising(heard) /\ (pcm # 0 => Below(heard, pcm))

InHandNow  == IF pcm # 0 THEN 1 ELSE 0
AudioSum   == faults = {} => produced = Len(heard) + Len(codec) + InHandNow
AudioInv   == AudioTypes /\ AudioPlaces /\ AudioOrder /\ AudioSum

(* The first of a sequence of numbers and the rest. *)
LEMMA Split ==
    ASSUME NEW q \in Seq(Number), q # << >>
    PROVE  /\ Head(q) \in Number /\ Tail(q) \in Seq(Number)
           /\ 1 \in DOMAIN q /\ Head(q) = q[1] /\ Len(q) \in Nat \ {0}
           /\ Len(Tail(q)) = Len(q) - 1
           /\ DOMAIN Tail(q) = 1 .. Len(q) - 1 /\ DOMAIN q = 1 .. Len(q)
           /\ \A i \in DOMAIN Tail(q) : i \in Nat /\ i + 1 \in DOMAIN q /\ Tail(q)[i] = q[i + 1]
<1>1. /\ Tail(q) \in Seq(Number) /\ Len(Tail(q)) = Len(q) - 1
      /\ \A i \in 1 .. Len(Tail(q)) : Tail(q)[i] = q[i + 1]
      /\ Head(q) \in Number
  BY HeadTailProperties
<1>2. Len(q) \in Nat \ {0}
  BY EmptySeq
<1>3. DOMAIN q = 1 .. Len(q) /\ DOMAIN Tail(q) = 1 .. Len(Tail(q))
  BY <1>1, LenProperties
<1>4. Head(q) = q[1]
  OBVIOUS
<1> QED
  BY <1>1, <1>2, <1>3, <1>4

LEMMA Longer ==
    ASSUME NEW q \in Seq(Number), NEW x \in Number
    PROVE  /\ Append(q, x) \in Seq(Number) /\ Len(q) \in Nat
           /\ Len(Append(q, x)) = Len(q) + 1
           /\ DOMAIN Append(q, x) = 1 .. Len(q) + 1 /\ DOMAIN q = 1 .. Len(q)
           /\ \A i \in 1 .. Len(q) : Append(q, x)[i] = q[i]
           /\ Append(q, x)[Len(q) + 1] = x
<1>1. /\ Append(q, x) \in Seq(Number) /\ Len(Append(q, x)) = Len(q) + 1
      /\ \A i \in 1 .. Len(q) : Append(q, x)[i] = q[i]
      /\ Append(q, x)[Len(q) + 1] = x
  BY AppendProperties
<1> QED
  BY <1>1, LenProperties

(* The codec with the frames of the packet: those it had come first. *)
LEMMA Fed ==
    ASSUME NEW n \in 0 .. 2, codec \in Seq(Number), packet \in Number
    PROVE  /\ WithFrames(n) \in Seq(Number) /\ Len(codec) \in Nat
           /\ Len(WithFrames(n)) = Len(codec) + n
           /\ DOMAIN WithFrames(n) = 1 .. Len(codec) + n /\ DOMAIN codec = 1 .. Len(codec)
           /\ \A i \in 1 .. Len(codec) + n :
                 WithFrames(n)[i] = IF i <= Len(codec) THEN codec[i] ELSE packet
<1> DEFINE new == [i \in 1 .. n |-> packet]
<1>1. new \in [1 .. n -> Number] /\ \A i \in 1 .. n : new[i] = packet
  OBVIOUS
<1> HIDE DEF new
<1>2. new \in Seq(Number)
  BY <1>1, SeqDef
<1>3. Len(new) = n
  BY <1>1, <1>2, LenProperties
<1>4. /\ codec \o new \in Seq(Number) /\ Len(codec \o new) = Len(codec) + n
      /\ \A i \in 1 .. Len(codec) + n :
            (codec \o new)[i] = IF i <= Len(codec) THEN codec[i] ELSE new[i - Len(codec)]
  BY <1>2, <1>3, ConcatProperties
<1>5. Len(codec) \in Nat /\ DOMAIN codec = 1 .. Len(codec)
  BY LenProperties
<1>6. DOMAIN (codec \o new) = 1 .. Len(codec) + n
  BY <1>4, LenProperties
<1>7. WithFrames(n) = codec \o new
  BY DEF WithFrames, new
<1>8. ASSUME NEW i \in 1 .. Len(codec) + n, ~(i <= Len(codec))
      PROVE  new[i - Len(codec)] = packet
  <2>1. i - Len(codec) \in 1 .. n
    BY <1>5, <1>8
  <2> QED
    BY <1>1, <2>1
<1> QED
  BY <1>4, <1>5, <1>6, <1>7, <1>8

(* What is fetched from the codec, and what stays in it. *)
LEMMA FrameOut ==
    ASSUME AudioInv, thread = "decode", NEW n \in 0 .. 2, WithFrames(n) # << >>,
           NEW first, first = Head(WithFrames(n)), NEW rest, rest = Tail(WithFrames(n))
    PROVE  /\ first \in Number /\ rest \in Seq(Number) /\ Len(rest) = Len(codec) + n - 1
           /\ first <= Fetched /\ UpTo(rest, Fetched) /\ Ascending(rest)
           /\ UpTo(heard, first) /\ From(rest, first)
           /\ \A i \in DOMAIN heard : From(rest, heard[i])
           /\ (~several /\ n <= 1) => rest = << >> /\ Below(heard, first)
<1> DEFINE q == WithFrames(n)
<1>1. /\ codec \in Seq(Number) /\ heard \in Seq(Number) /\ packet \in Number
      /\ packet = Fetched /\ Fetched \in Nat
      /\ Below(heard, packet) /\ Below(codec, packet) /\ Ascending(codec)
      /\ \A i \in DOMAIN heard : From(codec, heard[i])
      /\ ~several => codec = << >>
  BY DEF AudioInv, AudioTypes, AudioPlaces, AudioOrder, Number
<1>2. /\ q \in Seq(Number) /\ Len(q) = Len(codec) + n /\ Len(codec) \in Nat
      /\ DOMAIN q = 1 .. Len(codec) + n /\ DOMAIN codec = 1 .. Len(codec)
      /\ \A i \in 1 .. Len(codec) + n : q[i] = IF i <= Len(codec) THEN codec[i] ELSE packet
  BY <1>1, Fed
<1> HIDE DEF q
<1>3. /\ first \in Number /\ rest \in Seq(Number)
      /\ 1 \in DOMAIN q /\ first = q[1] /\ Len(rest) = Len(q) - 1
      /\ DOMAIN rest = 1 .. Len(q) - 1
      /\ \A i \in DOMAIN rest : i \in Nat /\ i + 1 \in DOMAIN q /\ rest[i] = q[i + 1]
  BY <1>2, Split DEF q
<1>4. \A i \in DOMAIN codec : codec[i] \in Number
  BY <1>1, <1>2, LenProperties
<1>5. \A i \in DOMAIN heard : heard[i] \in Number
  BY <1>1, LenProperties
<1>6. \A i \in DOMAIN q : q[i] \in Number /\ q[i] <= packet
  BY <1>1, <1>2, <1>4 DEF Below, Number
<1>7. ASSUME NEW i \in DOMAIN q, NEW j \in DOMAIN q, i < j PROVE q[i] <= q[j]
  <2>1. CASE j <= Len(codec)
    BY <1>1, <1>2, <1>7, <2>1 DEF Ascending
  <2>2. CASE ~(j <= Len(codec))
    BY <1>2, <1>6, <2>2
  <2> QED
    BY <2>1, <2>2
<1>8. ASSUME NEW i \in DOMAIN heard, NEW j \in DOMAIN q PROVE heard[i] <= q[j]
  <2>1. CASE j <= Len(codec)
    <3>1. j \in DOMAIN codec /\ q[j] = codec[j]
      BY <1>2, <2>1
    <3> QED
      BY <1>1, <3>1 DEF From
  <2>2. CASE ~(j <= Len(codec))
    <3>1. q[j] = packet
      BY <1>2, <2>2
    <3>2. heard[i] < packet
      BY <1>1 DEF Below
    <3> QED
      BY <1>1, <1>5, <3>1, <3>2 DEF Number
  <2> QED
    BY <2>1, <2>2
<1>9. first <= Fetched /\ UpTo(rest, Fetched)
  BY <1>1, <1>3, <1>6 DEF UpTo
<1>10. Ascending(rest)
  <2> SUFFICES ASSUME NEW i \in DOMAIN rest, NEW j \in DOMAIN rest, i < j
               PROVE  rest[i] <= rest[j]
    BY DEF Ascending
  <2>1. i + 1 \in DOMAIN q /\ j + 1 \in DOMAIN q /\ i + 1 < j + 1
    BY <1>3
  <2> QED
    BY <1>3, <1>7, <2>1
<1>11. UpTo(heard, first)
  BY <1>3, <1>8 DEF UpTo
<1>12. From(rest, first)
  <2> SUFFICES ASSUME NEW i \in DOMAIN rest PROVE first <= rest[i]
    BY DEF From
  <2>1. i + 1 \in DOMAIN q /\ 1 < i + 1
    BY <1>2, <1>3
  <2> QED
    BY <1>3, <1>7, <2>1
<1>13. \A i \in DOMAIN heard : From(rest, heard[i])
  BY <1>3, <1>8 DEF From
<1>14. ASSUME ~several, n <= 1 PROVE rest = << >> /\ Below(heard, first)
  <2>1. Len(codec) = 0
    BY <1>1, <1>14
  <2>2. n = 1
    BY <1>2, <1>3, <1>14, <2>1
  <2>3. Len(rest) = 0
    BY <1>2, <1>3, <2>1, <2>2
  <2>4. rest = << >>
    BY <1>3, <2>3, EmptySeq
  <2>5. first = packet
    BY <1>2, <1>3, <2>1, <2>2
  <2> QED
    BY <1>1, <2>4, <2>5
<1> QED
  BY <1>2, <1>3, <1>9, <1>10, <1>11, <1>12, <1>13, <1>14

(* The parts of the invariant that hold where nothing they speak of moves. *)
LEMMA AudioStill ==
    ASSUME AudioInv, UNCHANGED <<wire, sent, inHand, decoder, heard, faults>>
    PROVE  AudioTypes' /\ AudioOrder' /\ AudioSum'
<1>1. /\ UNCHANGED <<wire, sent, packet, pcm, live, codec, produced, several, heard, faults>>
  BY DEF inHand, decoder
<1> QED
  BY <1>1 DEF AudioInv, AudioTypes, AudioOrder, AudioSum, Fetched, UpTo, Below, Ascending,
     Rising, From, InHandNow

LEMMA AudioSent == ASSUME AudioInv, SendPacket PROVE AudioInv'
<1>1. /\ sent' = sent + 1 /\ wire' = Append(wire, sent')
      /\ UNCHANGED <<app, thread, open, swr, packet, pcm, live, codec, produced, several, heard, faults>>
  BY DEF SendPacket, setup, inHand, decoder, sound
<1>2. /\ wire \in Seq(Number) /\ sent \in Nat /\ Fetched \in Nat
      /\ \A j \in DOMAIN wire : wire[j] = Fetched + j
  BY DEF AudioInv, AudioTypes, AudioOrder
<1>3. sent' \in Number
  BY <1>1, <1>2 DEF Number
<1>4. /\ wire' \in Seq(Number) /\ Len(wire) \in Nat /\ Len(wire') = Len(wire) + 1
      /\ DOMAIN wire' = 1 .. Len(wire) + 1 /\ DOMAIN wire = 1 .. Len(wire)
      /\ \A i \in 1 .. Len(wire) : wire'[i] = wire[i]
      /\ wire'[Len(wire) + 1] = sent'
  BY <1>1, <1>2, <1>3, Longer
<1>5. Fetched' = Fetched /\ sent' = Fetched + (Len(wire) + 1)
  BY <1>1, <1>2, <1>4 DEF Fetched
<1>6. ASSUME NEW j \in DOMAIN wire' PROVE wire'[j] = Fetched' + j
  <2>1. CASE j = Len(wire) + 1
    BY <1>1, <1>4, <1>5, <2>1
  <2>2. CASE j # Len(wire) + 1
    <3>1. j \in 1 .. Len(wire)
      BY <1>4, <2>2
    <3>2. wire'[j] = wire[j] /\ wire[j] = Fetched + j
      BY <1>2, <1>4, <3>1
    <3> QED
      BY <1>5, <3>2
  <2> QED
    BY <2>1, <2>2
<1>7. AudioTypes' /\ AudioPlaces' /\ AudioSum'
  BY <1>1, <1>3, <1>4 DEF AudioInv, AudioTypes, AudioPlaces, AudioSum, InHandNow, Number
<1>8. AudioOrder'
  BY <1>1, <1>2, <1>5, <1>6 DEF AudioInv, AudioOrder, UpTo, Below, Ascending, Rising, From
<1> QED
  BY <1>7, <1>8 DEF AudioInv

LEMMA AudioRead == ASSUME AudioInv, ReadPacket PROVE AudioInv'
<1>1. /\ thread = "read"
      /\ UNCHANGED <<app, open, swr, sent, pcm, codec, produced, several, heard, faults>>
  BY DEF ReadPacket, setup, decoder, sound
<1>2. packet = 0 /\ pcm = 0 /\ live = 0 /\ app \in {"loop", "stopped"}
  BY <1>1 DEF AudioInv, AudioPlaces
<1>3. CASE /\ wire # << >> /\ thread' = "decode"
           /\ packet' = Head(wire) /\ wire' = Tail(wire) /\ live' = live + 1
  <2>1. /\ wire \in Seq(Number) /\ codec \in Seq(Number) /\ heard \in Seq(Number)
        /\ sent \in Nat /\ Fetched \in Nat
        /\ \A j \in DOMAIN wire : wire[j] = Fetched + j
        /\ UpTo(heard, Fetched) /\ UpTo(codec, Fetched)
    BY DEF AudioInv, AudioTypes, AudioOrder
  <2>2. /\ packet' \in Number /\ wire' \in Seq(Number)
        /\ 1 \in DOMAIN wire /\ packet' = wire[1] /\ Len(wire) \in Nat \ {0}
        /\ Len(wire') = Len(wire) - 1
        /\ \A i \in DOMAIN wire' : i \in Nat /\ i + 1 \in DOMAIN wire /\ wire'[i] = wire[i + 1]
    BY <1>3, <2>1, Split
  <2>3. Fetched' = Fetched + 1 /\ Fetched' \in Nat
    BY <1>1, <2>1, <2>2 DEF Fetched
  <2>4. packet' = Fetched'
    BY <2>1, <2>2, <2>3
  <2>5. ASSUME NEW j \in DOMAIN wire' PROVE wire'[j] = Fetched' + j
    <3>1. wire'[j] = Fetched + (j + 1) /\ j \in Nat
      BY <2>1, <2>2
    <3> QED
      BY <2>1, <2>3, <3>1
  <2>6. /\ \A i \in DOMAIN heard : heard[i] \in Number
        /\ \A i \in DOMAIN codec : codec[i] \in Number
    BY <2>1, LenProperties
  <2>7. /\ UpTo(heard', Fetched') /\ UpTo(codec', Fetched')
        /\ Below(heard', packet') /\ Below(codec', packet')
    BY <1>1, <2>1, <2>3, <2>4, <2>6 DEF UpTo, Below, Number
  <2>8. AudioOrder'
    BY <1>1, <1>2, <2>3, <2>4, <2>5, <2>7 DEF AudioInv, AudioOrder, Ascending, Rising, From
  <2>9. AudioTypes' /\ AudioPlaces' /\ AudioSum'
    BY <1>1, <1>2, <1>3, <2>2 DEF AudioInv, AudioTypes, AudioPlaces, AudioSum, InHandNow, Number
  <2> QED
    BY <2>8, <2>9 DEF AudioInv
<1>4. CASE thread' = "done" /\ UNCHANGED <<packet, wire, live>>
  <2>1. UNCHANGED <<wire, sent, packet, pcm, live, codec, produced, several, heard, faults>>
    BY <1>1, <1>4
  <2>2. AudioTypes' /\ AudioOrder' /\ AudioSum'
    BY <2>1 DEF AudioInv, AudioTypes, AudioOrder, AudioSum, Fetched, UpTo, Below, Ascending,
       Rising, From, InHandNow
  <2> QED
    BY <1>1, <1>2, <1>4, <2>2 DEF AudioInv, AudioPlaces
<1> QED
  BY <1>3, <1>4 DEF ReadPacket

(* A packet that gives no frame is freed. *)
LEMMA AudioNothing == ASSUME AudioInv, SendFails \/ NoFrame PROVE AudioInv'
<1>1. /\ thread = "decode" /\ thread' = "read" /\ packet' = 0 /\ live' = live - 1
      /\ UNCHANGED <<app, open, swr, wire, sent, pcm, codec, heard, faults, produced>>
      /\ several' = several
  <2>1. CASE SendFails
    BY <2>1 DEF SendFails, FreePacket, setup, socket, decoder, sound
  <2>2. CASE NoFrame
    <3>1. /\ produced' = produced + 0 /\ several' = (several \/ 0 > 1)
          /\ thread = "decode" /\ thread' = "read" /\ packet' = 0 /\ live' = live - 1
          /\ UNCHANGED <<app, open, swr, wire, sent, pcm, codec, heard, faults>>
      BY <2>2 DEF NoFrame, Sends, FreePacket, setup, socket, sound
    <3>2. produced \in Nat /\ several \in BOOLEAN
      BY DEF AudioInv, AudioTypes
    <3> QED
      BY <3>1, <3>2
  <2> QED
    BY <2>1, <2>2
<1>2. pcm = 0 /\ live = 1 /\ app \in {"loop", "stopped"}
  BY <1>1 DEF AudioInv, AudioPlaces
<1>3. AudioTypes' /\ AudioPlaces' /\ AudioSum'
  BY <1>1, <1>2 DEF AudioInv, AudioTypes, AudioPlaces, AudioSum, InHandNow
<1>4. AudioOrder'
  BY <1>1, <1>2 DEF AudioInv, AudioOrder, Fetched, UpTo, Below, Ascending, Rising, From
<1> QED
  BY <1>3, <1>4 DEF AudioInv

(* A frame leaves the codec, to be played or lost. *)
LEMMA AudioFrame == ASSUME AudioInv, FrameLost \/ FrameDecoded PROVE AudioInv'
<1>1. PICK n \in 0 .. 2 :
          /\ thread = "decode" /\ open /\ produced' = produced + n
          /\ several' = (several \/ n > 1)
          /\ WithFrames(n) # << >> /\ codec' = Tail(WithFrames(n))
          /\ packet' = 0 /\ UNCHANGED <<app, open, swr, wire, sent, heard>>
          /\ \/ /\ thread' = "read" /\ faults' # {} /\ live' = live - 1 /\ pcm' = pcm
             \/ /\ thread' = "write" /\ pcm' = Head(WithFrames(n))
                /\ live' = live /\ (faults' = {} => faults = {})
  <2>1. CASE FrameLost
    BY <2>1 DEF FrameLost, Sends, FreePacket, setup, socket
  <2>2. CASE FrameDecoded
    BY <2>2 DEF FrameDecoded, Sends, setup, socket, sound
  <2> QED
    BY <2>1, <2>2
<1> DEFINE first == Head(WithFrames(n))
           rest  == Tail(WithFrames(n))
<1>2. /\ first \in Number /\ rest \in Seq(Number) /\ Len(rest) = Len(codec) + n - 1
      /\ first <= Fetched /\ UpTo(rest, Fetched) /\ Ascending(rest)
      /\ UpTo(heard, first) /\ From(rest, first)
      /\ \A i \in DOMAIN heard : From(rest, heard[i])
      /\ (~several /\ n <= 1) => rest = << >> /\ Below(heard, first)
  BY <1>1, FrameOut
<1>3. codec' = rest
  BY <1>1
<1>4. \/ /\ thread' = "read" /\ faults' # {} /\ live' = live - 1 /\ pcm' = pcm
      \/ /\ thread' = "write" /\ pcm' = first /\ live' = live /\ (faults' = {} => faults = {})
  BY <1>1
<1> HIDE DEF first, rest
<1>5. /\ pcm = 0 /\ live = 1 /\ app \in {"loop", "stopped"}
      /\ several \in BOOLEAN /\ produced \in Nat
      /\ heard \in Seq(Number) /\ codec \in Seq(Number)
  BY <1>1 DEF AudioInv, AudioPlaces, AudioTypes
<1>6. Len(heard) \in Nat /\ Len(codec) \in Nat
  BY <1>5, LenProperties
<1>7. AudioTypes'
  <2>1. codec' \in Seq(Number) /\ wire' \in Seq(Number) /\ heard' \in Seq(Number) /\ sent' \in Nat
    BY <1>1, <1>2, <1>3 DEF AudioInv, AudioTypes
  <2>2. produced' \in Nat /\ packet' \in Nat
    BY <1>1, <1>5
  <2>3. pcm' \in Nat /\ live' \in Nat
    BY <1>2, <1>4, <1>5 DEF Number
  <2>4. several' \in BOOLEAN
    BY <1>1, <1>5
  <2> QED
    BY <2>1, <2>2, <2>3, <2>4 DEF AudioTypes
<1>8. AudioPlaces'
  BY <1>1, <1>2, <1>4, <1>5 DEF AudioPlaces, Number
<1>9. AudioSum'
  <2> SUFFICES ASSUME faults' = {}
               PROVE  produced' = Len(heard') + Len(codec') + InHandNow'
    BY DEF AudioSum
  <2>1. pcm' # 0 /\ faults = {}
    BY <1>2, <1>4 DEF Number
  <2>2. /\ produced = Len(heard) + Len(codec) /\ produced' = produced + n
        /\ Len(codec') = Len(codec) + n - 1 /\ Len(heard') = Len(heard) /\ n \in Nat
    BY <1>1, <1>2, <1>3, <1>5, <1>6, <2>1 DEF AudioInv, AudioSum, InHandNow
  <2>3. InHandNow' = 1
    BY <2>1 DEF InHandNow
  <2> QED
    BY <1>6, <2>2, <2>3
<1>10. AudioOrder'
  <2>1. /\ Fetched' = Fetched /\ heard' = heard /\ wire' = wire /\ packet' = 0
        /\ pcm' = 0 \/ pcm' = first
    BY <1>1, <1>4, <1>5 DEF Fetched
  <2>7. ~several' => ~several /\ n <= 1
    <3>1. several \/ n > 1 => several'
      BY <1>1
    <3>2. n > 1 \/ n <= 1
      OBVIOUS
    <3> QED
      BY <3>1, <3>2
  <2>2. /\ Fetched \in Nat /\ \A j \in DOMAIN wire : wire[j] = Fetched + j
        /\ UpTo(heard, Fetched) /\ Ascending(heard)
        /\ ~several => Rising(heard)
    BY DEF AudioInv, AudioOrder
  <2>3. pcm' <= Fetched'
    BY <1>2, <2>1, <2>2 DEF Number
  <2>4. /\ Fetched' \in Nat /\ \A j \in DOMAIN wire' : wire'[j] = Fetched' + j
        /\ UpTo(heard', Fetched') /\ UpTo(codec', Fetched')
        /\ Ascending(heard') /\ Ascending(codec')
    BY <1>2, <1>3, <2>1, <2>2
  <2>5. /\ \A i \in DOMAIN heard' : From(codec', heard'[i])
        /\ pcm' # 0 => UpTo(heard', pcm') /\ From(codec', pcm')
    BY <1>2, <1>3, <2>1
  <2>6. ~several' => codec' = << >> /\ Rising(heard') /\ (pcm' # 0 => Below(heard', pcm'))
    BY <1>2, <1>3, <2>1, <2>2, <2>7
  <2> QED
    BY <2>1, <2>3, <2>4, <2>5, <2>6 DEF AudioOrder, UpTo, Below, Ascending, Rising, From
<1> QED
  BY <1>7, <1>8, <1>9, <1>10 DEF AudioInv

(* The frame in hand is heard, or something went wrong; it is freed. *)
LEMMA AudioWritten == ASSUME AudioInv, WriteFrame PROVE AudioInv'
<1>1. /\ thread = "write" /\ thread' = "read" /\ pcm' = 0 /\ live' = live - 1
      /\ \/ heard' = Append(heard, pcm) /\ (faults' = {} => faults = {})
         \/ heard' = heard /\ faults' # {}
      /\ UNCHANGED <<app, open, swr, wire, sent, packet, codec, produced, several>>
  BY DEF WriteFrame, Plays, Forgotten, setup, socket, decoder
<1>2. /\ packet = 0 /\ pcm \in Number /\ live = 1 /\ app \in {"loop", "stopped"}
      /\ heard \in Seq(Number) /\ codec \in Seq(Number)
  BY <1>1 DEF AudioInv, AudioPlaces, AudioTypes, Number
<1>3. /\ Fetched \in Nat /\ UpTo(heard, Fetched) /\ pcm <= Fetched /\ Ascending(heard)
      /\ UpTo(heard, pcm) /\ From(codec, pcm)
      /\ \A i \in DOMAIN heard : From(codec, heard[i])
      /\ ~several => Rising(heard) /\ Below(heard, pcm)
  BY <1>2 DEF AudioInv, AudioOrder, Number
<1>4. (faults = {} => produced = Len(heard) + Len(codec) + 1) /\ Len(heard) \in Nat /\ Len(codec) \in Nat
  BY <1>2, LenProperties DEF AudioInv, AudioSum, InHandNow, Number
<1>5. AudioPlaces'
  BY <1>1, <1>2 DEF AudioPlaces
<1>6. Fetched' = Fetched
  BY <1>1 DEF Fetched
<1>7. CASE heard' = heard /\ faults' # {}
  <2>1. AudioTypes'
    BY <1>1, <1>2, <1>7 DEF AudioInv, AudioTypes
  <2>2. AudioSum'
    BY <1>1, <1>2, <1>4, <1>7 DEF AudioSum, InHandNow
  <2>3. AudioOrder'
    BY <1>1, <1>2, <1>6, <1>7 DEF AudioInv, AudioOrder
  <2> QED
    BY <1>5, <2>1, <2>2, <2>3 DEF AudioInv
<1>8. CASE heard' = Append(heard, pcm) /\ (faults' = {} => faults = {})
  <2> DEFINE n == Len(heard)
  <2>1. /\ heard' \in Seq(Number) /\ n \in Nat /\ Len(heard') = n + 1
        /\ DOMAIN heard' = 1 .. n + 1 /\ DOMAIN heard = 1 .. n
        /\ \A i \in 1 .. n : heard'[i] = heard[i]
        /\ heard'[n + 1] = pcm
    BY <1>2, <1>8, Longer
  <2> HIDE DEF n
  <2>2. AudioTypes'
    BY <1>1, <1>2, <1>8, <2>1 DEF AudioInv, AudioTypes
  <2>3. AudioSum'
    <3>1. Len(heard') = Len(heard) + 1
      BY <2>1 DEF n
    <3> QED
      BY <1>1, <1>2, <1>4, <1>8, <3>1 DEF AudioSum, InHandNow
  <2>4. ASSUME NEW i \in DOMAIN heard'
        PROVE  (i \in DOMAIN heard /\ heard'[i] = heard[i]) \/ (i = n + 1 /\ heard'[i] = pcm)
    BY <2>1
  <2>5. \A i \in DOMAIN heard : heard[i] \in Number
    BY <1>2, LenProperties
  <2>6. UpTo(heard', Fetched')
    BY <1>3, <1>6, <2>4 DEF UpTo
  <2>7. ASSUME NEW i \in DOMAIN heard' PROVE From(codec', heard'[i])
    BY <1>1, <1>3, <2>4
  <2>8. ASSUME NEW i \in DOMAIN heard', NEW j \in DOMAIN heard', i < j
        PROVE  heard'[i] <= heard'[j] /\ (~several => heard'[i] < heard'[j])
    <3>1. i \in DOMAIN heard /\ heard'[i] = heard[i]
      BY <2>1, <2>8
    <3>2. CASE j \in DOMAIN heard /\ heard'[j] = heard[j]
      BY <1>3, <2>8, <3>1, <3>2 DEF Ascending, Rising
    <3>3. CASE heard'[j] = pcm
      BY <1>3, <3>1, <3>3 DEF UpTo, Below
    <3> QED
      BY <2>4, <3>2, <3>3
  <2>9. Ascending(heard') /\ (~several' => Rising(heard'))
    BY <1>1, <2>8 DEF Ascending, Rising
  <2>10. AudioOrder'
    BY <1>1, <1>2, <1>6, <2>6, <2>7, <2>9 DEF AudioInv, AudioOrder
  <2> QED
    BY <1>5, <2>2, <2>3, <2>10 DEF AudioInv
<1> QED
  BY <1>1, <1>7, <1>8

(* The main thread sets up the sound before the audio thread runs. *)
LEMMA AudioMain == ASSUME AudioInv, Main PROVE AudioInv'
<1>1. UNCHANGED <<wire, sent, inHand, decoder, heard, faults>>
  BY DEF Main, ReadMetadata, InitDecoder, InitPlayer, StartPipeline, StopPipeline, socket, sound
<1>2. AudioTypes' /\ AudioOrder' /\ AudioSum'
  BY <1>1, AudioStill
<1>3. UNCHANGED <<packet, pcm, live>>
  BY <1>1 DEF inHand
<1>4. \/ thread' = thread /\ open' = open /\ swr' = swr /\ app' = app
      \/ thread = "none" /\ thread' = "none"
      \/ thread = "none" /\ thread' = "read" /\ app' = "loop"
      \/ thread' = thread /\ open' = open /\ swr' = swr /\ app' = "stopped"
  BY DEF Main, ReadMetadata, InitDecoder, InitPlayer, StartPipeline, StopPipeline, setup,
     AudioInv, AudioPlaces
<1>5. AudioPlaces'
  BY <1>3, <1>4 DEF AudioInv, AudioPlaces
<1> QED
  BY <1>2, <1>5 DEF AudioInv

LEMMA AudioStep == AudioInv /\ [AudioNext]_audioVars => AudioInv'
<1> SUFFICES ASSUME AudioInv, [AudioNext]_audioVars PROVE AudioInv'
  OBVIOUS
<1>1. CASE PlaySound \/ Over \/ UNCHANGED audioVars
  <2>1. UNCHANGED <<app, setup, thread, wire, sent, inHand, decoder, heard, faults>>
    BY <1>1 DEF PlaySound, Over, audioVars, socket, sound
  <2>2. UNCHANGED <<app, thread, open, swr, packet, pcm, live>>
    BY <2>1 DEF setup, inHand
  <2> QED
    BY <2>1, <2>2, AudioStill DEF AudioInv, AudioPlaces
<1>2. CASE SendToNothing \/ CopyOverruns
  <2>1. /\ thread = "decode" /\ (~open \/ ~swr) /\ thread' = "crashed"
        /\ UNCHANGED <<app, setup, wire, sent, inHand, decoder, heard, faults>>
    BY <1>2 DEF SendToNothing, CopyOverruns, socket, sound
  <2>2. UNCHANGED <<app, open, swr, packet, pcm, live>>
    BY <2>1 DEF setup, inHand
  <2> QED
    BY <2>1, <2>2, AudioStill DEF AudioInv, AudioPlaces
<1> QED
  BY <1>1, <1>2, AudioMain, AudioSent, AudioRead, AudioNothing, AudioFrame, AudioWritten
  DEF AudioNext, AudioThread

(* The sound heard is in the order of its packets; as long as no call      *)
(* failed and the sound card had room no decoded frame is missing; nothing *)
(* the audio thread allocates is left behind, and it crashes only without  *)
(* a codec or a resampler.  This holds for any room in the codec and in    *)
(* the sound card and however many packets (audio_thread_func,             *)
(* audio_decoder_decode, audio_player_write).                              *)
THEOREM SoundKept == AudioSpec => []SoundAccounted
<1>1. AudioInit => AudioInv
  <2> SUFFICES ASSUME AudioInit PROVE AudioInv
    OBVIOUS
  <2>1. /\ wire = << >> /\ codec = << >> /\ heard = << >> /\ sent = 0 /\ packet = 0 /\ pcm = 0
        /\ live = 0 /\ produced = 0 /\ several = FALSE
        /\ thread = "none"
    BY DEF AudioInit
  <2>2. << >> \in Seq(Number) /\ Len(<< >>) = 0 /\ DOMAIN << >> = {}
    BY EmptySeq, LenProperties
  <2>3. AudioTypes /\ AudioPlaces /\ AudioSum
    <3>1. AudioTypes
      <4>1. wire \in Seq(Number) /\ codec \in Seq(Number) /\ heard \in Seq(Number)
        BY <2>1, <2>2, Zenon
      <4>2. {sent, packet, pcm, live, produced} \subseteq Nat
        BY <2>1
      <4> QED
        BY <2>1, <4>1, <4>2 DEF AudioTypes
    <3>2. AudioPlaces
      BY <2>1 DEF AudioPlaces
    <3>3. Len(heard) = 0 /\ Len(codec) = 0 /\ InHandNow = 0
      BY <2>1, <2>2 DEF InHandNow
    <3>4. AudioSum
      BY <2>1, <3>3 DEF AudioSum
    <3> QED
      BY <3>1, <3>2, <3>4
  <2>4. AudioOrder
    BY <2>1, <2>2 DEF AudioOrder, Fetched, UpTo, Below, Ascending, Rising, From
  <2> QED
    BY <2>3, <2>4 DEF AudioInv
<1>2. AudioInv => SoundAccounted
  BY DEF AudioInv, AudioPlaces, AudioOrder, AudioSum, InHandNow, Ascending, Rising, SoundAccounted
<1> QED
  BY <1>1, <1>2, AudioStep, PTL DEF AudioSpec

----------------------------------------------------------------------------
(* The picture *)

(* What is remembered as the size of the textures is their size, unless    *)
(* they could not be created.                                              *)
FrameInv ==
    ~failed => /\ main # "crashed" /\ copied.frame = copied.into
               /\ rend.video = Empty \/ tex = [size |-> rend.video, made |-> 4]

LEMMA FrameStep == FrameInv /\ [DisplayNext]_displayVars => FrameInv'
<1> SUFFICES ASSUME FrameInv, [DisplayNext]_displayVars PROVE FrameInv'
  OBVIOUS
<1>1. CASE Start
  BY <1>1 DEF Start, OnResize, FrameInv
<1>2. CASE UserResizes
  BY <1>2 DEF UserResizes, OnResize, FrameInv
<1>3. CASE RenderFrame
  <2>1. PICK f \in Videos, made \in 0 .. 4 :
            LET gaveUp == NeedsTextures(f) /\ made < 4
            IN  /\ OnResize(win', f, IF gaveUp THEN rend.video ELSE f)
                /\ EnsureTextures(f, made)
                /\ IF gaveUp THEN copied' = NotCopied /\ UNCHANGED main
                   ELSE UpdateTexture(f)
    BY <1>3 DEF RenderFrame
  <2>2. main = "loop" /\ f # Empty
    BY <1>3, DisplayAssumption DEF RenderFrame, Empty
  <2>3. CASE NeedsTextures(f) /\ made < 4
    BY <2>1, <2>3 DEF EnsureTextures, FrameInv
  <2>4. CASE NeedsTextures(f) /\ ~(made < 4)
    <3>1. /\ rend'.video = f /\ tex' = [size |-> f, made |-> 4]
      BY <2>1, <2>4 DEF OnResize, EnsureTextures
    <3>2. UpdateTexture(f)
      BY <2>1, <2>4
    <3> QED
      BY <2>2, <3>1, <3>2 DEF UpdateTexture, NotCopied, FrameInv
  <2>5. CASE ~NeedsTextures(f)
    <3>1. /\ rend'.video = f /\ rend.video = f /\ tex' = tex /\ failed' = failed
          /\ UpdateTexture(f)
      BY <2>1, <2>5 DEF OnResize, EnsureTextures, NeedsTextures
    <3>2. ~failed => tex' = [size |-> f, made |-> 4]
      BY <2>2, <3>1 DEF FrameInv
    <3> QED
      BY <2>2, <3>1, <3>2 DEF UpdateTexture, NotCopied, FrameInv
  <2> QED
    BY <2>3, <2>4, <2>5
<1>4. CASE Crashed \/ UNCHANGED displayVars
  BY <1>4 DEF Crashed, displayVars, FrameInv
<1> QED
  BY <1>1, <1>2, <1>3, <1>4 DEF DisplayNext

(* As long as the last attempt to create the textures succeeded, a frame   *)
(* is copied into a texture of its size and none is missing, for any sizes *)
(* of frames in any order (ensure_nv12_texture, update_nv12_texture).      *)
THEOREM FramesFit == DisplaySpec => []FramesFitUnlessFailed
<1>1. DisplayInit => FrameInv
  BY DEF DisplayInit, NotCopied, FrameInv
<1>2. FrameInv => FramesFitUnlessFailed
  BY DEF FrameInv, FramesFitUnlessFailed
<1> QED
  BY <1>1, <1>2, FrameStep, PTL DEF DisplaySpec

(* The rounded root and the rounded quotient exist, so a window keeps whole*)
(* sides.                                                                  *)
LEMMA Least == ASSUME NEW T \in SUBSET Nat, T # {} PROVE \E x \in T : \A y \in T : x <= y
<1>1. IsWellFoundedOn(OpToRel(<, Nat), Nat)
  BY NatLessThanWellFounded
<1>2. PICK x \in T : \A y \in T : ~(<<y, x>> \in OpToRel(<, Nat))
  BY <1>1, WFMin
<1>3. \A y \in T : ~(y < x)
  BY <1>2 DEF OpToRel
<1> QED
  BY <1>3

LEMMA Roots == ASSUME NEW a \in Nat, NEW b \in Nat \ {0} PROVE RoundedRoot(a, b) \in Nat
<1> DEFINE T == {n \in 0 .. a : 4*a < (2*n + 1) * (2*n + 1) * b}
<1>1. a \in T
  <2>1. 4*a < (2*a + 1) * (2*a + 1)
    OBVIOUS
  <2>2. (2*a + 1) * (2*a + 1) <= (2*a + 1) * (2*a + 1) * b
    OBVIOUS
  <2> QED
    BY <2>1, <2>2
<1>2. PICK n \in T : \A m \in T : n <= m
  <2>1. \A n \in T : n \in Nat
    OBVIOUS
  <2> HIDE DEF T
  <2>2. T \in SUBSET Nat /\ T # {}
    BY <1>1, <2>1
  <2> QED
    BY <2>2, Least
<1>3. n > 0 => (2*n - 1) * (2*n - 1) * b <= 4*a
  <2>1. SUFFICES ASSUME n > 0 PROVE (2*n - 1) * (2*n - 1) * b <= 4*a
    OBVIOUS
  <2>2. n - 1 \in 0 .. a /\ ~(n - 1 \in T)
    BY <1>2, <2>1
  <2>3. ~(4*a < (2*(n - 1) + 1) * (2*(n - 1) + 1) * b)
    BY <2>2
  <2>4. 2*(n - 1) + 1 = 2*n - 1
    BY <2>2
  <2> QED
    BY <2>2, <2>3, <2>4
<1>4. n \in 0 .. a /\ 4*a < (2*n + 1) * (2*n + 1) * b
  BY <1>2
<1>5. RoundedRoot(a, b) \in 0 .. a
  BY <1>3, <1>4 DEF RoundedRoot
<1> QED
  BY <1>5

LEMMA Quotients ==
    ASSUME NEW a \in Nat, NEW b \in Nat \ {0} PROVE Rounded(a, b) \in Nat
<1>1. 2*a + b \in Nat /\ 2*b \in Nat /\ 2*b > 0
  OBVIOUS
<1>2. \A c, d \in Nat : d > 0 => c \div d \in Nat
  OBVIOUS
<1> QED
  BY <1>1, <1>2 DEF Rounded

(* The window has whole sides; once its size was heard of, and while it is *)
(* visible, the controller and the renderer know it; a picture whose scale *)
(* was written and that was presented is of the size the controller knows  *)
(* for the device, at the scale of the renderer's sizes.                   *)
WindowInv ==
    /\ win \in Nat \X Nat
    /\ main = "start" => picture = None
    /\ main # "start" /\ Visible(win) => ctrl.window = win /\ rend.window = win
    /\ picture # None /\ ~missed =>
          /\ picture.video \in Videos /\ picture.video = ctrl.device
          /\ picture.scale = [video |-> picture.video, window |-> rend.window]

LEMMA Fits ==
    ASSUME NEW w \in Nat \X Nat, Visible(w), NEW v \in Videos
    PROVE  Fitted(w, v) \in Nat \X Nat
<1>1. /\ v[1] \in Nat \ {0} /\ v[2] \in Nat \ {0}
      /\ Screen[1] \in Nat \ {0} /\ Screen[2] \in Nat \ {0}
      /\ w[1] \in Nat /\ w[2] \in Nat
  BY DisplayAssumption
<1> DEFINE area == w[1] * w[2]
           same == <<RoundedRoot(area * v[1], v[2]), RoundedRoot(area * v[2], v[1])>>
           narrow == IF same[1] <= Screen[1] THEN same
                     ELSE <<Screen[1], Rounded(Screen[1] * v[2], v[1])>>
<1>2. area \in Nat
  BY <1>1
<1> HIDE DEF area
<1>3. area * v[1] \in Nat /\ area * v[2] \in Nat /\ Screen[1] * v[2] \in Nat /\ Screen[2] * v[1] \in Nat
  BY <1>1, <1>2
<1>4. /\ RoundedRoot(area * v[1], v[2]) \in Nat /\ RoundedRoot(area * v[2], v[1]) \in Nat
  BY <1>1, <1>3, Roots
<1>5. /\ Rounded(Screen[1] * v[2], v[1]) \in Nat /\ Rounded(Screen[2] * v[1], v[2]) \in Nat
  BY <1>1, <1>3, Quotients
<1>6. same \in Nat \X Nat
  BY <1>4
<1> HIDE DEF same
<1>7. narrow \in Nat \X Nat
  BY <1>1, <1>5, <1>6
<1>8. Fitted(w, v) = IF narrow[2] <= Screen[2] THEN narrow
                     ELSE <<Rounded(Screen[2] * v[1], v[2]), Screen[2]>>
  BY DEF Fitted, narrow, same, area
<1> HIDE DEF narrow
<1> QED
  BY <1>1, <1>5, <1>7, <1>8

LEMMA Resized ==
    ASSUME WindowInv, NEW v \in Videos PROVE ResizedForVideo(v) \in Nat \X Nat
<1>1. win \in Nat \X Nat
  BY DEF WindowInv
<1> QED
  BY <1>1, Fits DEF ResizedForVideo

LEMMA WindowStep == WindowInv /\ [DisplayNext]_displayVars => WindowInv'
<1> SUFFICES ASSUME WindowInv, [DisplayNext]_displayVars PROVE WindowInv'
  OBVIOUS
<1>1. CASE Start
  <2>1. PICK v \in Videos : win' = ResizedForVideo(v) /\ OnResize(win', v, rend.video)
    BY <1>1 DEF Start
  <2>2. win' \in Nat \X Nat
    BY <2>1, Resized
  <2>3. picture' = None
    BY <1>1 DEF Start, WindowInv
  <2>4. Visible(win') => ctrl'.window = win' /\ rend'.window = win'
    BY <2>1 DEF OnResize, Heard
  <2>5. main' = "loop"
    BY <1>1 DEF Start
  <2> QED
    BY <2>2, <2>3, <2>4, <2>5 DEF WindowInv, Visible
<1>2. CASE UserResizes
  <2>1. /\ win' \in {Empty} \cup ((1 .. MaxSide) \X (1 .. MaxSide))
        /\ OnResize(win', ctrl.device, rend.video) /\ picture' = None
    BY <1>2 DEF UserResizes
  <2>2. win' \in Nat \X Nat
    BY <2>1, DisplayAssumption DEF Empty
  <2>3. Visible(win') => ctrl'.window = win' /\ rend'.window = win'
    BY <2>1 DEF OnResize, Heard
  <2> QED
    BY <2>1, <2>2, <2>3 DEF WindowInv, Visible
<1>3. CASE RenderFrame
  <2>1. PICK f \in Videos, made \in 0 .. 4 :
            LET gaveUp == NeedsTextures(f) /\ made < 4
            IN  /\ win' = IF f = ctrl.device THEN win ELSE ResizedForVideo(f)
                /\ OnResize(win', f, IF gaveUp THEN rend.video ELSE f)
                /\ IF gaveUp THEN copied' = NotCopied /\ UNCHANGED main
                   ELSE UpdateTexture(f)
                /\ Draw(f)
    BY <1>3 DEF RenderFrame
  <2>2. main # "start" /\ main' # "start"
    BY <1>3, <2>1 DEF RenderFrame, UpdateTexture
  <2>3. win' \in Nat \X Nat
    BY <2>1, Resized DEF WindowInv
  <2>4. ctrl'.device = f /\ (Visible(win') => ctrl'.window = win' /\ rend'.window = win')
    BY <2>1 DEF OnResize, Heard
  <2>5. picture' # None /\ ~missed' =>
            /\ picture'.video \in Videos /\ picture'.video = ctrl'.device
            /\ picture'.scale = [video |-> picture'.video, window |-> rend'.window]
    <3> SUFFICES ASSUME picture' # None, ~missed'
                 PROVE  /\ picture'.video \in Videos /\ picture'.video = ctrl'.device
                        /\ picture'.scale = [video |-> picture'.video, window |-> rend'.window]
      OBVIOUS
    <3>1. picture' = Drawn(f, TRUE)
      BY <2>1 DEF Draw
    <3>2. copied' # NotCopied /\ picture' = [video |-> f, scale |-> Scale(TRUE)]
      BY <3>1 DEF Drawn
    <3>3. rend'.video = f
      BY <2>1, <3>2 DEF OnResize
    <3> QED
      BY <2>4, <3>2, <3>3 DEF Scale
  <2> QED
    BY <2>2, <2>3, <2>4, <2>5 DEF WindowInv, Visible
<1>4. CASE Crashed \/ UNCHANGED displayVars
  BY <1>4 DEF Crashed, displayVars, WindowInv, Visible
<1> QED
  BY <1>1, <1>2, <1>3, <1>4 DEF DisplayNext

(* What is truncated is at most its quotient and less than two below it.   *)
LEMMA Truncating ==
    ASSUME NEW num \in Nat, NEW den \in Nat \ {0}, NEW exact \in BOOLEAN,
           NEW t \in Truncated(num, den, exact)
    PROVE  t \in Nat /\ num - den <= t * den /\ t * den <= num
<1> DEFINE v == num \div den
           r == num % den
<1>1. v \in Nat /\ den * v <= num /\ num < den * v + den
  OBVIOUS
<1>2. r = 0 => num = den * v
  OBVIOUS
<1>3. t \in IF r = 0 /\ v > 0 /\ ~exact THEN {v - 1, v} ELSE {v}
  BY DEF Truncated
<1> HIDE DEF v, r
<1>4. CASE t = v
  <2>1. t * den = den * v
    BY <1>1, <1>4
  <2>2. den * v \in Nat
    BY <1>1
  <2> QED
    BY <1>1, <1>4, <2>1, <2>2
<1>5. CASE t = v - 1 /\ r = 0 /\ v > 0
  <2>1. t * den = den * v - den
    BY <1>1, <1>5
  <2> QED
    BY <1>1, <1>2, <1>5, <2>1
<1> QED
  BY <1>3, <1>4, <1>5

LEMMA Pairs == \A a, b \in Int : /\ Max({a, b}) = IF a >= b THEN a ELSE b
                                 /\ Min({a, b}) = IF a <= b THEN a ELSE b
<1> SUFFICES ASSUME NEW a \in Int, NEW b \in Int
             PROVE  /\ Max({a, b}) = IF a >= b THEN a ELSE b
                    /\ Min({a, b}) = IF a <= b THEN a ELSE b
  OBVIOUS
<1> DEFINE m == IF a >= b THEN a ELSE b
           l == IF a <= b THEN a ELSE b
<1>1. m \in {a, b} /\ \A y \in {a, b} : m >= y
  OBVIOUS
<1>2. \A z \in {a, b} : (\A y \in {a, b} : z >= y) => z = m
  OBVIOUS
<1>3. l \in {a, b} /\ \A y \in {a, b} : l <= y
  OBVIOUS
<1>4. \A z \in {a, b} : (\A y \in {a, b} : z <= y) => z = l
  OBVIOUS
<1> HIDE DEF m, l
<1>5. Max({a, b}) = m
  BY <1>1, <1>2 DEF Max
<1>6. Min({a, b}) = l
  BY <1>3, <1>4 DEF Min
<1> QED
  BY <1>5, <1>6 DEF m, l

Within(lo, x, hi) == IF x <= lo THEN lo ELSE IF x >= hi THEN hi ELSE x

LEMMA Clamped ==
    ASSUME NEW hi \in Nat, NEW x \in Int
    PROVE  Max({0, Min({hi, x})}) = Within(0, x, hi)
<1>1. Min({hi, x}) = IF hi <= x THEN hi ELSE x
  BY Pairs
<1>2. Max({0, Min({hi, x})}) = IF 0 >= Min({hi, x}) THEN 0 ELSE Min({hi, x})
  BY <1>1, Pairs
<1> QED
  BY <1>1, <1>2 DEF Within

(* Products of whole numbers. *)
LEMMA Times == \A a, b, c \in Int : c >= 0 /\ a <= b => a * c <= b * c
OBVIOUS

LEMMA Over0 == \A a, b, c \in Int : c > 0 /\ a * c <= b * c => a <= b
OBVIOUS

LEMMA Scaled ==
    ASSUME NEW a \in Int, NEW hi \in Nat, NEW m \in Nat \ {0}
    PROVE  Within(0, a * m, hi * m) = Within(0, a, hi) * m
<1> DEFINE b == a * m
           h == hi * m
<1>1. b \in Int /\ h \in Nat
  OBVIOUS
<1>2. CASE a <= 0
  <2>1. b <= 0 /\ Within(0, a, hi) = 0
    BY <1>2, Times DEF Within
  <2> HIDE DEF b
  <2> QED
    BY <1>1, <2>1 DEF Within
<1>3. CASE a > 0 /\ a >= hi
  <2>1. b > 0 /\ b >= h /\ Within(0, a, hi) = hi
    BY <1>3, Times DEF Within
  <2>2. Within(0, b, h) = h
    <3> HIDE DEF b, h
    <3> QED
      BY <1>1, <2>1 DEF Within
  <2> QED
    BY <2>1, <2>2
<1>4. CASE a > 0 /\ a < hi
  <2>1. b > 0 /\ b < h /\ Within(0, a, hi) = a
    BY <1>4, Over0 DEF Within
  <2>2. Within(0, b, h) = b
    <3> HIDE DEF b, h
    <3> QED
      BY <1>1, <2>1 DEF Within
  <2> QED
    BY <2>1, <2>2
<1> QED
  BY <1>2, <1>3, <1>4

(* A touch on one axis: the window has so many pixels, the picture covers  *)
(* s1 / s2 of them, the code takes r for it, which may be one less, and the*)
(* device has n.  With e / s2 the place in the picture and d / s2 what r   *)
(* lacks, the touch t is off by less than a pixel of each.                 *)
LEMMA Near ==
    ASSUME NEW W \in Nat \ {0}, NEW r \in Nat \ {0}, NEW n \in Nat \ {0},
           NEW s1 \in Nat \ {0}, NEW s2 \in Nat \ {0}, NEW x \in Nat,
           s1 <= W * s2, s1 - s2 <= r * s2, r * s2 <= s1,
           NEW rel \in Nat, rel = Within(0, x - (W - r) \div 2, r),
           NEW t \in Nat, rel * n - r <= t * r, t * r <= rel * n,
           NEW sh, sh = Within(0, (2*x*s2 - W*s2 + s1) * n, 2*s1*n)
    PROVE  /\ t * 2 * s1 - sh <= 2 * s1 + 2 * s2 * n
           /\ sh - t * 2 * s1 <= 2 * s1 + 2 * s2 * n
<1> DEFINE o == (W - r) \div 2
           y == x - o
           A == r * s2
           X == x * s2
           V == W * s2
           O == o * s2
           E == rel * s2
           d == s1 - A
           p == 2*X - V + s1
           q == Within(0, p, 2*s1)
<1>1. o \in Int /\ 2*o <= W - r /\ W - r <= 2*o + 1
  OBVIOUS
<1> HIDE DEF o
<1>2. A \in Nat /\ X \in Nat /\ V \in Nat /\ O \in Int /\ E \in Nat
  BY <1>1
<1>3. 2*O <= V - A /\ V - A <= 2*O + s2
  <2>1. (2*o) * s2 <= (W - r) * s2 /\ (W - r) * s2 <= (2*o + 1) * s2
    BY <1>1, Times
  <2>2. (2*o) * s2 = 2*O /\ (W - r) * s2 = V - A /\ (2*o + 1) * s2 = 2*O + s2
    BY <1>1
  <2> QED
    BY <2>1, <2>2
<1>4. y \in Int /\ y * s2 = X - O
  BY <1>1
<1>5. rel = Within(0, y, r)
  BY DEF o
<1>6. \/ E = 0 /\ X - O <= 0
      \/ E = A /\ A <= X - O
      \/ E = X - O /\ E <= A
  <2>1. CASE y <= 0
    <3>1. rel = 0 /\ y * s2 <= 0 * s2
      BY <1>4, <1>5, <2>1, Times DEF Within
    <3> QED
      BY <1>4, <3>1
  <2>2. CASE ~(y <= 0) /\ y >= r
    <3>1. rel = r /\ r * s2 <= y * s2
      BY <1>4, <1>5, <2>2, Times DEF Within
    <3> QED
      BY <1>4, <3>1
  <2>3. CASE ~(y <= 0) /\ ~(y >= r)
    <3>1. rel = y /\ y * s2 <= r * s2
      BY <1>4, <1>5, <2>3, Times DEF Within
    <3> QED
      BY <1>4, <3>1
  <2> QED
    BY <2>1, <2>2, <2>3
<1>7. d \in Nat /\ d <= s2 /\ A + d = s1
  BY <1>2
<1>8. p \in Int /\ q \in Nat
  BY <1>2 DEF Within
<1>9. sh = q * n
  <2>1. sh = Within(0, p * n, (2*s1) * n)
    OBVIOUS
  <2>2. 2*s1 \in Nat
    OBVIOUS
  <2> HIDE DEF p
  <2> QED
    BY <1>8, <2>1, <2>2, Scaled
<1>10. 2*E + 2*d <= q + 2*s2 /\ q <= 2*E + 2*s2
  <2> HIDE DEF A, X, V, O, E
  <2> QED
    BY <1>2, <1>3, <1>6, <1>7 DEF Within
<1>11. t <= n
  <2>1. rel <= r
    BY <1>4, <1>5 DEF Within
  <2>2. rel * n <= r * n /\ r * n = n * r
    BY <2>1, Times
  <2>3. rel * n \in Int /\ r * n \in Int /\ t * r \in Int /\ n * r \in Int
    OBVIOUS
  <2>4. t * r <= n * r
    BY <2>2, <2>3
  <2> QED
    BY <2>4, Over0
<1>12. t * s1 = (t * r) * s2 + t * d
  BY <1>7
<1>13. t * d <= n * d /\ t * d >= 0 /\ t * d \in Int /\ n * d \in Int
  BY <1>7, <1>11, Times
<1>14. (t * r) * s2 <= E * n /\ E * n - A <= (t * r) * s2
  <2>1. (t * r) * s2 <= (rel * n) * s2 /\ (rel * n - r) * s2 <= (t * r) * s2
    BY Times
  <2>2. (rel * n) * s2 = E * n /\ (rel * n - r) * s2 = E * n - A
    OBVIOUS
  <2> QED
    BY <2>1, <2>2
<1> HIDE DEF A, X, V, O, E, d, p, q
<1>15. (2*E + 2*d) * n <= (q + 2*s2) * n /\ q * n <= (2*E + 2*s2) * n
  BY <1>2, <1>7, <1>8, <1>10, Times
<1>16. /\ (2*E + 2*d) * n = 2*(E*n) + 2*(n*d) /\ (q + 2*s2) * n = q*n + 2*(s2*n)
       /\ (2*E + 2*s2) * n = 2*(E*n) + 2*(s2*n)
  BY <1>2, <1>7, <1>8
<1>17. /\ E*n \in Int /\ q*n \in Int /\ s2*n \in Int /\ t*s1 \in Int /\ (t*r)*s2 \in Int
       /\ t * 2 * s1 = 2*(t*s1) /\ 2 * s2 * n = 2*(s2*n)
  BY <1>2, <1>8
<1>18. A <= s1
  BY <1>2, <1>7
<1> QED
  BY <1>2, <1>9, <1>12, <1>13, <1>14, <1>15, <1>16, <1>17, <1>18

Rectangles == (Nat \ {0}) \X (Nat \ {0})

(* The picture fills one side of the window; of the other the code takes   *)
(* what it covers, truncated.                                              *)
LEMMA Rendering ==
    ASSUME NEW w \in Rectangles, NEW v \in Rectangles, NEW i \in 1 .. 2,
           NEW r \in RenderSizes(w, v), NEW s, s = ShownSides(w, v)[i]
    PROVE  /\ s[1] \in Nat \ {0} /\ s[2] \in Nat \ {0} /\ s[1] <= w[i] * s[2]
           /\ r[i] \in Nat /\ s[1] - s[2] <= r[i] * s[2] /\ r[i] * s[2] <= s[1]
<1>1. /\ w[1] \in Nat \ {0} /\ w[2] \in Nat \ {0} /\ v[1] \in Nat \ {0} /\ v[2] \in Nat \ {0}
  BY DEF Rectangles
<1>2. w[2] * v[1] \in Nat \ {0} /\ w[1] * v[2] \in Nat \ {0} /\ v[1] * w[2] = w[2] * v[1]
  BY <1>1
<1>3. CASE Wider(w, v)
  <2>1. PICK n \in Truncated(w[2] * v[1], v[2], v[1] % v[2] = 0) : r = <<n, w[2]>>
    BY <1>3 DEF RenderSizes
  <2>2. n \in Nat /\ w[2] * v[1] - v[2] <= n * v[2] /\ n * v[2] <= w[2] * v[1]
    <3>1. (v[1] % v[2] = 0) \in BOOLEAN
      OBVIOUS
    <3> QED
      BY <1>1, <1>2, <2>1, <3>1, Truncating
  <2>3. ShownSides(w, v) = << <<w[2] * v[1], v[2]>>, <<w[2], 1>> >>
    BY <1>3 DEF ShownSides
  <2>4. w[2] * v[1] < w[1] * v[2]
    BY <1>2, <1>3 DEF Wider
  <2>5. CASE i = 1
    <3>1. s[1] = w[2] * v[1] /\ s[2] = v[2] /\ r[i] = n
      BY <2>1, <2>3, <2>5
    <3> QED
      BY <1>1, <1>2, <2>2, <2>4, <2>5, <3>1
  <2>6. CASE i = 2
    <3>1. s[1] = w[2] /\ s[2] = 1 /\ r[i] = w[2]
      BY <2>1, <2>3, <2>6
    <3> QED
      BY <1>1, <2>6, <3>1
  <2> QED
    BY <2>5, <2>6
<1>4. CASE ~Wider(w, v)
  <2>1. PICK n \in Truncated(w[1] * v[2], v[1], v[1] % v[2] = 0) : r = <<w[1], n>>
    BY <1>4 DEF RenderSizes
  <2>2. n \in Nat /\ w[1] * v[2] - v[1] <= n * v[1] /\ n * v[1] <= w[1] * v[2]
    <3>1. (v[1] % v[2] = 0) \in BOOLEAN
      OBVIOUS
    <3> QED
      BY <1>1, <1>2, <2>1, <3>1, Truncating
  <2>3. ShownSides(w, v) = << <<w[1], 1>>, <<w[1] * v[2], v[1]>> >>
    BY <1>4 DEF ShownSides
  <2>4. w[1] * v[2] <= w[2] * v[1]
    BY <1>2, <1>4 DEF Wider
  <2>5. CASE i = 1
    <3>1. s[1] = w[1] /\ s[2] = 1 /\ r[i] = w[1]
      BY <2>1, <2>3, <2>5
    <3> QED
      BY <1>1, <2>5, <3>1
  <2>6. CASE i = 2
    <3>1. s[1] = w[1] * v[2] /\ s[2] = v[1] /\ r[i] = n
      BY <2>1, <2>3, <2>6
    <3> QED
      BY <1>1, <1>2, <2>2, <2>4, <2>6, <3>1
  <2> QED
    BY <2>5, <2>6
<1> QED
  BY <1>3, <1>4

LEMMA OneTouch ==
    ASSUME NEW w \in Rectangles, NEW v \in Rectangles, NEW i \in 1 .. 2, NEW x \in 0 .. w[i] - 1,
           NEW t \in Positions(i, x, w, v), NEW s, s = ShownSides(w, v)[i],
           NEW sh, sh = Max({0, Min({2 * s[1] * v[i], (2*x*s[2] - w[i]*s[2] + s[1]) * v[i]})})
    PROVE  /\ t * 2 * s[1] - sh <= 2 * s[1] + 2 * s[2] * v[i]
           /\ sh - t * 2 * s[1] <= 2 * s[1] + 2 * s[2] * v[i]
<1>1. w[i] \in Nat \ {0} /\ v[i] \in Nat \ {0} /\ x \in Nat
  BY DEF Rectangles
<1>2. Visible(w) /\ Visible(v)
  BY DEF Visible, Rectangles
<1>3. PICK r \in RenderSizes(w, v) : r[i] > 0 /\ t \in Touched(x, w[i], r[i], v[i])
  BY <1>2 DEF Positions
<1> DEFINE a == s[1]
           b == s[2]
           W == w[i]
           n == v[i]
           m == r[i]
           rel == Max({0, Min({m, x - (W - m) \div 2})})
<1>4. /\ a \in Nat \ {0} /\ b \in Nat \ {0} /\ a <= W * b
      /\ m \in Nat \ {0} /\ a - b <= m * b /\ m * b <= a
  BY <1>3, Rendering
<1>5. W \in Nat \ {0} /\ n \in Nat \ {0}
  BY <1>1
<1>6. t \in Truncated(rel * n, m, rel \in {0, m})
  BY <1>3 DEF Touched
<1>7. sh = Max({0, Min({2 * a * n, (2*x*b - W*b + a) * n})})
  OBVIOUS
<1> HIDE DEF a, b, W, n, m
<1>8. rel = Within(0, x - (W - m) \div 2, m) /\ rel \in Nat
  <2>1. x - (W - m) \div 2 \in Int
    BY <1>1, <1>4, <1>5
  <2>2. rel = Within(0, x - (W - m) \div 2, m)
    BY <1>4, <2>1, Clamped
  <2>3. Within(0, x - (W - m) \div 2, m) \in Nat
    BY <1>4, <2>1 DEF Within
  <2> QED
    BY <2>2, <2>3
<1> HIDE DEF rel
<1>9. t \in Nat /\ rel * n - m <= t * m /\ t * m <= rel * n
  <2>1. rel * n \in Nat /\ (rel \in {0, m}) \in BOOLEAN
    BY <1>5, <1>8
  <2> QED
    BY <1>4, <1>6, <2>1, Truncating
<1>10. sh = Within(0, (2*x*b - W*b + a) * n, 2*a*n)
  <2>1. 2*a*n \in Nat /\ (2*x*b - W*b + a) * n \in Int
    BY <1>1, <1>4, <1>5
  <2> QED
    BY <1>7, <2>1, Clamped
<1>11. t * 2 * a - sh <= 2 * a + 2 * b * n /\ sh - t * 2 * a <= 2 * a + 2 * b * n
  BY <1>1, <1>4, <1>5, <1>8, <1>9, <1>10, Near
<1> QED
  BY <1>11 DEF a, b, n

(* With a picture in a visible window every touch on it reaches the device *)
(* where the picture shows it, up to a pixel of each, for windows, screens *)
(* and frames of any size, whatever Direct3D refuses; only the frame whose *)
(* scale could not be written, or that could not be presented, is excepted *)
(* until the next (input_transform_coords, on_resize,                      *)
(* update_aspect_ratio_transform, d3d_context_end_frame).                  *)
THEOREM TouchesMeet == DisplaySpec => []TouchesWhatIsShown
<1>1. DisplayInit => WindowInv
  <2> SUFFICES ASSUME DisplayInit PROVE WindowInv
    OBVIOUS
  <2>1. win = FirstWindow /\ main = "start" /\ picture = None
    BY DEF DisplayInit
  <2> QED
    BY <2>1, DisplayAssumption DEF WindowInv
<1>2. WindowInv => TouchesWhatIsShown
  <2> SUFFICES ASSUME WindowInv, picture # None, Visible(win), ~missed, NEW i \in 1 .. 2,
                      NEW x \in 0 .. win[i] - 1,
                      NEW t \in Positions(i, x, ctrl.window, ctrl.device)
               PROVE  LET s == ShownSides(picture.scale.window, picture.scale.video)[i]
                          n == picture.video[i]
                          sh == Max({0, Min({2 * s[1] * n, (2*x*s[2] - win[i]*s[2] + s[1]) * n})})
                      IN  /\ t * 2 * s[1] - sh <= 2 * s[1] + 2 * s[2] * n
                          /\ sh - t * 2 * s[1] <= 2 * s[1] + 2 * s[2] * n
    BY DEF TouchesWhatIsShown
  <2>1. /\ picture.video = ctrl.device /\ ctrl.window = win
        /\ picture.scale = [video |-> ctrl.device, window |-> win]
        /\ ctrl.device \in Videos /\ win \in Nat \X Nat
    BY DEF WindowInv
  <2>2. ctrl.device \in Rectangles /\ win \in Rectangles
    BY <2>1, DisplayAssumption DEF Rectangles, Visible
  <2> DEFINE s == ShownSides(win, ctrl.device)[i]
             n == ctrl.device[i]
             sh == Max({0, Min({2 * s[1] * n, (2*x*s[2] - win[i]*s[2] + s[1]) * n})})
  <2>3. t \in Positions(i, x, win, ctrl.device)
    BY <2>1
  <2>4. /\ t * 2 * s[1] - sh <= 2 * s[1] + 2 * s[2] * n
        /\ sh - t * 2 * s[1] <= 2 * s[1] + 2 * s[2] * n
    BY <2>2, <2>3, OneTouch
  <2> QED
    BY <2>1, <2>4
<1> QED
  BY <1>1, <1>2, WindowStep, PTL DEF DisplaySpec
============================================================================
