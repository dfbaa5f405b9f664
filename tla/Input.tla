-------------------------------- MODULE Input --------------------------------
(***************************************************************************)
(* Keys and mouse buttons on their way to the device: WndProc, on_key_event*)
(* and controller_on_key_event, on_mouse_event and                         *)
(* controller_on_mouse_event, control_msg_serialize.  The device must think*)
(* a key or the finger down when the hand holds it down, although the      *)
(* window learns of a change only while it has the focus or the pointer,   *)
(* and although keys mean something else while Alt is down.                *)
(*                                                                         *)
(* A message is obeyed where it is sent: that every control message arrives*)
(* is assumed here.  ControlInOrder of AdbRelay shows that those that do   *)
(* arrive come in order and none twice; one that is dropped on the way     *)
(* (server.c:115) also leaves a key or the finger as it was.  Where a touch*)
(* is put is Display's concern.                                            *)
(***************************************************************************)
EXTENDS Naturals, Sequences

CONSTANTS
    Letters,        \* keys with a keycode that are no shortcut
    Buttons         \* mouse buttons the window handles

(* Alt with one of these is a shortcut; each of them is a key on its own.  *)
Shortcuts == {"P", "O", "Backspace"}
Mapped    == Letters \cup Shortcuts
Keys      == Mapped \cup {"Alt"}

(* No key of the keyboard has the keycode Alt+P sends (vk_to_android). *)
ASSUME InputAssumption == Letters \cap (Shortcuts \cup {"Alt", "POWER"}) = {}

VARIABLES
    enabled,    \* ctrl->enabled
    sized,      \* are ctrl->device_width and device_height known?
    pressed,    \* the keys the hand holds down
    focus,      \* has the window the keyboard?
    buttons,    \* the buttons the hand holds down
    inside,     \* is the pointer over the window?
    held,       \* the keycodes the device holds down
    touch,      \* the device's finger: "up" or "down"
    odd,        \* was the last touch message of no use to that finger?
    astray,     \* keys that changed where the device could not follow
    slipped,    \* did a button change outside the window?
    mixed       \* were two buttons down at once?

keyboard  == <<pressed, focus, held, astray>>
mouse     == <<buttons, inside, touch, odd, slipped, mixed>>
inputVars == <<enabled, sized, keyboard, mouse>>

InputInit ==
    /\ enabled \in BOOLEAN /\ sized \in BOOLEAN
    /\ pressed = {} /\ focus = TRUE /\ held = {} /\ astray = {}
    /\ buttons = {} /\ inside \in BOOLEAN /\ touch = "up"
    /\ odd = FALSE /\ slipped = FALSE /\ mixed = FALSE

----------------------------------------------------------------------------
(* Keys *)

Key(code, down) == [type |-> "keycode", code |-> code, down |-> down]
DisplayPower    == [type |-> "display power"]

(* Both messages of Alt+Backspace are this one: the action put into        *)
(* msg_data is not serialized.                                             *)
BackOrScreenOn  == [type |-> "back"]

Tap(code) == <<Key(code, TRUE), Key(code, FALSE)>>

ShortcutWithoutRelease(k) ==   \* Seeded fault: a shortcut's key is not released.
    CASE k = "O"         -> <<DisplayPower>>
      [] k = "Backspace" -> <<BackOrScreenOn, BackOrScreenOn>>
      [] OTHER           -> <<Key("POWER", TRUE)>>

ShortcutMessages(k) ==
    CASE k = "O"         -> <<DisplayPower>>
      [] k = "Backspace" -> <<BackOrScreenOn, BackOrScreenOn>>
      [] OTHER           -> Tap("POWER")

(* "P" stands for the shortcuts with a keycode other than their own.       *)
(* alt is GetKeyState(VK_MENU).  VK_MENU itself has no keycode: only its   *)
(* left and right variants do, which WM_KEYDOWN does not report.           *)
KeyMessages(k, down, alt) ==
    IF ~enabled THEN << >>
    ELSE IF alt /\ down /\ k \in Shortcuts THEN ShortcutMessages(k)
    ELSE IF ~alt /\ k \in Mapped THEN <<Key(k, down)>>
    ELSE << >>

(* The server injects the keycodes; the other messages press nothing.      *)
Obey(h, m) ==
    IF m.type # "keycode" THEN h
    ELSE IF m.down THEN h \cup {m.code} ELSE h \ {m.code}

(* One after the other; an event of a key sends two at most.               *)
ObeyAll(h, ms) ==
    CASE Len(ms) = 0 -> h
      [] Len(ms) = 1 -> Obey(h, ms[1])
      [] Len(ms) = 2 -> Obey(Obey(h, ms[1]), ms[2])

(* WM_(SYS)KEYDOWN and WM_(SYS)KEYUP come only with the focus.  A held key *)
(* repeats its WM_KEYDOWN.                                                 *)
KeyChanges(k, down) ==
    /\ pressed' = (IF down THEN pressed \cup {k} ELSE pressed \ {k})
    /\ LET alt  == "Alt" \in pressed'
           seen == focus /\ ~alt
       IN  /\ held' = IF focus THEN ObeyAll(held, KeyMessages(k, down, alt)) ELSE held
           /\ astray' = IF seen THEN astray \ {k}
                        ELSE IF (k \in pressed) # down THEN astray \cup {k}
                        ELSE astray
    /\ UNCHANGED <<enabled, sized, focus, mouse>>

KeyDown == \E k \in Keys : KeyChanges(k, TRUE)
KeyUp   == \E k \in pressed : KeyChanges(k, FALSE)

FocusChanges ==
    /\ focus' = ~focus
    /\ UNCHANGED <<enabled, sized, pressed, held, astray, mouse>>

----------------------------------------------------------------------------
(* Buttons *)

(* A move without a button is not sent.                                    *)
Dropped(action, mask) == ~enabled \/ ~sized \/ (action = 2 /\ mask = {})

ReleaseAsMove(action) ==   \* Seeded fault: a release is taken for a move.
    IF action = 1 THEN "down" ELSE "move"

AndroidAction(action) ==
    CASE action = 1 -> "down" [] action = 0 -> "up" [] OTHER -> "move"

(* The device's finger follows the action; a press while it is down, or    *)
(* anything else while it is up, is of no use to it.  The release of any   *)
(* button is the release of the finger.                                    *)
Touch(action, mask) ==
    IF Dropped(action, mask) THEN UNCHANGED <<touch, odd>>
    ELSE LET does == AndroidAction(action)
         IN  /\ touch' = IF does = "move" THEN touch ELSE does
             /\ odd' = ((does = "down") = (touch = "down"))

(* Nothing is down, on either side: what was missed is made up for. *)
InStep == buttons = {} /\ touch = "up"

(* WM_[LR]BUTTONDOWN and -UP name the button that changed and come only    *)
(* with the pointer over the window: the mouse is not captured.            *)
ButtonDown ==
    \E b \in Buttons \ buttons :
        /\ buttons' = buttons \cup {b}
        /\ IF inside THEN Touch(1, {b}) ELSE UNCHANGED <<touch, odd>>
        /\ slipped' = (~inside \/ (slipped /\ ~InStep))
        /\ mixed' = (buttons # {} \/ (mixed /\ ~InStep))
        /\ UNCHANGED <<enabled, sized, keyboard, inside>>

ButtonUp ==
    \E b \in buttons :
        /\ buttons' = buttons \ {b}
        /\ IF inside THEN Touch(0, {b}) ELSE UNCHANGED <<touch, odd>>
        /\ slipped' = (slipped \/ ~inside)
        /\ UNCHANGED <<enabled, sized, keyboard, inside, mixed>>

(* WM_MOUSEMOVE carries the buttons that are down.                         *)
Move ==
    /\ inside' \in BOOLEAN
    /\ IF inside' THEN Touch(2, buttons) ELSE UNCHANGED <<touch, odd>>
    /\ UNCHANGED <<enabled, sized, keyboard, buttons, slipped, mixed>>

InputNext == KeyDown \/ KeyUp \/ FocusChanges \/ ButtonDown \/ ButtonUp \/ Move

InputSpec == InputInit /\ [][InputNext]_inputVars

----------------------------------------------------------------------------

(* The device holds the keys the hand holds, whatever shortcuts, repeats   *)
(* and changes of the focus came between, except for keys pressed or       *)
(* released under Alt or without the focus and not touched since; and      *)
(* nothing a shortcut pressed stays down (controller_on_key_event).        *)
KeysInStep ==
    enabled => /\ held \ astray = (pressed \cap Mapped) \ astray
               /\ "POWER" \notin held

(* With no button down the device's finger is up, unless a release was     *)
(* lost outside the window; while one button is used at a time, inside the *)
(* window, the finger is down exactly while that button is and no touch    *)
(* message misses it (controller_on_mouse_event, WndProc).                 *)
TouchInStep ==
    (enabled /\ sized) =>
        /\ (buttons = {} /\ ~slipped) => touch = "up"
        /\ (~slipped /\ ~mixed) => ((touch = "down") = (buttons # {}))
        /\ odd => (slipped \/ mixed)
=============================================================================
