----------------------------- MODULE HidReports -----------------------------
(***************************************************************************)
(* How the Linux receiver turns reports into input events: apply_report,   *)
(* apply_mouse_report and apply_keyboard_report of receiver.rs, with the   *)
(* state they keep between reports, and the keys the kernel holds down for *)
(* the uinput device.  Each event is a step, for applications see it.      *)
(* Motion and wheel keep no state and are left out.                        *)
(***************************************************************************)
EXTENDS Integers, FiniteSets

CONSTANTS
    Usages,       \* non-zero key usages a report may hold
    KeyCode,      \* hid_usage_to_linux_key on them
    Mods,         \* bits of the modifier byte
    ModCode,      \* their KEY_* codes
    Buttons,      \* bits of the button byte
    BtnCode,      \* the BTN_* codes of the five that have one
    NoCode,       \* None
    KeyboardBits, \* the codes a keyboard device is created with
    Slots         \* keys a report holds at once (6)

Codes(map) == {map[x] : x \in DOMAIN map} \ {NoCode}

(* Distinct keys have distinct codes, all of them among those the keyboard  *)
(* was created with and none of them a mouse button.                        *)
ASSUME CodesAssumption ==
    /\ \A u, v \in Usages : KeyCode[u] = KeyCode[v] => u = v \/ KeyCode[u] = NoCode
    /\ \A a, b \in Mods : ModCode[a] = ModCode[b] => a = b
    /\ \A b \in Mods : ModCode[b] # NoCode
    /\ \A a, b \in Buttons : BtnCode[a] = BtnCode[b] => a = b \/ BtnCode[a] = NoCode
    /\ DOMAIN KeyCode = Usages /\ DOMAIN ModCode = Mods /\ DOMAIN BtnCode = Buttons
    /\ Codes(KeyCode) \cap Codes(ModCode) = {}
    /\ Codes(KeyCode) \cup Codes(ModCode) \subseteq KeyboardBits
    /\ Codes(BtnCode) \cap KeyboardBits = {}

VARIABLES
    profile,   \* the device open_device created: mouse or keyboard
    eight,     \* whether its reports are eight bytes long
    live,      \* the uinput device exists
    phase,     \* idle, or the loop of the report being applied
    todo,      \* events this loop has still to write
    report,    \* the latest report
    PREV, PREV_MOD, PREV_KEYS,
    down       \* codes the kernel holds down for the device

vars == <<profile, eight, live, phase, todo, report, PREV, PREV_MOD, PREV_KEYS, down>>

Events(map, xs, pressed) ==
    {[code |-> map[x], pressed |-> pressed] : x \in {y \in xs : map[y] # NoCode}}

NoReport == [buttons |-> {}, mods |-> {}, keys |-> {}]

Init ==
    /\ profile \in {"mouse", "keyboard"} /\ eight \in BOOLEAN
    /\ live = TRUE /\ phase = "idle" /\ todo = {} /\ report = NoReport
    /\ PREV = {} /\ PREV_MOD = {} /\ PREV_KEYS = {}
    /\ down = {}

-----------------------------------------------------------------------------
(* apply_report takes eight bytes for a boot keyboard's report and anything *)
(* else for a mouse's.                                                      *)
MouseReport(buttons) ==
    /\ live /\ phase = "idle" /\ ~eight
    /\ report' = [NoReport EXCEPT !.buttons = buttons]
    /\ phase' = "buttons"
    /\ todo' = Events(BtnCode, buttons \ PREV, TRUE) \cup Events(BtnCode, PREV \ buttons, FALSE)
    /\ UNCHANGED <<profile, eight, live, PREV, PREV_MOD, PREV_KEYS, down>>

(* The modifiers that changed come first. *)
KeyboardReport(mods, keys) ==
    /\ live /\ phase = "idle" /\ eight
    /\ Cardinality(keys) <= Slots
    /\ report' = [NoReport EXCEPT !.mods = mods, !.keys = keys]
    /\ phase' = "mods"
    /\ todo' = Events(ModCode, mods \ PREV_MOD, TRUE) \cup Events(ModCode, PREV_MOD \ mods, FALSE)
    /\ UNCHANGED <<profile, eight, live, PREV, PREV_MOD, PREV_KEYS, down>>

ReleaseAll ==             \* mutant of Release: keys.contains is not asked
    /\ phase = "mods" /\ todo = {}
    /\ phase' = "release"
    /\ todo' = Events(KeyCode, PREV_KEYS, FALSE)
    /\ UNCHANGED <<profile, eight, live, report, PREV, PREV_MOD, PREV_KEYS, down>>

ReleaseAndPress ==        \* mutant of Release: one loop over every key that changed
    /\ phase = "mods" /\ todo = {}
    /\ phase' = "release"
    /\ todo' = Events(KeyCode, PREV_KEYS \ report.keys, FALSE)
                  \cup Events(KeyCode, report.keys \ PREV_KEYS, TRUE)
    /\ UNCHANGED <<profile, eight, live, report, PREV, PREV_MOD, PREV_KEYS, down>>

(* "Released keys: present in prev_keys but not in keys." *)
Release ==
    /\ phase = "mods" /\ todo = {}
    /\ phase' = "release"
    /\ todo' = Events(KeyCode, PREV_KEYS \ report.keys, FALSE)
    /\ UNCHANGED <<profile, eight, live, report, PREV, PREV_MOD, PREV_KEYS, down>>

(* "Newly pressed keys." *)
Press ==
    /\ phase = "release" /\ todo = {}
    /\ phase' = "press"
    /\ todo' = Events(KeyCode, report.keys \ PREV_KEYS, TRUE)
    /\ UNCHANGED <<profile, eight, live, report, PREV, PREV_MOD, PREV_KEYS, down>>

KeyboardDoneForgets ==    \* mutant of KeyboardDone: PREV_KEYS is not assigned
    /\ phase = "press" /\ todo = {}
    /\ phase' = "idle"
    /\ PREV_MOD' = report.mods
    /\ UNCHANGED <<profile, eight, live, todo, report, PREV, PREV_KEYS, down>>

(* The statics are assigned once every event is out. *)
KeyboardDone ==
    /\ phase = "press" /\ todo = {}
    /\ phase' = "idle"
    /\ PREV_MOD' = report.mods /\ PREV_KEYS' = report.keys
    /\ UNCHANGED <<profile, eight, live, todo, report, PREV, down>>

MouseDone ==
    /\ phase = "buttons" /\ todo = {}
    /\ phase' = "idle"
    /\ PREV' = report.buttons
    /\ UNCHANGED <<profile, eight, live, todo, report, PREV_MOD, PREV_KEYS, down>>

(* The kernel ignores codes the device was not created with. *)
Accepts == IF profile = "mouse" THEN Codes(BtnCode) ELSE KeyboardBits

(* key, mouse_button: one event and a SYN_REPORT. *)
Emit ==
    /\ \E ev \in todo :
         /\ todo' = todo \ {ev}
         /\ down' = IF ev.code \notin Accepts THEN down
                    ELSE IF ev.pressed THEN down \cup {ev.code} ELSE down \ {ev.code}
    /\ UNCHANGED <<profile, eight, live, phase, report, PREV, PREV_MOD, PREV_KEYS>>

(* write_event fails, or the session ends between two reports: the device   *)
(* is dropped, and the kernel lifts its keys.                               *)
Drop ==
    /\ live /\ (phase = "idle" \/ todo # {})
    /\ live' = FALSE /\ phase' = "idle" /\ todo' = {} /\ down' = {}
    /\ UNCHANGED <<profile, eight, report, PREV, PREV_MOD, PREV_KEYS>>

Next ==
    \/ \E b \in SUBSET Buttons : MouseReport(b)
    \/ \E m \in SUBSET Mods, k \in SUBSET Usages : KeyboardReport(m, k)
    \/ Release \/ Press \/ KeyboardDone \/ MouseDone \/ Emit \/ Drop

Spec == Init /\ [][Next]_vars

-----------------------------------------------------------------------------
(* Every variable keeps its type. *)
TypeOK ==
    /\ profile \in {"mouse", "keyboard"} /\ eight \in BOOLEAN /\ live \in BOOLEAN
    /\ phase \in {"idle", "buttons", "mods", "release", "press"}
    /\ todo \subseteq [code : Codes(KeyCode) \cup Codes(ModCode) \cup Codes(BtnCode),
                       pressed : BOOLEAN]
    /\ report \in [buttons : SUBSET Buttons, mods : SUBSET Mods, keys : SUBSET Usages]
    /\ PREV \subseteq Buttons /\ PREV_MOD \subseteq Mods /\ PREV_KEYS \subseteq Usages
    /\ down \subseteq Accepts

Of(map, xs) == {map[x] : x \in xs} \ {NoCode}
Reported == Of(BtnCode, report.buttons) \cup Of(ModCode, report.mods) \cup Of(KeyCode, report.keys)

(* Between reports the keys down on the virtual device are those of the     *)
(* latest report, whatever came before; where the shape of the reports does *)
(* not fit the device, none is.                                             *)
HeldAsReported == (live /\ phase = "idle") => down = Reported \cap Accepts

(* A key goes down together with the modifiers of its own report and with   *)
(* nothing of an earlier one: a chord is never seen that was not pressed.   *)
CleanChords ==
    [][(down' \ down) \cap Codes(KeyCode) # {} =>
          /\ down' \subseteq Reported
          /\ Of(ModCode, report.mods) \subseteq down']_vars

(* A key held over two reports is not lifted in between. *)
NoFlicker == [][live' => (down \ down') \cap Reported = {}]_vars
=============================================================================
