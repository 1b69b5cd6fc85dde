---------------------------- MODULE MCHidReports ----------------------------
(* HidReports with the codes of KeyMap: letter A, F11, and usage 1, which   *)
(* has no code; two modifiers; buttons 0, 4 and 5, the last without code.   *)
EXTENDS HidReports, KeyMap

MCKeyCode == [u \in Usages |-> hid_usage_to_linux_key(u)]
MCModCode == [m \in Mods |-> ModifierKeys[m + 1]]
MCBtnCode == [b \in Buttons |-> IF b < 5 THEN 272 + b ELSE 0]
MCKeyboardBits == 1 .. 255
=============================================================================
