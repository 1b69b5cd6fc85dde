------------------------------- MODULE KeyMap -------------------------------
(***************************************************************************)
(* hid_usage_to_linux_key of receiver.rs: keyboard usages of HID to the    *)
(* KEY_* codes of Linux, for every byte.  A usage the table does not have  *)
(* (None in the code) is 0 here, a code no key has.                        *)
(***************************************************************************)
EXTENDS Integers, Sequences, FiniteSets

Bytes == 0 .. 255

(* The alphabet in the order of the usages, 0x04 first. *)
Letters == <<30, 48, 46, 32, 18, 33, 34, 35, 23, 36, 37, 38, 50, 49, 24, 25, 16, 19, 31,
             20, 22, 47, 17, 45, 21, 44>>

code_for_letter(usage) == Letters[usage - 3]

(* 0x1E .. 0x38 but 0x32: digits, Enter ... Space, punctuation. *)
Symbols == <<2, 3, 4, 5, 6, 7, 8, 9, 10, 11, 28, 1, 14, 15, 57, 12, 13, 26, 27, 43, 0,
             39, 40, 41, 51, 52, 53>>

(* 0x3A ..= 0x45 => 59 + (usage - 0x3A), F1..F12 *)
code_for_f(usage) == 59 + usage - 58

hid_usage_to_linux_key(usage) ==
    CASE usage \in 4 .. 29  -> code_for_letter(usage)
      [] usage \in 30 .. 56 -> Symbols[usage - 29]
      [] usage = 57         -> 58
      [] usage \in 58 .. 69 -> code_for_f(usage)
      [] usage = 79         -> 106
      [] usage = 80         -> 105
      [] usage = 81         -> 108
      [] usage = 82         -> 103
      [] OTHER              -> 0

(* Bit 0 of the modifier byte first. *)
ModifierKeys == <<29, 42, 56, 125, 97, 54, 100, 126>>

-----------------------------------------------------------------------------
(* No two usages, and no usage and modifier, share a code: a key is never   *)
(* lifted by the release of another one.                                    *)
ASSUME KeysDistinct ==
    \A usage \in Bytes :
        LET code == hid_usage_to_linux_key(usage) IN
        code # 0 =>
            /\ \A u \in Bytes \ {usage} : hid_usage_to_linux_key(u) # code
            /\ \A i \in DOMAIN ModifierKeys : ModifierKeys[i] # code

(* Linux numbers the letters along the rows of a QWERTY keyboard, the first *)
(* from 16, the second from 30, the third from 44; HID numbers them by the  *)
(* alphabet, A = 4.                                                         *)
Rows == <<[from |-> 16, usages |-> <<20, 26, 8, 21, 23, 28, 24, 12, 18, 19>>],
          [from |-> 30, usages |-> <<4, 22, 7, 9, 10, 11, 13, 14, 15>>],
          [from |-> 44, usages |-> <<29, 27, 6, 25, 5, 17, 16>>]>>
ASSUME LettersFollowRows ==
    \A r \in DOMAIN Rows : \A i \in DOMAIN Rows[r].usages :
        hid_usage_to_linux_key(Rows[r].usages[i]) = Rows[r].from + i - 1

(* "F1..F12": Linux has KEY_F1 .. KEY_F10 from 59 on and KEY_F11, KEY_F12 at *)
(* 87 and 88.  The offset is right for the first ten and for none of the     *)
(* last two, which get 69 and 70, KEY_NUMLOCK and KEY_SCROLLLOCK.            *)
ASSUME FunctionKeysButTwo ==
    \A usage \in 58 .. 69 :
        hid_usage_to_linux_key(usage) = (IF usage < 68 THEN usage + 1 ELSE usage + 19)
            <=> usage < 68
=============================================================================
