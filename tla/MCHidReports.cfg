SPECIFICATION Spec
CONSTANTS
    Usages = {1, 4, 5, 68}
    Mods = {0, 1}
    Buttons = {0, 4, 5}
    KeyCode <- MCKeyCode
    ModCode <- MCModCode
    BtnCode <- MCBtnCode
    NoCode = 0
    KeyboardBits <- MCKeyboardBits
    Slots = 2
INVARIANTS
    HeldAsReported
PROPERTIES
    CleanChords
    NoFlicker
CHECK_DEADLOCK FALSE
