-------------------------- MODULE HidReportsProofs --------------------------
(***************************************************************************)
(* Proofs about HidReports: after any sequence of reports, and for any key *)
(* map without collisions, the keys down are those of the latest report.   *)
(***************************************************************************)
EXTENDS HidReports, TLAPS

(* The decoder only ever fills the part of its state that its path uses. *)
PathInv ==
    /\ eight => report.buttons = {} /\ PREV = {}
    /\ ~eight => report.mods = {} /\ report.keys = {} /\ PREV_MOD = {} /\ PREV_KEYS = {}
    /\ phase = "buttons" => ~eight
    /\ phase \in {"mods", "release", "press"} => eight
    /\ phase = "idle" => todo = {}
    /\ ~live => phase = "idle" /\ down = {}
    /\ live /\ phase = "idle" =>
         PREV = report.buttons /\ PREV_MOD = report.mods /\ PREV_KEYS = report.keys

(* The codes down when the loop of the present phase is over. *)
After ==
    CASE phase = "mods"    -> Of(ModCode, report.mods) \cup Of(KeyCode, PREV_KEYS)
      [] phase = "release" -> Of(ModCode, report.mods) \cup Of(KeyCode, PREV_KEYS \cap report.keys)
      [] OTHER             -> Reported

(* An event still to come takes its code to where After has it, which is    *)
(* also where the report has it; every other code is there already.         *)
EventsInv ==
    /\ \A ev \in todo : ev.pressed <=> ev.code \in After
    /\ \A ev \in todo : ev.pressed <=> ev.code \in Reported
    /\ \A ev \in todo : ev.code \in Codes(KeyCode) => phase \in {"release", "press"}
    /\ \A ev \in todo : ev.pressed /\ phase = "release" => ev.code \notin Codes(KeyCode)
    /\ live => \A c \in Accepts :
         ((c \in down) # (c \in After)) => \E ev \in todo : ev.code = c
    /\ phase = "press" => down \subseteq Reported
    /\ phase = "press" => Of(ModCode, report.mods) \cap Accepts \subseteq down

HInv == TypeOK /\ PathInv /\ EventsInv

-----------------------------------------------------------------------------
(* What the code sets hold. *)

LEMMA OfMods ==
    \A xs \in SUBSET Mods :
        /\ Of(ModCode, xs) \subseteq Codes(ModCode)
        /\ \A b \in Mods : ModCode[b] \in Codes(ModCode)
        /\ \A b \in Mods : ModCode[b] \in Of(ModCode, xs) <=> b \in xs
BY CodesAssumption DEF Of, Codes

LEMMA OfKeys ==
    \A xs \in SUBSET Usages :
        /\ Of(KeyCode, xs) \subseteq Codes(KeyCode)
        /\ \A u \in Usages : KeyCode[u] # NoCode => KeyCode[u] \in Codes(KeyCode)
        /\ \A u \in Usages : KeyCode[u] # NoCode => (KeyCode[u] \in Of(KeyCode, xs) <=> u \in xs)
BY CodesAssumption DEF Of, Codes

LEMMA OfBtns ==
    \A xs \in SUBSET Buttons :
        /\ Of(BtnCode, xs) \subseteq Codes(BtnCode)
        /\ \A b \in Buttons : BtnCode[b] # NoCode => BtnCode[b] \in Codes(BtnCode)
        /\ \A b \in Buttons : BtnCode[b] # NoCode => (BtnCode[b] \in Of(BtnCode, xs) <=> b \in xs)
BY CodesAssumption DEF Of, Codes

LEMMA Apart ==
    /\ Codes(KeyCode) \cap Codes(ModCode) = {}
    /\ Codes(KeyCode) \cap Codes(BtnCode) = {}
    /\ Codes(ModCode) \cap Codes(BtnCode) = {}
BY CodesAssumption

(* What Events puts on the list. *)
LEMMA EventOf ==
    ASSUME NEW map, NEW xs, NEW p \in BOOLEAN, NEW ev \in Events(map, xs, p)
    PROVE  \E x \in xs : map[x] # NoCode /\ ev.code = map[x] /\ ev.pressed = p
BY DEF Events

LEMMA EventFor ==
    ASSUME NEW map, NEW xs, NEW p \in BOOLEAN, NEW x \in xs, map[x] # NoCode
    PROVE  \E ev \in Events(map, xs, p) : ev.code = map[x]
<1>1. [code |-> map[x], pressed |-> p] \in Events(map, xs, p)
  BY DEF Events
<1> QED
  BY <1>1

LEMMA EventType ==
    ASSUME NEW map, NEW xs \in SUBSET DOMAIN map, NEW p \in BOOLEAN
    PROVE  Events(map, xs, p) \subseteq [code : Codes(map), pressed : BOOLEAN]
BY DEF Events, Codes

(* The empty sets of codes. *)
LEMMA OfNone == \A map : Of(map, {}) = {}
BY DEF Of

-----------------------------------------------------------------------------
LEMMA InitInv == Init => HInv
<1> SUFFICES ASSUME Init PROVE HInv
  OBVIOUS
<1>1. TypeOK
  BY DEF Init, TypeOK, NoReport
<1>2. PathInv
  BY DEF Init, PathInv, NoReport
<1>3. Reported = {} /\ After = {}
  BY OfNone DEF Init, Reported, After, NoReport
<1>4. EventsInv
  BY <1>3 DEF Init, EventsInv
<1> QED
  BY <1>1, <1>2, <1>4 DEF HInv

LEMMA MouseReportInv ==
    ASSUME HInv, NEW b \in SUBSET Buttons, MouseReport(b) PROVE HInv'
<1> DEFINE On == Events(BtnCode, b \ PREV, TRUE)
           Off == Events(BtnCode, PREV \ b, FALSE)
<1>0. PREV \subseteq Buttons /\ PREV = report.buttons /\ ~eight
      /\ report.mods = {} /\ report.keys = {} /\ todo = {} /\ live
  BY DEF HInv, TypeOK, PathInv, MouseReport
<1>1. Reported = Of(BtnCode, PREV) /\ After = Of(BtnCode, PREV)
  BY <1>0, OfNone DEF Reported, After, MouseReport
<1>2. Reported' = Of(BtnCode, b) /\ After' = Of(BtnCode, b)
  BY OfNone DEF Reported, After, MouseReport, NoReport
<1>3. TypeOK'
  <2>1. todo' \subseteq [code : Codes(BtnCode), pressed : BOOLEAN]
    BY <1>0, EventType, CodesAssumption DEF MouseReport
  <2> QED
    BY <2>1 DEF HInv, TypeOK, MouseReport, NoReport, Accepts
<1>4. PathInv'
  BY <1>0 DEF HInv, PathInv, MouseReport, NoReport
<1>5. \A ev \in todo' : /\ ev.code \in Codes(BtnCode)
                        /\ ev.pressed <=> ev.code \in Of(BtnCode, b)
  <2> TAKE ev \in todo'
  <2>1. CASE ev \in On
    <3>1. PICK x \in b \ PREV : BtnCode[x] # NoCode /\ ev.code = BtnCode[x] /\ ev.pressed = TRUE
      BY <2>1, EventOf
    <3> QED
      BY <3>1, OfBtns
  <2>2. CASE ev \in Off
    <3>1. PICK x \in PREV \ b : BtnCode[x] # NoCode /\ ev.code = BtnCode[x] /\ ev.pressed = FALSE
      BY <2>2, EventOf
    <3> QED
      BY <3>1, <1>0, OfBtns
  <2> QED
    BY <2>1, <2>2 DEF MouseReport
<1>6. \A c \in Accepts : ((c \in down) # (c \in After')) => \E ev \in todo' : ev.code = c
  <2> SUFFICES ASSUME NEW c \in Accepts, (c \in down) # (c \in Of(BtnCode, b))
               PROVE  \E ev \in todo' : ev.code = c
    BY <1>2
  <2>1. c \in down <=> c \in Of(BtnCode, PREV)
    BY <1>0, <1>1 DEF HInv, EventsInv
  <2>2. CASE c \in Of(BtnCode, b)
    <3>1. PICK x \in b \ PREV : BtnCode[x] # NoCode /\ c = BtnCode[x]
      BY <2>1, <2>2 DEF Of
    <3>2. PICK ev \in On : ev.code = BtnCode[x]
      BY <3>1, EventFor
    <3> QED
      BY <3>1, <3>2 DEF MouseReport
  <2>3. CASE c \notin Of(BtnCode, b)
    <3>1. PICK x \in PREV \ b : BtnCode[x] # NoCode /\ c = BtnCode[x]
      BY <2>1, <2>3 DEF Of
    <3>2. PICK ev \in Off : ev.code = BtnCode[x]
      BY <3>1, EventFor
    <3> QED
      BY <3>1, <3>2 DEF MouseReport
  <2> QED
    BY <2>2, <2>3
<1>7. EventsInv'
  <2>1. phase' = "buttons" /\ down' = down /\ Accepts' = Accepts
    BY DEF MouseReport, Accepts
  <2> QED
    BY <2>1, <1>2, <1>5, <1>6, Apart DEF EventsInv
<1> QED
  BY <1>3, <1>4, <1>7 DEF HInv

LEMMA KeyboardReportInv ==
    ASSUME HInv, NEW m \in SUBSET Mods, NEW k \in SUBSET Usages, KeyboardReport(m, k)
    PROVE  HInv'
<1> DEFINE On == Events(ModCode, m \ PREV_MOD, TRUE)
           Off == Events(ModCode, PREV_MOD \ m, FALSE)
<1>0. /\ PREV_MOD \subseteq Mods /\ PREV_KEYS \subseteq Usages
      /\ PREV_MOD = report.mods /\ PREV_KEYS = report.keys
      /\ eight /\ report.buttons = {} /\ todo = {} /\ live
  BY DEF HInv, TypeOK, PathInv, KeyboardReport
<1>1. After = Of(ModCode, PREV_MOD) \cup Of(KeyCode, PREV_KEYS)
  BY <1>0, OfNone DEF Reported, After, KeyboardReport
<1>2. /\ Reported' = Of(ModCode, m) \cup Of(KeyCode, k)
      /\ After' = Of(ModCode, m) \cup Of(KeyCode, PREV_KEYS)
  BY OfNone DEF Reported, After, KeyboardReport, NoReport
<1>3. TypeOK'
  <2>1. todo' \subseteq [code : Codes(ModCode), pressed : BOOLEAN]
    BY <1>0, EventType, CodesAssumption DEF KeyboardReport
  <2> QED
    BY <2>1 DEF HInv, TypeOK, KeyboardReport, NoReport, Accepts
<1>4. PathInv'
  BY <1>0 DEF HInv, PathInv, KeyboardReport, NoReport
<1>5. \A ev \in todo' : /\ ev.code \in Codes(ModCode)
                        /\ ev.pressed <=> ev.code \in Of(ModCode, m)
  <2> TAKE ev \in todo'
  <2>1. CASE ev \in On
    <3>1. PICK x \in m \ PREV_MOD : ModCode[x] # NoCode /\ ev.code = ModCode[x] /\ ev.pressed = TRUE
      BY <2>1, EventOf
    <3> QED
      BY <3>1, OfMods
  <2>2. CASE ev \in Off
    <3>1. PICK x \in PREV_MOD \ m : ModCode[x] # NoCode /\ ev.code = ModCode[x] /\ ev.pressed = FALSE
      BY <2>2, EventOf
    <3> QED
      BY <3>1, <1>0, OfMods
  <2> QED
    BY <2>1, <2>2 DEF KeyboardReport
<1>6. \A c \in Accepts : ((c \in down) # (c \in After')) => \E ev \in todo' : ev.code = c
  <2> SUFFICES ASSUME NEW c \in Accepts, (c \in down) # (c \in After')
               PROVE  \E ev \in todo' : ev.code = c
    OBVIOUS
  <2>1. c \in down <=> c \in After
    BY <1>0 DEF HInv, EventsInv
  <2>2. CASE c \in Of(ModCode, m) /\ c \notin Of(ModCode, PREV_MOD)
    <3>1. PICK x \in m \ PREV_MOD : ModCode[x] # NoCode /\ c = ModCode[x]
      BY <2>2 DEF Of
    <3>2. PICK ev \in On : ev.code = ModCode[x]
      BY <3>1, EventFor
    <3> QED
      BY <3>1, <3>2 DEF KeyboardReport
  <2>3. CASE c \notin Of(ModCode, m) /\ c \in Of(ModCode, PREV_MOD)
    <3>1. PICK x \in PREV_MOD \ m : ModCode[x] # NoCode /\ c = ModCode[x]
      BY <2>3 DEF Of
    <3>2. PICK ev \in Off : ev.code = ModCode[x]
      BY <3>1, EventFor
    <3> QED
      BY <3>1, <3>2 DEF KeyboardReport
  <2> QED
    BY <1>1, <1>2, <2>1, <2>2, <2>3
<1>7. EventsInv'
  <2>1. phase' = "mods" /\ down' = down /\ Accepts' = Accepts
    BY DEF KeyboardReport, Accepts
  <2>2. Of(KeyCode, k) \subseteq Codes(KeyCode) /\ Of(KeyCode, PREV_KEYS) \subseteq Codes(KeyCode)
    BY <1>0, OfKeys
  <2> QED
    BY <2>1, <2>2, <1>2, <1>5, <1>6, Apart DEF EventsInv
<1> QED
  BY <1>3, <1>4, <1>7 DEF HInv

LEMMA ReleaseInv ==
    ASSUME HInv, Release PROVE HInv'
<1> DEFINE Off == Events(KeyCode, PREV_KEYS \ report.keys, FALSE)
<1>0. /\ PREV_KEYS \subseteq Usages /\ report.keys \subseteq Usages /\ report.mods \subseteq Mods
      /\ eight /\ report.buttons = {} /\ todo = {} /\ live
      /\ todo' = Off /\ phase = "mods" /\ phase' = "release"
  BY DEF HInv, TypeOK, PathInv, Release
<1>1. /\ After = Of(ModCode, report.mods) \cup Of(KeyCode, PREV_KEYS)
      /\ After' = Of(ModCode, report.mods) \cup Of(KeyCode, PREV_KEYS \cap report.keys)
      /\ Reported' = Of(ModCode, report.mods) \cup Of(KeyCode, report.keys)
  BY <1>0, OfNone DEF Reported, After, Release
<1>2. Of(ModCode, report.mods) \cap Codes(KeyCode) = {}
  BY <1>0, OfMods, Apart
<1>3. TypeOK'
  <2>1. todo' \subseteq [code : Codes(KeyCode), pressed : BOOLEAN]
    BY <1>0, EventType, CodesAssumption
  <2> QED
    BY <2>1 DEF HInv, TypeOK, Release, Accepts
<1>4. PathInv'
  BY <1>0 DEF HInv, PathInv, Release
<1>5. \A ev \in todo' : /\ ev.code \in Codes(KeyCode) /\ ~ev.pressed
                        /\ ev.code \notin After' /\ ev.code \notin Reported'
  <2> TAKE ev \in todo'
  <2>1. PICK x \in PREV_KEYS \ report.keys :
            KeyCode[x] # NoCode /\ ev.code = KeyCode[x] /\ ev.pressed = FALSE
    BY <1>0, EventOf
  <2>2. ev.code \in Codes(KeyCode) /\ ev.code \notin Of(KeyCode, report.keys)
    BY <2>1, <1>0, OfKeys
  <2>3. ev.code \notin Of(KeyCode, PREV_KEYS \cap report.keys)
    BY <2>2 DEF Of
  <2> QED
    BY <2>1, <2>2, <2>3, <1>1, <1>2
<1>6. \A c \in Accepts : ((c \in down) # (c \in After')) => \E ev \in todo' : ev.code = c
  <2> SUFFICES ASSUME NEW c \in Accepts, (c \in down) # (c \in After')
               PROVE  \E ev \in todo' : ev.code = c
    OBVIOUS
  <2>1. c \in down <=> c \in After
    BY <1>0 DEF HInv, EventsInv
  <2>2. PICK x \in PREV_KEYS \ report.keys : KeyCode[x] # NoCode /\ c = KeyCode[x]
    BY <2>1, <1>1 DEF Of
  <2>3. PICK ev \in Off : ev.code = KeyCode[x]
    BY <2>2, EventFor
  <2> QED
    BY <2>2, <2>3, <1>0
<1>7. EventsInv'
  <2>1. down' = down /\ Accepts' = Accepts
    BY DEF Release, Accepts
  <2> QED
    BY <2>1, <1>0, <1>5, <1>6 DEF EventsInv
<1> QED
  BY <1>3, <1>4, <1>7 DEF HInv

LEMMA PressInv ==
    ASSUME HInv, Press PROVE HInv'
<1> DEFINE On == Events(KeyCode, report.keys \ PREV_KEYS, TRUE)
<1>0. /\ PREV_KEYS \subseteq Usages /\ report.keys \subseteq Usages /\ report.mods \subseteq Mods
      /\ eight /\ report.buttons = {} /\ todo = {} /\ live
      /\ todo' = On /\ phase = "release" /\ phase' = "press" /\ down \subseteq Accepts
  BY DEF HInv, TypeOK, PathInv, Press
<1>1. /\ After = Of(ModCode, report.mods) \cup Of(KeyCode, PREV_KEYS \cap report.keys)
      /\ After' = Reported'
      /\ Reported' = Of(ModCode, report.mods) \cup Of(KeyCode, report.keys)
      /\ report' = report
  BY <1>0, OfNone DEF Reported, After, Press
<1>2. down' = down /\ Accepts' = Accepts
  BY DEF Press, Accepts
<1>3. TypeOK'
  <2>1. todo' \subseteq [code : Codes(KeyCode), pressed : BOOLEAN]
    BY <1>0, EventType, CodesAssumption
  <2> QED
    BY <2>1 DEF HInv, TypeOK, Press, Accepts
<1>4. PathInv'
  BY <1>0 DEF HInv, PathInv, Press
<1>5. \A ev \in todo' : ev.pressed /\ ev.code \in Reported'
  <2> TAKE ev \in todo'
  <2>1. PICK x \in report.keys \ PREV_KEYS :
            KeyCode[x] # NoCode /\ ev.code = KeyCode[x] /\ ev.pressed = TRUE
    BY <1>0, EventOf
  <2> QED
    BY <2>1, <1>0, <1>1, OfKeys
<1>6. \A c \in Accepts : c \in down <=> c \in After
  BY <1>0 DEF HInv, EventsInv
<1>7. \A c \in Accepts : ((c \in down) # (c \in After')) => \E ev \in todo' : ev.code = c
  <2> SUFFICES ASSUME NEW c \in Accepts, (c \in down) # (c \in After')
               PROVE  \E ev \in todo' : ev.code = c
    OBVIOUS
  <2>1. PICK x \in report.keys \ PREV_KEYS : KeyCode[x] # NoCode /\ c = KeyCode[x]
    BY <1>1, <1>6 DEF Of
  <2>2. PICK ev \in On : ev.code = KeyCode[x]
    BY <2>1, EventFor
  <2> QED
    BY <2>1, <2>2, <1>0
<1>8. Of(KeyCode, PREV_KEYS \cap report.keys) \subseteq Of(KeyCode, report.keys)
  BY DEF Of
<1>9. EventsInv'
  BY <1>0, <1>1, <1>2, <1>5, <1>6, <1>7, <1>8 DEF EventsInv
<1> QED
  BY <1>3, <1>4, <1>9 DEF HInv

LEMMA DoneInv ==
    ASSUME HInv, KeyboardDone \/ MouseDone PROVE HInv'
<1>1. /\ report.buttons \subseteq Buttons /\ report.mods \subseteq Mods /\ report.keys \subseteq Usages
      /\ todo = {} /\ todo' = {} /\ live /\ phase' = "idle" /\ report' = report
      /\ phase \in {"press", "buttons"} /\ down' = down /\ Accepts' = Accepts /\ live' = live
  BY DEF HInv, TypeOK, PathInv, KeyboardDone, MouseDone, Accepts
<1>2. TypeOK'
  BY <1>1 DEF HInv, TypeOK, KeyboardDone, MouseDone
<1>3. PathInv'
  BY <1>1 DEF HInv, PathInv, KeyboardDone, MouseDone
<1>4. After' = Reported' /\ After = Reported /\ Reported' = Reported
  BY <1>1 DEF After, Reported
<1>5. EventsInv'
  BY <1>1, <1>4 DEF HInv, EventsInv
<1> QED
  BY <1>2, <1>3, <1>5 DEF HInv

LEMMA EmitInv ==
    ASSUME HInv, Emit PROVE HInv'
<1>1. PICK ev \in todo :
         /\ todo' = todo \ {ev}
         /\ down' = IF ev.code \notin Accepts THEN down
                    ELSE IF ev.pressed THEN down \cup {ev.code} ELSE down \ {ev.code}
  BY DEF Emit
<1>2. /\ profile' = profile /\ eight' = eight /\ live' = live /\ phase' = phase /\ report' = report
      /\ PREV' = PREV /\ PREV_MOD' = PREV_MOD /\ PREV_KEYS' = PREV_KEYS
  BY DEF Emit
<1>3. After' = After /\ Reported' = Reported /\ Accepts' = Accepts
  BY <1>2 DEF After, Reported, Accepts
<1>4. phase # "idle" /\ live
  BY <1>1 DEF HInv, PathInv
<1>5. TypeOK'
  BY <1>1, <1>2, <1>3 DEF HInv, TypeOK
<1>6. PathInv'
  BY <1>1, <1>2, <1>4 DEF HInv, PathInv
<1>7. EventsInv'
  <2>1. \A c \in Accepts : ((c \in down') # (c \in After)) => \E e \in todo' : e.code = c
    <3> SUFFICES ASSUME NEW c \in Accepts, (c \in down') # (c \in After)
                 PROVE  \E e \in todo' : e.code = c
      OBVIOUS
    <3>1. c # ev.code
      BY <1>1 DEF HInv, EventsInv
    <3>2. (c \in down) # (c \in After)
      BY <3>1, <1>1
    <3>3. PICK e \in todo : e.code = c
      BY <3>2, <1>4 DEF HInv, EventsInv
    <3> QED
      BY <3>1, <3>3, <1>1
  <2>2. phase = "press" => down' \subseteq Reported
    BY <1>1 DEF HInv, EventsInv
  <2>3. phase = "press" => Of(ModCode, report.mods) \cap Accepts \subseteq down'
    <3>1. phase = "press" => Of(ModCode, report.mods) \subseteq Reported
      BY DEF Reported
    <3> QED
      BY <3>1, <1>1 DEF HInv, EventsInv
  <2> QED
    BY <2>1, <2>2, <2>3, <1>1, <1>2, <1>3 DEF HInv, EventsInv
<1> QED
  BY <1>5, <1>6, <1>7 DEF HInv

LEMMA DropInv ==
    ASSUME HInv, Drop PROVE HInv'
<1>1. TypeOK'
  BY DEF HInv, TypeOK, Drop
<1>2. PathInv'
  BY DEF HInv, PathInv, Drop
<1>3. EventsInv'
  BY DEF EventsInv, Drop
<1> QED
  BY <1>1, <1>2, <1>3 DEF HInv

LEMMA NextInv == HInv /\ [Next]_vars => HInv'
<1> SUFFICES ASSUME HInv, [Next]_vars PROVE HInv'
  OBVIOUS
<1>1. ASSUME NEW b \in SUBSET Buttons, MouseReport(b) PROVE HInv'
  BY <1>1, MouseReportInv
<1>2. ASSUME NEW m \in SUBSET Mods, NEW k \in SUBSET Usages, KeyboardReport(m, k) PROVE HInv'
  BY <1>2, KeyboardReportInv
<1>3. CASE Release
  BY <1>3, ReleaseInv
<1>4. CASE Press
  BY <1>4, PressInv
<1>5. CASE KeyboardDone \/ MouseDone
  BY <1>5, DoneInv
<1>6. CASE Emit
  BY <1>6, EmitInv
<1>7. CASE Drop
  BY <1>7, DropInv
<1>8. CASE UNCHANGED vars
  BY <1>8 DEF HInv, TypeOK, PathInv, EventsInv, After, Reported, Accepts, vars
<1> QED
  BY <1>1, <1>2, <1>3, <1>4, <1>5, <1>6, <1>7, <1>8 DEF Next

LEMMA Invariance == Spec => []HInv
  BY InitInv, NextInv, PTL DEF Spec

-----------------------------------------------------------------------------
(* Every variable keeps its type, for any key map. *)
THEOREM TypeCorrect == Spec => []TypeOK
<1>1. HInv => TypeOK
  BY DEF HInv
<1> QED
  BY <1>1, Invariance, PTL

(* apply_report: between reports exactly the keys of the latest report are  *)
(* down, for any number of keys and any sequence of reports.                *)
THEOREM HeldExact == Spec => []HeldAsReported
<1>1. HInv => HeldAsReported
  <2> SUFFICES ASSUME HInv, live, phase = "idle" PROVE down = Reported \cap Accepts
    BY DEF HeldAsReported
  <2>1. todo = {} /\ down \subseteq Accepts /\ After = Reported
    BY DEF HInv, TypeOK, PathInv, After
  <2>2. \A c \in Accepts : c \in down <=> c \in Reported
    BY <2>1 DEF HInv, EventsInv
  <2> QED
    BY <2>1, <2>2
<1> QED
  BY <1>1, Invariance, PTL

(* Only an event and the end of the device move keys. *)
LEMMA OnlyEmitMoves == Next => Emit \/ Drop \/ down' = down
<1> SUFFICES ASSUME Next PROVE Emit \/ Drop \/ down' = down
  OBVIOUS
<1>1. ASSUME NEW b \in SUBSET Buttons, MouseReport(b) PROVE down' = down
  BY <1>1 DEF MouseReport
<1>2. ASSUME NEW m \in SUBSET Mods, NEW k \in SUBSET Usages, KeyboardReport(m, k) PROVE down' = down
  BY <1>2 DEF KeyboardReport
<1>3. CASE Release \/ Press \/ KeyboardDone \/ MouseDone
  BY <1>3 DEF Release, Press, KeyboardDone, MouseDone
<1> QED
  BY <1>1, <1>2, <1>3 DEF Next

(* apply_keyboard_report: a key goes down together with the modifiers of    *)
(* its own report and nothing of an earlier one.                            *)
THEOREM ChordsClean == Spec => CleanChords
<1>1. HInv /\ HInv' /\ [Next]_vars =>
        [(down' \ down) \cap Codes(KeyCode) # {} =>
            /\ down' \subseteq Reported
            /\ Of(ModCode, report.mods) \subseteq down']_vars
  <2> SUFFICES ASSUME HInv, HInv', Next, (down' \ down) \cap Codes(KeyCode) # {}
               PROVE  down' \subseteq Reported /\ Of(ModCode, report.mods) \subseteq down'
    BY DEF vars
  <2>1. Emit
    BY OnlyEmitMoves DEF Drop
  <2>2. PICK ev \in todo :
          down' = IF ev.code \notin Accepts THEN down
                  ELSE IF ev.pressed THEN down \cup {ev.code} ELSE down \ {ev.code}
    BY <2>1 DEF Emit
  <2>3. ev.code \in Codes(KeyCode) /\ ev.code \in Accepts /\ ev.pressed
    BY <2>2
  <2>4. phase = "press" /\ phase' = "press" /\ report' = report /\ Accepts' = Accepts
    BY <2>1, <2>3 DEF HInv, EventsInv, Emit, Accepts
  <2>5. Reported' = Reported
    BY <2>4 DEF Reported
  <2>6. Of(ModCode, report.mods) \subseteq Accepts
    <3>1. Codes(ModCode) \subseteq Accepts
      BY <2>3, CodesAssumption DEF Accepts
    <3> QED
      BY <3>1, OfMods DEF HInv, TypeOK
  <2> QED
    BY <2>4, <2>5, <2>6 DEF HInv, EventsInv
<1> QED
  BY <1>1, Invariance, PTL DEF Spec, CleanChords

(* apply_report: a code held over two reports is not lifted in between.     *)
THEOREM NeverFlickers == Spec => NoFlicker
<1>1. HInv /\ [Next]_vars => [live' => (down \ down') \cap Reported = {}]_vars
  <2> SUFFICES ASSUME HInv, Next, live' PROVE (down \ down') \cap Reported = {}
    BY DEF vars
  <2>1. CASE Emit
    <3>1. PICK ev \in todo :
            down' = IF ev.code \notin Accepts THEN down
                    ELSE IF ev.pressed THEN down \cup {ev.code} ELSE down \ {ev.code}
      BY <2>1 DEF Emit
    <3> QED
      BY <3>1 DEF HInv, EventsInv
  <2>2. CASE ~Emit
    BY <2>2, OnlyEmitMoves DEF Drop
  <2> QED
    BY <2>1, <2>2
<1> QED
  BY <1>1, Invariance, PTL DEF Spec, NoFlicker
=============================================================================
