------------------------------ MODULE KeyCodes ------------------------------
(***************************************************************************)
(* What stands for a key on its way in and out: the HID usages a keyboard  *)
(* on the converting machine reports and its output device is sent, the    *)
(* make codes a hook on the forwarding machine is given, and the number a  *)
(* key crosses the link under.                                             *)
(***************************************************************************)
EXTENDS Integers, Sequences, FiniteSets, SequencesExt, Functions

Letters == <<"A", "B", "C", "D", "E", "F", "G", "H", "I", "J", "K", "L", "M",
             "N", "O", "P", "Q", "R", "S", "T", "U", "V", "W", "X", "Y", "Z">>
Digits == <<"Digit1", "Digit2", "Digit3", "Digit4", "Digit5",
            "Digit6", "Digit7", "Digit8", "Digit9", "Digit0">>
FunctionRow == <<"F1", "F2", "F3", "F4", "F5", "F6", "F7", "F8", "F9", "F10", "F11", "F12">>

(* Key::ALL: the place in it is what a trace and the link write.           *)
All == Letters \o Digits \o
  <<"Hyphen", "EqualSign", "OpenBracket", "CloseBracket", "Backslash", "NonUsPound",
    "Semicolon", "Quote", "Grave", "Comma", "Period", "Slash",
    "Tab", "CapsLock", "Spacebar", "Escape", "ReturnOrEnter", "DeleteOrBackspace",
    "DeleteForward", "LeftArrow", "RightArrow", "UpArrow", "DownArrow", "Home", "End",
    "LeftShift", "RightShift", "LeftControl", "RightControl", "LeftOption", "RightOption",
    "LeftCommand", "RightCommand", "Fn", "JapaneseEisuu", "JapaneseKana", "JapanesePcNfer",
    "JapanesePcXfer", "JapanesePcKatakana", "International1", "International3">>
  \o FunctionRow \o
  <<"BrightnessDown", "BrightnessUp", "MissionControl", "Spotlight", "Dictation",
    "DoNotDisturb", "Rewind", "PlayPause", "FastForward", "Mute", "VolumeDown", "VolumeUp">>
Keys == ToSet(All)
NoKey == "none"

(* Zero is no key, so that a zeroed byte is none.                          *)
Code(key) == IF key \in Keys THEN (CHOOSE i \in DOMAIN All : All[i] = key) ELSE 0
FromCode(code) == IF code \in DOMAIN All THEN All[code] ELSE NoKey

(* A run of keys at consecutive numbers, read and written.                 *)
At(first, keys) == [n \in first..first + Len(keys) - 1 |-> keys[n - first + 1]]
Numbers(first, keys) == [k \in ToSet(keys) |-> first + (CHOOSE i \in DOMAIN keys : keys[i] = k) - 1]
Or(f, n, otherwise) == IF n \in DOMAIN f THEN f[n] ELSE otherwise

-----------------------------------------------------------------------------
(* HID usages.  Twelve controls are on pages of their own.                 *)
KEYBOARD_OR_KEYPAD == 7
CONSUMER == 12
GENERIC_DESKTOP == 1
APPLE_VENDOR_TOP_CASE == 255
APPLE_VENDOR_KEYBOARD == 65281
KEYBOARD_FN == 3

CONTROLS ==
  {<<"BrightnessDown", CONSUMER, 112>>, <<"BrightnessUp", CONSUMER, 111>>,
   <<"Dictation", CONSUMER, 207>>, <<"Rewind", CONSUMER, 180>>,
   <<"PlayPause", CONSUMER, 205>>, <<"FastForward", CONSUMER, 179>>,
   <<"Mute", CONSUMER, 226>>, <<"VolumeDown", CONSUMER, 234>>,
   <<"VolumeUp", CONSUMER, 233>>, <<"MissionControl", APPLE_VENDOR_KEYBOARD, 16>>,
   <<"Spotlight", APPLE_VENDOR_KEYBOARD, 1>>, <<"DoNotDisturb", GENERIC_DESKTOP, 155>>}

(* Page 7 in its runs of consecutive usages.  The two keys a JIS keyboard  *)
(* has for its input modes are sent and never read.                        *)
Middle == <<"ReturnOrEnter", "Escape", "DeleteOrBackspace", "Tab", "Spacebar",
            "Hyphen", "EqualSign", "OpenBracket", "CloseBracket", "Backslash", "NonUsPound",
            "Semicolon", "Quote", "Grave", "Comma", "Period", "Slash", "CapsLock">>
Arrows == <<"RightArrow", "LeftArrow", "DownArrow", "UpArrow">>
Japanese == <<"International1", "JapanesePcKatakana", "International3",
              "JapanesePcXfer", "JapanesePcNfer">>
ModifierKeys == <<"LeftControl", "LeftShift", "LeftOption", "LeftCommand",
                  "RightControl", "RightShift", "RightOption", "RightCommand">>
KeyAt ==
  At(4, Letters) @@ At(30, Digits) @@ At(40, Middle) @@ At(58, FunctionRow)
  @@ At(74, <<"Home">>) @@ At(76, <<"DeleteForward", "End">>) @@ At(79, Arrows)
  @@ At(135, Japanese) @@ At(224, ModifierKeys)
OnPageSeven ==
  Numbers(4, Letters) @@ Numbers(30, Digits) @@ Numbers(40, Middle) @@ Numbers(58, FunctionRow)
  @@ Numbers(74, <<"Home">>) @@ Numbers(76, <<"DeleteForward", "End">>) @@ Numbers(79, Arrows)
  @@ Numbers(135, Japanese) @@ Numbers(144, <<"JapaneseKana", "JapaneseEisuu">>)
  @@ Numbers(224, ModifierKeys)

Named(page, usage) ==
  LET controls == {c \in CONTROLS : c[2] = page /\ c[3] = usage}
  IN CASE page = KEYBOARD_OR_KEYPAD -> Or(KeyAt, usage, NoKey)
       [] page = APPLE_VENDOR_TOP_CASE /\ usage = KEYBOARD_FN -> "Fn"
       [] controls # {} -> (CHOOSE c \in controls : TRUE)[1]
       [] OTHER -> NoKey

NoUsage == <<0, 0>>
Of(key) ==
  LET controls == {c \in CONTROLS : c[1] = key}
  IN CASE controls # {} -> LET c == CHOOSE c \in controls : TRUE IN <<c[2], c[3]>>
       [] key \in DOMAIN OnPageSeven -> <<KEYBOARD_OR_KEYPAD, OnPageSeven[key]>>
       [] OTHER -> NoUsage

(* What is a pointer's, which is asked before any table of keys is.  The   *)
(* page of its axes has keys as well.                                      *)
BUTTON == 9
PointerAxisUsages == {48, 49, 56}
Pointer(page, usage) == page = BUTTON \/ (page = GENERIC_DESKTOP /\ usage \in PointerAxisUsages)

-----------------------------------------------------------------------------
(* Make codes of a Windows keyboard, with and without the prefix.          *)
Plain(ansi) ==
  At(1, <<"Escape">>) @@ At(2, Digits)
  @@ At(12, <<"Hyphen", "EqualSign", "DeleteOrBackspace", "Tab",
              "Q", "W", "E", "R", "T", "Y", "U", "I", "O", "P",
              "OpenBracket", "CloseBracket", "ReturnOrEnter", "LeftControl",
              "A", "S", "D", "F", "G", "H", "J", "K", "L", "Semicolon", "Quote", "Grave",
              "LeftShift", IF ansi THEN "Backslash" ELSE "NonUsPound",
              "Z", "X", "C", "V", "B", "N", "M", "Comma", "Period", "Slash", "RightShift">>)
  @@ At(56, <<"LeftOption", "Spacebar", "CapsLock">>)
  @@ At(112, <<"JapanesePcKatakana">>) @@ At(115, <<"International1">>)
  @@ At(121, <<"JapanesePcXfer">>) @@ At(123, <<"JapanesePcNfer">>)
  @@ At(125, <<"International3">>)
Extended ==
  At(29, <<"RightControl">>) @@ At(56, <<"RightOption">>)
  @@ At(91, <<"LeftCommand", "RightCommand">>)
  @@ At(71, <<"Home", "UpArrow">>) @@ At(75, <<"LeftArrow">>) @@ At(77, <<"RightArrow">>)
  @@ At(79, <<"End", "DownArrow">>) @@ At(83, <<"DeleteForward">>)
AtPosition(extended, code, ansi) ==
  Or(IF extended THEN Extended ELSE Plain(ansi), code, NoKey)

(* The position a key is at, searched for.                                 *)
NoPosition == [code |-> 0, extended |-> FALSE]
Positions == {p \in [code : 0..255, extended : BOOLEAN] : AtPosition(p.extended, p.code, FALSE) # NoKey}
PositionOf(key) ==
  LET found == {p \in Positions : AtPosition(p.extended, p.code, FALSE) = key}
  IN IF found = {} THEN NoPosition ELSE CHOOSE p \in found : TRUE

(* A hook's report: the extended bit of right shift is no prefix, and there *)
(* is none of the prefix the pause key has.                                *)
VK_RSHIFT == 161
VK_FILLER == 255
TakesEveryPrefix(extended, vkey) == extended   \* mutant
FromAHook(extended, vkey) == extended /\ vkey # VK_RSHIFT
NotAKey(make_code, vkey) == make_code = 0 \/ vkey = VK_FILLER
AsAHookReports(key) ==
  [PositionOf(key) EXCEPT !.extended = @ \/ key = "RightShift"]
VirtualKeyOf(key) == IF key = "RightShift" THEN VK_RSHIFT ELSE 0

(* What the forwarding machine makes of a report, and the link of a key.   *)
Resolved(report, vkey, ansi) ==
  IF NotAKey(report.code, vkey) THEN NoKey
  ELSE AtPosition(FromAHook(report.extended, vkey), report.code, ansi)
Carried(key) == FromCode(Code(key) % 256)

(* What the procedure keeps in numbers: where the chord's two keys are, in *)
(* a word whose value for nowhere no position has; a bit, in one of eight  *)
(* words of them, for each key this machine was let see go down, and none  *)
(* past the range; and the message a stroke is handed over in.             *)
NO_POSITION == -1
Bit(flag) == IF flag THEN 1 ELSE 0
Packed(at) ==
  IF at = {} THEN NO_POSITION
  ELSE LET p == CHOOSE p \in at : TRUE IN p.code + 65536 * Bit(p.extended)
Unpacked(number) ==
  IF number = NO_POSITION THEN {}
  ELSE {[code |-> number % 65536, extended |-> (number \div 65536) % 2 = 1]}

HELD_HERE_BITS == 512
ByteAlone(p) == p.code   \* mutant: one bit for both halves of the keyboard
HeldBit(p) == p.code + 256 * Bit(p.extended)
HeldWord(bit) == [word |-> bit \div 64, bit |-> bit % 64]

HandedOver(p, vkey) == [word |-> (p.code % 65536) + 65536 * vkey, extended |-> p.extended]
Said(message) ==
  [make_code |-> message.word % 65536, vkey |-> message.word \div 65536,
   extended |-> message.extended]

ScanCode == [code : 0..255, extended : BOOLEAN]
(* No two positions are taken for one another, wherever they are kept, and *)
(* no key for a part of a pointer.                                         *)
HooksKeepApart ==
  /\ \A key \in Keys : ~Pointer(Of(key)[1], Of(key)[2])
  /\ \A at \in {{p} : p \in ScanCode} \cup {{}} : Unpacked(Packed(at)) = at
  /\ Cardinality({HeldWord(HeldBit(p)) : p \in ScanCode}) = Cardinality(ScanCode)
  /\ \A p \in ScanCode : HeldBit(p) < HELD_HERE_BITS /\ HeldWord(HeldBit(p)).word \in 0..7
  /\ \A p \in ScanCode, vkey \in {0, VK_RSHIFT, VK_FILLER} :
       Said(HandedOver(p, vkey)) = [make_code |-> p.code, vkey |-> vkey, extended |-> p.extended]
=============================================================================
