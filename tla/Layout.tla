------------------------------- MODULE Layout -------------------------------
(***************************************************************************)
(* Dudrack, the one layout there is: the rules in the order they are       *)
(* tried, the keyboards they are read against, and what one press comes    *)
(* to.  What is on the keys, and what an input source set to US makes of a *)
(* key, are outside the program and are what it is judged by.              *)
(***************************************************************************)
EXTENDS KeyCodes, FiniteSets

Modifier == {"SHIFT", "CONTROL", "OPTION", "COMMAND", "CAPS_LOCK"}

-----------------------------------------------------------------------------
(* Keyboards, as each machine describes one to the run that reads it.      *)
NoId == 0
FromHidProperties(fifo, internal, vendor, product) ==
  [here |-> TRUE, is_built_in |-> fifo \/ internal, vendor_id |-> vendor, product_id |-> product]
FromAPath(vendor, product) ==
  [here |-> FALSE, is_built_in |-> FALSE,
   vendor_id |-> IF product = NoId THEN NoId ELSE vendor,
   product_id |-> IF vendor = NoId THEN NoId ELSE product]

Lenovo == 6127
TrackPointKeyboardII == 24801
MacBook == FromHidProperties(TRUE, TRUE, NoId, NoId)
TrackPoint == FromHidProperties(FALSE, FALSE, Lenovo, TrackPointKeyboardII)
PcKeyboard == FromHidProperties(FALSE, FALSE, Lenovo, TrackPointKeyboardII + 1)
(* A hook says which key and not which keyboard.                           *)
AtTheSource == FromAPath(NoId, NoId)
Keyboard == {MacBook, TrackPoint, PcKeyboard, AtTheSource}

DudrackExternals == {<<Lenovo, TrackPointKeyboardII>>}
IsDudrackExternal(info) == <<info.vendor_id, info.product_id>> \in DudrackExternals
InScope(scope, info) ==
  CASE scope = "Any" -> TRUE
    [] scope = "BuiltIn" -> info.is_built_in
    [] scope = "Dudrack" -> info.is_built_in \/ IsDudrackExternal(info)
    [] scope = "DudrackExternal" -> ~info.is_built_in /\ IsDudrackExternal(info)
    [] scope = "RawJis" -> ~info.is_built_in /\ ~IsDudrackExternal(info)
    [] scope = "Forwarded" -> ~info.here

-----------------------------------------------------------------------------
(* Rules.  What a rule requires it consumes; what it tolerates stays.      *)
FromMods(mandatory, optional) == [mandatory |-> mandatory, optional |-> optional]
ANY == FromMods({}, Modifier)
Tolerating(optional) == FromMods({}, optional)
Accepts(mods, held) == mods.mandatory \subseteq held /\ held \ mods.mandatory \subseteq mods.optional

Emits(key, modifiers) == [kind |-> "Emit", key |-> key, modifiers |-> modifiers]
Swallow == [kind |-> "Swallow"]
HoldHenkan == [kind |-> "HoldHenkan"]
TapHold(hold, tap) == [kind |-> "TapHold", hold |-> hold, tap |-> tap]
Rule(scope, layer, from, mods, action) ==
  [scope |-> scope, layer |-> layer, from |-> from, mods |-> mods, action |-> action]

ToModifier(scope, from, to) == Rule(scope, "Any", from, ANY, Emits(to, {}))
ModifierRemaps == <<
  ToModifier("Dudrack", "CapsLock", "LeftControl"),
  ToModifier("Dudrack", "Tab", "LeftCommand"),
  ToModifier("BuiltIn", "LeftCommand", "LeftOption"),
  ToModifier("BuiltIn", "LeftOption", "LeftCommand"),
  ToModifier("BuiltIn", "Fn", "RightCommand"),
  Rule("BuiltIn", "Any", "Spacebar", ANY, TapHold("LeftShift", "Spacebar")),
  Rule("BuiltIn", "Any", "RightCommand", ANY, HoldHenkan),
  Rule("DudrackExternal", "Any", "JapanesePcXfer", ANY, HoldHenkan),
  ToModifier("DudrackExternal", "JapanesePcNfer", "LeftShift"),
  ToModifier("DudrackExternal", "JapanesePcKatakana", "LeftCommand"),
  Rule("DudrackExternal", "Any", "RightOption", ANY, Swallow)>>

Icons == <<"BrightnessDown", "BrightnessUp", "MissionControl", "Spotlight", "Dictation",
           "DoNotDisturb", "Rewind", "PlayPause", "FastForward", "Mute", "VolumeDown",
           "VolumeUp">>
FunctionRowRules ==
  [i \in 1..12 |-> Rule("BuiltIn", "Any", FunctionRow[i], ANY, Emits(Icons[i], {}))]

CapsAlone == FromMods({"COMMAND"}, {"CAPS_LOCK"})   \* mutant: option has to be up
HIDE_GUARD == FromMods({"COMMAND"}, {"CAPS_LOCK", "OPTION"})
Guards == <<
  Rule("Dudrack", "Neutral", "J", HIDE_GUARD, Swallow),
  Rule("RawJis", "Any", "H", HIDE_GUARD, Swallow),
  Rule("BuiltIn", "Henkan", "H", FromMods({"OPTION"}, {"CAPS_LOCK", "SHIFT"}), Swallow)>>

(* A table's entries: a key alone, or under a shift that is part of it.    *)
S == {"SHIFT"}
Entry(from, shifted, key, modifiers) ==
  [from |-> from, shifted |-> shifted, to |-> Emits(key, modifiers)]
E(from, key) == Entry(from, FALSE, key, {})
Es(from, key) == Entry(from, FALSE, key, S)
SE(from, key) == Entry(from, TRUE, key, {})
SEs(from, key) == Entry(from, TRUE, key, S)
Expand(scope, layer, shifted, unshifted, entries) ==
  [i \in DOMAIN entries |->
     Rule(scope, layer, entries[i].from, IF entries[i].shifted THEN shifted ELSE unshifted,
          entries[i].to)]

HENKAN == <<
  E("Q", "Digit1"), SEs("W", "Quote"), E("W", "Digit2"), E("E", "Digit3"), E("R", "Digit4"),
  E("T", "Digit5"), SEs("Y", "Digit7"), E("Y", "Digit6"), SE("U", "Quote"), E("U", "Digit7"),
  SEs("I", "Digit9"), E("I", "Digit8"), SEs("O", "Digit0"), E("O", "Digit9"),
  SE("P", "Digit0"), E("P", "Digit0"),
  E("A", "Tab"), E("S", "Escape"), E("D", "ReturnOrEnter"), E("F", "DeleteOrBackspace"),
  E("G", "DeleteForward"), SE("H", "Grave"), Es("H", "Digit2"), SEs("J", "Hyphen"),
  E("J", "Backslash"), E("K", "OpenBracket"), E("L", "CloseBracket"),
  SEs("Semicolon", "Backslash"), E("Semicolon", "Backslash"),
  E("Z", "LeftArrow"), E("X", "DownArrow"), E("C", "UpArrow"), E("V", "RightArrow"),
  E("B", "X"), E("N", "JapaneseKana"), E("M", "JapaneseEisuu"),
  Entry("Comma", FALSE, "LeftArrow", {"COMMAND"}),
  Entry("Period", FALSE, "RightArrow", {"COMMAND"}),
  SEs("Slash", "Grave"), Es("Slash", "Digit6")>>

NEUTRAL == <<
  SEs("Q", "Digit8"), Es("Q", "Semicolon"), E("W", "Comma"), E("E", "Period"), E("R", "P"),
  E("T", "Y"), E("Y", "F"), E("U", "G"), E("I", "C"), E("O", "R"), E("P", "L"),
  E("OpenBracket", "Slash"),
  E("A", "A"), E("S", "O"), E("D", "E"), E("F", "U"), E("G", "I"), E("H", "D"), E("J", "H"),
  E("K", "T"), E("L", "N"), E("Semicolon", "S"), SE("Quote", "EqualSign"), E("Quote", "Hyphen"),
  SEs("Z", "EqualSign"), E("Z", "Semicolon"), E("X", "Q"), E("C", "J"), E("V", "K"),
  E("B", "X"), E("N", "B"), E("M", "M"), E("Comma", "W"), E("Period", "V"), E("Slash", "Z")>>

Thumbs == <<
  ToModifier("RawJis", "JapanesePcNfer", "JapaneseEisuu"),
  ToModifier("RawJis", "JapanesePcXfer", "JapaneseKana"),
  ToModifier("RawJis", "Grave", "JapaneseKana"),
  ToModifier("Forwarded", "RightControl", "LeftCommand")>>

RAW_JIS == <<
  SEs("Digit2", "Quote"), SEs("Digit6", "Digit7"), SE("Digit7", "Quote"),
  SEs("Digit8", "Digit9"), SEs("Digit9", "Digit0"),
  SE("Hyphen", "EqualSign"), SEs("EqualSign", "Grave"), Es("EqualSign", "Digit6"),
  SE("OpenBracket", "Grave"), Es("OpenBracket", "Digit2"),
  SEs("CloseBracket", "OpenBracket"), E("CloseBracket", "OpenBracket"),
  SEs("NonUsPound", "CloseBracket"), E("NonUsPound", "CloseBracket"),
  SEs("Backslash", "CloseBracket"), E("Backslash", "CloseBracket"),
  SEs("Semicolon", "EqualSign"), SEs("Quote", "Digit8"), Es("Quote", "Semicolon"),
  SEs("International1", "Hyphen"), E("International1", "Backslash"),
  SEs("International3", "Backslash"), E("International3", "Backslash")>>

HomeAndEnd == <<
  Rule("Any", "Any", "Home", ANY, Emits("LeftArrow", {"COMMAND"})),
  Rule("Any", "Any", "End", ANY, Emits("RightArrow", {"COMMAND"}))>>

ShiftAndCapsOnly == {"CAPS_LOCK", "COMMAND", "CONTROL"}   \* mutant: option loses the label
Tolerated == {"CAPS_LOCK", "COMMAND", "CONTROL", "OPTION"}
LayersBeforeGuards ==   \* mutant: the guards come after what they guard
  ModifierRemaps \o FunctionRowRules
  \o Expand("Dudrack", "Henkan", FromMods(S, Tolerated), ANY, HENKAN)
  \o Expand("Dudrack", "Any", FromMods(S, Modifier), ANY, NEUTRAL)
  \o Guards \o Thumbs
  \o Expand("RawJis", "Any", FromMods(S, Tolerated), Tolerating(Tolerated), RAW_JIS)
  \o HomeAndEnd
Rules ==
  ModifierRemaps \o FunctionRowRules \o Guards
  \o Expand("Dudrack", "Henkan", FromMods(S, Tolerated), ANY, HENKAN)
  \o Expand("Dudrack", "Any", FromMods(S, Modifier), ANY, NEUTRAL)
  \o Thumbs
  \o Expand("RawJis", "Any", FromMods(S, Tolerated), Tolerating(Tolerated), RAW_JIS)
  \o HomeAndEnd

(* The first rule that a press matches, and the press itself where none    *)
(* does.                                                                   *)
Matches(rule, info, key, held, henkan) ==
  /\ rule.from = key
  /\ rule.layer = "Any" \/ rule.layer = (IF henkan THEN "Henkan" ELSE "Neutral")
  /\ InScope(rule.scope, info)
  /\ Accepts(rule.mods, held)
First(info, key, held, henkan) ==
  SelectInSeq(Rules, LAMBDA rule : Matches(rule, info, key, held, henkan))
Resolve(info, key, held, henkan) ==
  LET at == First(info, key, held, henkan)
      action == IF at = 0 THEN Emits(key, {}) ELSE Rules[at].action
  IN IF action.kind = "Emit"
     THEN [kind |-> "Emit", key |-> action.key, added |-> action.modifiers,
           consumed |-> IF at = 0 THEN {} ELSE Rules[at].mods.mandatory]
     ELSE action

-----------------------------------------------------------------------------
(* What is outside: the characters an input source set to US gives a usage *)
(* of page 7, bare and under shift, and the characters printed on a JIS    *)
(* keyboard, at the make code and the usage of the key they are printed on. *)
Capitals == Letters
Smalls == <<"a", "b", "c", "d", "e", "f", "g", "h", "i", "j", "k", "l", "m",
            "n", "o", "p", "q", "r", "s", "t", "u", "v", "w", "x", "y", "z">>
Bare == At(4, Smalls) @@ At(30, <<"1", "2", "3", "4", "5", "6", "7", "8", "9", "0">>)
        @@ At(44, <<" ", "-", "=", "[", "]", "\\">>) @@ At(51, <<";", "'", "backtick", ",", ".", "/">>)
Shifted == At(4, Capitals) @@ At(30, <<"!", "@", "#", "$", "%", "^", "&", "*", "(", ")">>)
           @@ At(44, <<" ", "_", "+", "{", "}", "|">>)
           @@ At(51, <<":", "\"", "~", "<", ">", "?">>)
Silent == "nothing"
Typed(usage, mods) ==
  IF usage[1] # KEYBOARD_OR_KEYPAD THEN Silent
  ELSE Or(IF "SHIFT" \in mods THEN Shifted ELSE Bare, usage[2], Silent)

(* A row of keys: its first make code, its usages, its two lines of print. *)
Row(first, usages, bare, shifted) ==
  {[code |-> first + i - 1, usage |-> usages[i], bare |-> bare[i], shifted |-> shifted[i]]
     : i \in DOMAIN usages}
LetterRow(first, letters) ==
  LET usages == [i \in DOMAIN letters |-> OnPageSeven[letters[i]]]
  IN Row(first, usages, [i \in DOMAIN letters |-> Bare[usages[i]]], letters)
Printed ==
  Row(2, <<30, 31, 32, 33, 34, 35, 36, 37, 38, 39, 45, 46>>,
      <<"1", "2", "3", "4", "5", "6", "7", "8", "9", "0", "-", "^">>,
      <<"!", "\"", "#", "$", "%", "&", "'", "(", ")", Silent, "=", "~">>)
  \cup LetterRow(16, <<"Q", "W", "E", "R", "T", "Y", "U", "I", "O", "P">>)
  \cup Row(26, <<47, 48>>, <<"@", "[">>, <<"backtick", "{">>)
  \cup LetterRow(30, <<"A", "S", "D", "F", "G", "H", "J", "K", "L">>)
  \cup Row(39, <<51, 52>>, <<";", ":">>, <<"+", "*">>)
  \cup {[code |-> 43, usage |-> u, bare |-> "]", shifted |-> "}"] : u \in {49, 50}}
  \cup LetterRow(44, <<"Z", "X", "C", "V", "B", "N", "M">>)
  \cup Row(51, <<54, 55, 56>>, <<",", ".", "/">>, <<"<", ">", "?">>)
  \cup {[code |-> 115, usage |-> 135, bare |-> "\\", shifted |-> "_"],
        [code |-> 125, usage |-> 137, bare |-> "\\", shifted |-> "|"]}

-----------------------------------------------------------------------------
(* A press, from what the machine it is made at is told to what the OS of  *)
(* the machine it types into is told.                                      *)
Pressed(info, label) ==
  IF info.here THEN Named(KEYBOARD_OR_KEYPAD, label.usage)
  ELSE Carried(Resolved([code |-> label.code, extended |-> FALSE], 0, FALSE))
Under(press, held) == (held \ press.consumed) \cup press.added
Types(info, key, held, henkan) ==
  LET press == Resolve(info, key, held, henkan)
  IN IF press.kind # "Emit" THEN Silent ELSE Typed(Of(press.key), Under(press, held))
Commanding(info, key, held, henkan) ==
  LET press == Resolve(info, key, held, henkan)
  IN IF press.kind # "Emit" THEN {} ELSE {<<press.key, Under(press, held) \ {"CAPS_LOCK"}>>}

(* A keyboard that is no Dudrack one types what is printed on it, whichever *)
(* machine it is plugged into and whichever modifiers go with the key: and *)
(* those stay with what it types, so that a shortcut is the label's too.   *)
(* Only the shortcut that hides a window is kept from it.  Whatever key a  *)
(* hook reports at a position, it is that key that comes across.           *)
Hides(label, held) ==
  label.bare = "h" /\ "COMMAND" \in held /\ held \subseteq {"COMMAND", "OPTION", "CAPS_LOCK"}
TypesItsLabels ==
  LET carried ==
        \A key \in Keys : PositionOf(key) # NoPosition =>
          Carried(Resolved(AsAHookReports(key), VirtualKeyOf(key), FALSE)) = key
      labelled(info, label, held) ==
        LET key == Pressed(info, label)
            print == IF "SHIFT" \in held THEN label.shifted ELSE label.bare
            press == Resolve(info, key, held, FALSE)
        IN print # Silent =>
             IF Hides(label, held) THEN press.kind = "Swallow"
             ELSE /\ Types(info, key, held, FALSE) = print
                  /\ Under(press, held) \ S = held \ S
      printed == \A info \in {PcKeyboard, AtTheSource}, label \in Printed, held \in SUBSET Modifier :
                   labelled(info, label, held)
  IN carried /\ HooksKeepApart /\ printed

(* Two shortcuts pressed by accident are out of reach of every keyboard, in *)
(* either layer: hiding a window, and the option and shift and 2 that the  *)
(* at sign comes to when two command keys ghost.                           *)
Accidents == {<<"H", {"COMMAND"}>>, <<"H", {"COMMAND", "OPTION"}>>}
NothingByAccident ==
  \A info \in Keyboard, key \in Keys, held \in SUBSET Modifier, henkan \in BOOLEAN :
    /\ Commanding(info, key, held, henkan) \cap Accidents = {}
    /\ info = MacBook /\ key \in ToSet(Letters) =>
         <<"Digit2", {"OPTION", "SHIFT"}>> \notin Commanding(info, key, held, henkan)

(* The layers leave nothing out: every character a US keyboard types is    *)
(* under some key of either layer of a Dudrack keyboard, alone and with    *)
(* control held, the space under the space bar's tap.  And no rule is      *)
(* hidden behind those in front of it.                                     *)
Characters == {Bare[u] : u \in DOMAIN Bare} \cup {Shifted[u] : u \in DOMAIN Shifted}
EverythingInReach ==
  /\ \A info \in {MacBook, TrackPoint}, control \in SUBSET {"CONTROL"} :
       Characters \ {" "} \subseteq
         {Types(info, key, control \cup shift, henkan)
            : key \in Keys, shift \in SUBSET S, henkan \in BOOLEAN}
  /\ DOMAIN Rules \subseteq
       {First(info, key, held, henkan)
          : info \in Keyboard, key \in Keys, held \in SUBSET Modifier, henkan \in BOOLEAN}
DudrackIsWhole == LET safe == NothingByAccident IN safe /\ EverythingInReach
=============================================================================
