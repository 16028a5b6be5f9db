SPECIFICATION Spec
CONSTANTS
  Key = {"option", "n", "s", "a"}
  Option = {"option"}
  TheModifier = "option"
  ToTheSink = "n"
  BackHere = "s"
  Backlog = 2
CHECK_DEADLOCK FALSE
INVARIANTS LettersComeUpHere
