SPECIFICATION ContentSpec
CONSTANTS
  letter = letter  emoji = emoji  LF = LF  CR = CR  ff = ff
  Chars = {letter, emoji, LF, CR}
  Odd = {}
  Width <- MCWidth
  MaxLen = 3
  MaxWire = 1
  Raws <- MCRaws
  Advertised = {"var", "type"}
  MaxAnswers = 3
  MaxPending = 2
  g = g  x = x  y = y  u = u  v = v
  Scripts = {g}
  Scenes = {x, y}
  Uids = {u, v}
  SceneTexts <- MCSceneTexts
  MaxWrites = 2
  MaxFaults = 1
  Underscore = "_"
  Dot = "."
  Names <- MCNames
  Code <- MCCode
  Upper <- MCUpper
  Digits <- MCDigits
  Trees <- MCTrees
  None = None
  Projects <- MCProjects
  Implicit = "RefCounted"
  Missing = Missing
  Other = Other
  Nil = Nil
CHECK_DEADLOCK FALSE
INVARIANT CyclesReported
