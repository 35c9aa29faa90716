SPECIFICATION Spec
CONSTANTS
  Chars = {32, 35, 37, 47, 48, 50, 63}
  NUL = 0
  MaxPathLen = 6
  FewChars = {32, 48}
  MaxChars = 8
  MaxShort = 5
  BaseURL <- ShortBase
  Slash = 47
  Word = 16
  MaxContent = 6
  Names = {"n1", "n2"}
  Absent = Absent
  NotString = NotString
  MaxEntries = 2
CHECK_DEADLOCK FALSE
INVARIANTS
  MatchIsPrefix
  EscapeInBounds
  UrlNamesPath
  KeyNamesFolder
  ReadsJoin
  ViewsAgree
