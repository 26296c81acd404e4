\* At most five characters in the input, one snapshot and one earlier prompt together.
CONSTANTS
  Chars <- MCChars
  Space = " "
  Newline = "nl"
  Slash = "/"
  Backslash = "backslash"
  Bytes <- MCBytes
  Cols <- MCCols
  Commands <- MCCommands
  Pastes <- MCPastes
  Width = 4
  UndoCap = 1
  Typed = {"a", " ", "wide", "/", "backslash"}
  MaxLen = 5
  MaxPrompts = 1
SPECIFICATION EditorSpec
INVARIANTS CaretOnBoundary RowsAgree
CHECK_DEADLOCK FALSE
