SPECIFICATION Spec
CONSTANTS
  a = a
  b = b
  x = x
  yes = yes
  no = no
  Chars = {a, b}
  Texts <- MCTexts
  MaxChars = 2
  MaxText = 3
  OptionLists <- MCOptionLists
  Values = {yes, no, x}
INVARIANTS
  CaretIsIter
PROPERTIES
  KeysEndOnOption
  RefinesEditor
CHECK_DEADLOCK FALSE
