SPECIFICATION Spec
CONSTANTS
  f1 = f1
  f2 = f2
  menu = menu
  game = game
  credits = credits
  name_input = name_input
  Stages = {menu, game, credits}
  Creatable = {menu, game}
  FirstStage = menu
  Inputs = {name_input}
  OwnerOf <- MCOwnerOf
  TextInputs = {name_input}
  Keyboard <- MCKeyboard
  Pads <- MCPads
  Windows <- MCWindows
  FirstWindow <- MCFirstWindow
  Points <- MCPoints
  Icon <- MCIcon
  Fingers = {f1, f2}
  KeysOfHardware = {"ESCAPE"}
  NoInput = NoInput
  NoFinger = NoFinger
SYMMETRY Symmetry
INVARIANTS
  TypeOK
  DownIsPressed
  StageInSync
  ButtonsFitWindow
CHECK_DEADLOCK FALSE
