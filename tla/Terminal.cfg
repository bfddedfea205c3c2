SPECIFICATION MCSpec
CONSTANTS
  queue_size = 2
  line_bytes = 2
  UartChars = {"a", "esc", "cr", "^D"}
  max_received = 4
  Keys = {"d", "LShift", "RControl", "CapsLock", "F12", "Esc", "PrintScreen"}
  max_held = 2
  max_strokes = 3
  max_waiting = 2
  Moves <- MCMoves
  max_moves = 1
  mouse_type = 0
  cx_max = 8
  cy_max = 7
  columns = 4
  rows = 3
  self_test_reads = 3
  max_shakes = 1
  screen_cols = 6
  screen_rows = 2
  max_cmdline = 3
  Typed = {"a", " ", "bs", "^W", "^U", "tab", "ff"}
  prompt <- MCPrompt
  clear_codes <- MCClearCodes
  Letters = {"a", "n"}
  max_length = 6
  max_args = 3
  Fds = {3, 4, 5}
  Contents <- MCContents
  Listing <- MCListing
  Script <- MCScript
  CommandSet <- MCCommands
  buffer_size = 2
  max_failures = 1
  max_commands = 3
  NOTHING = NOTHING
  u64_max = 255
  num_max = 127
  unit = 6
  capacity = 12
  Literals = {"a"}
  FlagSets <- MCFlagSets
  arity = 2
  ArgumentLists <- MCArgumentLists
  max_pieces = 4
  NumberChars = {"-", "+", "0", "1", "2", "9", "x"}
  max_number = 4
  ShellFds = {0, 1, 2, 3, 4, 5, 6}
  RcLines <- MCRcLines
  UserLines <- MCUserLines
  CwdPrograms = {"p", "shell"}
  BinPrograms = {"p", "q"}
  max_typed = 3
  Deck <- MCDeck
  max_slides = 5
  start_slide = 9
  screen_height = 5
  iterations = 2
  thickness = 2
  item_bytes = 3
  tmp_items = 2
  Keystrokes = {"next", "Next", "^F", "back", "Back", "^B", "first", "last"}
  max_keystrokes = 3
CHECK_DEADLOCK FALSE
INVARIANTS
  FocusIsSound
  InputIsUnderstood
  ShownIsTrue
  CommandsAreSound
  TextsAreTrue
  ShellIsSound
PROPERTY AllComesToAnEnd
