SPECIFICATION FairSpec
CONSTANTS
    VGA_WIDTH = 2
    VGA_HEIGHT = 2
    Byte = 4
    Writer = {tty, main}
    tty_process = tty
    MaxLength = 2
    MaxRow = 3
    MaxMixes = 2
INVARIANTS
    StoresOnScreen
    CursorInPlace
PROPERTIES
    ConsoleRecovers
