SPECIFICATION MCSpec
CONSTANTS
    Clips = {a, b}
    Secret = Secret
    Token = Token
    Nobody = Nobody
    Platforms = {"x11", "wayland", "windows", "macos"}
    Repeats = FALSE
    MaxChanges = 3
    Apps = {x1, x2}
    MaxCopies = 3
    Limit = 2
    Late = FALSE
    TooLarge = TooLarge
    MaxShown = 1
    None = None
INVARIANTS NoEcho NewestWins NewestIsRead
PROPERTIES ClearSparesCopies WorkIsTaken
CHECK_DEADLOCK FALSE
