CONSTANTS
    Browsers = {b1}
    Tokens = {t1, t2}
    Passwords = {"", "one"}
    NoPassword = ""
    Life = 2
    None = None
    Tools = {u1, u2}
    Nothing = Nothing
SPECIFICATION HostFairSpec
INVARIANTS
    SessionIffLogin
PROPERTIES
    StopEnds
    UninstallRemoves
