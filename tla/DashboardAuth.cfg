SPECIFICATION Spec
CONSTANTS
    b1 = b1
    b2 = b2
    Browsers <- MCBrowsers
    SessionLimit = 2
    Lifetime = 1
    MaxTime = 2
    MaxTokens = 4
    MaxPasswords = 3
INVARIANTS
    AuthTypeOK
    OnlyCurrentPassword
PROPERTIES
    SetupOnce
    SignedIn
