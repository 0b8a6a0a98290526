SPECIFICATION Spec
CONSTANTS
    auth = auth
    shop = shop
    platform = platform
    app = app
    Never = Never
    Certs = {auth, shop}
    Types = {platform, app}
    TypeOf <- TwoTypes
    Lifetime = 3
    KeyLifetime = 3
    Interval = 1
    Warning = 2
    MaxFaults = 1
    MaxTime = 3
INVARIANTS
    TypeOK
    NeverAhead
    NoneExpires
CHECK_DEADLOCK FALSE
