CONSTANTS
    u1 = u1
    u2 = u2
    Users = {u1, u2}
    Thresholds = {300}
    ResetTh = 255
    GpioValid = TRUE
    MaxProbes = 2
    Unread = Unread
SPECIFICATION Spec
INVARIANTS
    SettingsInEffect
    LiveDevicesOnly
    CleanBinding
SYMMETRY Perms
CHECK_DEADLOCK FALSE
