SPECIFICATION JobFairSpec
CONSTANTS
    Threshold = 3
    BaseCooldown = 1
    MaxCooldown = 4
    Symbols = 2
    Known <- FirstUnknown
    Interval = 6
    Timeout = 1
PROPERTY HealedGetsBackIn
