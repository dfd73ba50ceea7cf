SPECIFICATION FairSpec
CONSTANT
    detect_gpio_count = 2
INVARIANT
    RemovalFinal
    ViewCurrent
PROPERTIES
    WorkServes
