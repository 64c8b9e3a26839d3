CONSTANTS
    Fill <- MCFill
    Boot <- MCBoot
    Menus <- MCMenus
    Length <- MCLength
    MaxBlock = 3
    Decimals <- MCDecimals
SPECIFICATION Spec
INVARIANTS
    StackPageLocked
    StackRoundTrips
    DecimalIsDecimal
PROPERTIES
    NarrowIndexIsClear
    EmulationIsA65C02
CHECK_DEADLOCK FALSE
