SPECIFICATION Spec
CONSTANTS
    SettingsSet <- MCSettings
    Bodies = {"good", "negative", "text", "object"}
    MaxTicks = 2
INVARIANTS RoundsAreWhole ReadingsAccounted DestinationsAgree
PROPERTIES GaugesGoForward RoundsEnd
CHECK_DEADLOCK FALSE
