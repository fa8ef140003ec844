SPECIFICATION Spec
CONSTANTS
    Messages <- MCMessages
    SettingsSet <- MCSettings
    AppLists <- MCAppLists
    MaxArrivals = 2
    MaxChanges = 1
    MaxFetching = 2
INVARIANTS Accounted PayloadsAgree
PROPERTY NamesCatchUp
CHECK_DEADLOCK FALSE
