SPECIFICATION FairSpec
CONSTANTS
    MaxUpsets = 3
    MaxReloads = 2
INVARIANTS TypeOK UsedClientIsOpen LinkIsHeld
PROPERTIES NoClientIsLost WideqComesBack EventsAreRenewed
CHECK_DEADLOCK FALSE
