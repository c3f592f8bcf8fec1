SPECIFICATION Spec
CONSTANTS
    Frontends = {"desktop"}
    MaxGen = 3
    MaxTyped = 2
    MaxQueue = 3
    MaxFaults = 0
PROPERTIES KeptWordsStay
CHECK_DEADLOCK FALSE
