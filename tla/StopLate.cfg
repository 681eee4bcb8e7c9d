\* An earlier push of the loop arrives after the final one of main.
SPECIFICATION Spec
CONSTANTS
    MaxValue = 2
    MaxQuits = 2
    MaxSignals = 2
PROPERTY FinalPushStays
CHECK_DEADLOCK FALSE
