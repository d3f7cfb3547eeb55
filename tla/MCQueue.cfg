\* Two changes by people, at any point of the loads, and a fault.
SPECIFICATION LiveSpec
CONSTANTS
    MaxChanges = 2
    Touched = {"queue", "ready", "hold", "renamed", "edited"}
    MaxAdds = 1
    MaxFaults = 1
CHECK_DEADLOCK FALSE
INVARIANTS
    KeptWasQueued
    LabelsAreSound
PROPERTIES
    StrangerUndone
