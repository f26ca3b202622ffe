\* Three days of eight ticks, a start every three.
CONSTANTS
    Day = 8
    Period = 3
    MaxLag = 2
    Condition <- MCConditions
    MaxClock = 24
    MaxEdits = 2
    MaxFaults = 2
SPECIFICATION Spec
PROPERTIES OncePerOccurrence NoneOverlooked DailyEveryDay
CHECK_DEADLOCK FALSE
