SPECIFICATION Spec
CONSTANTS
    x = x
    y = y
    stick = stick
    trigger = trigger
    None = None
    Buttons = {x, y}
    Sticks = {stick}
    Triggers = {trigger}
    Regions = {"north", "west"}
    Chords <- Pair
    Configs <- Both
    StickThreshold = 2
    StickHysteresis = 1
    TriggerThreshold = 2
    TriggerHysteresis = 1
    Bindings <- Bound
    Timings = {"live", "recorded", "legacy"}
    Skew = 3
    Late = {"button", "connection"}
    MaxInbox = 1
    MaxTime = 2
INVARIANTS GesturesPair PressMeansOneThing DoubleTapIsTwoTaps ActionsFollowGestures
CHECK_DEADLOCK FALSE
