\* Three names of which two at a time are present, and three changes: enough to
\* swap two devices, to replace one by another and to bring the first one back.
SPECIFICATION MCSpec
CONSTANTS
    Name = {a, b, c}
    NoDevice = NoDevice
    MaxDevices = 2
    MaxChanges = 3
INVARIANT TypeOK
INVARIANT StickyIdsIdentifyNames
INVARIANT MapFollowsList
PROPERTY StickyIdsNeverChange
PROPERTY UndisturbedOpenIsRight
