SPECIFICATION Spec
CONSTANTS
    Lengths <- AroundTheArrays
    Wrap = 29
    HeaderSize = 2
    PointSize = 3
    Clouds <- SmallClouds
    Half = 8
    Second = 10
    Instants <- SomeInstants
    Base = 4
    Target = "spel_device"
    Reports <- SomeReports
    MaxPasses = 3
INVARIANTS
    FieldsSurvive CopyFits PointsKept SameInstant SampleUnchanged NumbersKept
PROPERTIES
    DiagnosticsSettled
CHECK_DEADLOCK FALSE
