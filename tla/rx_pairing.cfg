SPECIFICATION Spec
CONSTANTS
    Payloads <- OdomAndClouds
    Subtypes = {"HOKUYO_CLOUD2", "IMU_RATE_ODOMETRY"}
    TfPeriod = 2
    BroadcastTf = TRUE
    IntMax = 3
    MaxFrames = 5
    MaxConns = 2
INVARIANTS
    TypeOK LidarRatePaired TfCadence ErrorEndsConnection
CHECK_DEADLOCK FALSE
