SPECIFICATION Spec
CONSTANTS
    Channels = {home}
    Home = home
    Main = Main
    Settings <- Spam
    Accepts <- ValidSpam
    Encodes <- EncodableSpam
    Tokens = {t1, t2}
    Torn = Torn
    None = None
    NaN = NaN
    Inputs <- MCInputs
    Timers = {p1, p2}
    MaxPause = 1
INVARIANTS TypeOK DiskLoads SuccessIsOnDisk AllOrNothing HandlersKeepValid StoreCoversLimits
PROPERTY PauseEnds
