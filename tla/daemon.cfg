SPECIFICATION MCSpec
CONSTANTS
    Kinds = {"grpc", "http", "jsonrpc", "process", "loopback", "upload", "unary"}
    MaxFrames = 2
    MaxReplies = 2
    Operators = {o1, o2}
    MaxEvents = 2
    OperatorKinds = {"loopback"}
    ListenerKinds = {"http", "unary"}
CHECK_DEADLOCK FALSE
INVARIANTS DaemonTypeOK SettledOnce SettledOnOpenStorage StorageLifetime FramesInOrder OkMeansComplete NeverReached
PROPERTIES EventuallyObeyed PaymentSettledEventually GoroutinesEnd
