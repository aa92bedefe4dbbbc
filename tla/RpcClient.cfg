SPECIFICATION FairSpec
CONSTANT Subscriber = {s1, s2, s3}
INVARIANTS NoSocketAfterCancel TransportUsed
PROPERTIES SocketOnLiveTransport Answered
CHECK_DEADLOCK FALSE
