\* ingest-api, a consumer-service that reads the topic of the routes, and
\* replay-service; three faults.
CONSTANTS
    c1 = c1
    order = order
    user = user
    eventsV1 = eventsV1
    ordersV1 = ordersV1
    Apis = {a1}
    Configured = {a1}
    Consumers = {c1}
    Replayers = {r1}
    Topics = {eventsV1, ordersV1}
    MainTopic = eventsV1
    ReadTopic <- ReadsOrders
    Domains = {order, user}
    RoutePairs <- BothRoutes
    Empty = Empty
    TopicAttempts = 2
    IndexAttempts = 2
    MaxFaults = 3
SPECIFICATION FairSpec
INVARIANTS
    TypeOK
    ServesOnlyWhenReady
PROPERTIES
    OutageLosesNothing
    EveryServiceServes
    PublishedIsSeen
\* When all serve and every event is published, nothing is left to do.
CHECK_DEADLOCK FALSE
