\* docker-compose.yml with KAFKA_TOPIC_ROUTES=order:events.order.v1, no faults.
CONSTANTS
    c1 = c1
    order = order
    user = user
    eventsV1 = eventsV1
    ordersV1 = ordersV1
    Apis = {a1}
    Configured = {a1}
    Consumers = {c1}
    Replayers = {}
    Topics = {eventsV1, ordersV1}
    MainTopic = eventsV1
    ReadTopic <- ReadsMain
    Domains = {order, user}
    RoutePairs <- OrderRoute
    Empty = Empty
    TopicAttempts = 2
    IndexAttempts = 2
    MaxFaults = 0
SPECIFICATION FairSpec
PROPERTIES
    PublishedIsSeen
\* When all serve and every event is published, nothing is left to do.
CHECK_DEADLOCK FALSE
