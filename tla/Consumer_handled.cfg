\* Elasticsearch and Kafka are up; one instance is told to stop.
CONSTANTS
    Instances = {c1}
    Events = {e1}
    Poison = Poison
    None = None
    MaxMessages = 1
    Outages = FALSE
    MaxFaults = 1

SPECIFICATION Spec
INVARIANT
    CommitsOnlyHandled
CHECK_DEADLOCK FALSE
