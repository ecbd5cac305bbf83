----------------------------- MODULE MCStartup ------------------------------
(* Startup with two domains; the routes and the topics that are read.      *)
EXTENDS Startup, TLC

CONSTANTS c1, order, user, eventsV1, ordersV1

\* A pair without a topic is dropped.
OrderRoute == << <<order, Empty>>, <<order, ordersV1>> >>

\* The last pair of a prefix wins: both domains go to one topic.
BothRoutes == OrderRoute \o << <<user, eventsV1>>, <<user, ordersV1>> >>

\* consumer-service reads events.v1, or the topic of the routes.
ReadsMain == c1 :> eventsV1
ReadsOrders == c1 :> ordersV1
=============================================================================
