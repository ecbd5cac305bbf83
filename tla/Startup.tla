------------------------------ MODULE Startup -------------------------------
(***************************************************************************)
(* How the services start: each main sets up what it needs, step by step   *)
(* and next to the others, before it serves.                               *)
(*                                                                         *)
(*   ingest-api        schema in PostgreSQL, Kafka topics, index, ADMIN_KEY*)
(*   consumer-service  Kafka topics, index                                 *)
(*   replay-service    schema in PostgreSQL                                *)
(*                                                                         *)
(* A server may be down for a while, a process may die at any point, and   *)
(* docker starts it again.  Then events are published to the topics the    *)
(* resolver names, and every consumer-service reads the one it was given.  *)
(***************************************************************************)
EXTENDS Naturals, FiniteSets, Sequences

CONSTANTS Apis,           \* the instances of ingest-api
          Consumers,      \* the instances of consumer-service
          Replayers,      \* the instances of replay-service
          Configured,     \* those whose ADMIN_KEY, AUTH_MODE and secret are in order
          Topics,         \* the names of topics that events are sent to
          MainTopic,      \* KAFKA_TOPIC of ingest-api
          ReadTopic,      \* ReadTopic[c]: KAFKA_TOPIC of consumer-service c
          Domains,        \* the prefixes of stream ids: one event of each
          RoutePairs,     \* KAFKA_TOPIC_ROUTES, as the pairs it lists
          Empty,          \* a missing prefix or topic in a pair
          TopicAttempts,  \* maxAttempts of EnsureTopics
          IndexAttempts,  \* maxAttempts of NewIndexer
          MaxFaults       \* bound: outages, failed dead letters, deaths and stops

Processes == Apis \cup Consumers \cup Replayers
Servers == {"postgres", "kafka", "elasticsearch"}

ASSUME ProcessesAssumption ==
    /\ Apis \cap Consumers = {} /\ Apis \cap Replayers = {}
    /\ Consumers \cap Replayers = {}
    /\ Configured \subseteq Apis
ASSUME TopicsAssumption ==
    /\ MainTopic \in Topics /\ Empty \notin Topics
    /\ ReadTopic \in [Consumers -> Topics]
    /\ RoutePairs \in Seq((Domains \cup {Empty}) \X (Topics \cup {Empty}))
ASSUME AttemptsAssumption == /\ TopicAttempts \in Nat \ {0}
                             /\ IndexAttempts \in Nat \ {0}
                             /\ MaxFaults \in Nat

VARIABLES stage,     \* stage[p]: how far the main of p has come
          missing,   \* missing[p]: the topics p has found missing
          tries,     \* tries[p]: the attempts of the present step that failed
          table,     \* the events table exists
          topics,    \* the topics that exist
          index,     \* the index: absent, with the canonical or a dynamic mapping
          down,      \* the servers that do not answer
          faults,
          messages,  \* the messages in Kafka
          consumed,  \* the messages whose offset was committed
          skipped,   \* those logged as lost by index and dead-letter topic
          docs       \* the documents in the index

procVars == <<stage, missing, tries>>
flowVars == <<messages, consumed, skipped, docs>>
vars == <<procVars, table, topics, index, down, faults, flowVars>>

-----------------------------------------------------------------------------
\* parseTopicRoutes: a pair without prefix or topic is dropped, and the last
\* pair of a prefix wins.
PairsOf(d) == {i \in DOMAIN RoutePairs : RoutePairs[i][1] = d /\ RoutePairs[i][2] # Empty}

Routed == {d \in Domains : PairsOf(d) # {}}

\* Variant: the first pair of a prefix wins.
FirstRoutes == [d \in Routed |-> LET first == CHOOSE i \in PairsOf(d) :
                                                 \A j \in PairsOf(d) : i <= j
                                 IN  RoutePairs[first][2]]

Routes == [d \in Routed |-> LET last == CHOOSE i \in PairsOf(d) :
                                           \A j \in PairsOf(d) : j <= i
                            IN  RoutePairs[last][2]]

\* prefixTopicResolver.Resolve, singleTopicResolver.Resolve (no routes).
Resolve(d) == IF d \in Routed THEN Routes[d] ELSE MainTopic

\* Topics of the resolver: every topic Resolve may name.
ResolverTopics == {MainTopic} \cup {Routes[d] : d \in Routed}

\* KAFKA_DLQ_TOPIC is empty: the name is derived from the topic.
DLQTopicName(t) == <<t, "dlq">>

\* Variant: the dead-letter topic is left to the broker.
SpecsWithoutDLQ(p) == CASE p \in Apis -> ResolverTopics
                        [] p \in Consumers -> {ReadTopic[p]}
                        [] p \in Replayers -> {}

\* buildTopicSpecs, and the list in the main of consumer-service.
Specs(p) == CASE p \in Apis -> ResolverTopics \cup {DLQTopicName(MainTopic)}
              [] p \in Consumers -> {ReadTopic[p], DLQTopicName(ReadTopic[p])}
              [] p \in Replayers -> {}

KnownTopics == UNION {Specs(p) : p \in Processes}
Message == [domain : Domains, topic : KnownTopics]

Stages == {"schema", "ddl", "topics", "creating", "index", "mapping",
           "serving", "exited"}

TypeOK ==
    /\ stage \in [Processes -> Stages]
    /\ missing \in [Processes -> SUBSET KnownTopics]
    /\ tries \in [Processes -> (0 .. TopicAttempts - 1) \cup (0 .. IndexAttempts - 1)]
    /\ table \in BOOLEAN
    /\ topics \subseteq KnownTopics
    /\ index \in {"absent", "canonical", "dynamic"}
    /\ down \subseteq Servers
    /\ faults \in 0 .. MaxFaults
    /\ messages \subseteq Message
    /\ consumed \subseteq messages
    /\ skipped \subseteq consumed
    /\ docs \subseteq Domains

FirstStage(p) == IF p \in Consumers THEN "topics" ELSE "schema"

Init == /\ stage = [p \in Processes |-> FirstStage(p)]
        /\ missing = [p \in Processes |-> {}]
        /\ tries = [p \in Processes |-> 0]
        /\ table = FALSE
        /\ topics = {}
        /\ index = "absent"
        /\ down = {}
        /\ faults = 0
        /\ messages = {}
        /\ consumed = {}
        /\ skipped = {}
        /\ docs = {}

GoTo(p, s) == /\ stage' = [stage EXCEPT ![p] = s]
              /\ tries' = [tries EXCEPT ![p] = 0]

\* Variant: attempts are not counted against a maximum.
TryAgainForever(p, s, attempts) ==
    /\ stage' = [stage EXCEPT ![p] = s]
    /\ tries' = [tries EXCEPT ![p] = @ + 1]

\* An attempt fails: once more, from stage s, or the last one ends the process.
TryAgain(p, s, attempts) ==
    IF tries[p] + 1 < attempts
    THEN /\ stage' = [stage EXCEPT ![p] = s]
         /\ tries' = [tries EXCEPT ![p] = @ + 1]
    ELSE GoTo(p, "exited")

-----------------------------------------------------------------------------
\* NewEventStore: no step of it is retried, an error ends the process.
\* replay-service needs no more.
SchemaApplied(p) == IF p \in Replayers THEN "serving" ELSE "topics"

\* Variant: CREATE TABLE without IF NOT EXISTS.
CreateAnyway(p) ==
    /\ stage[p] = "schema"
    /\ "postgres" \notin down
    /\ GoTo(p, "ddl")
    /\ UNCHANGED <<missing, table, topics, index, down, faults, flowVars>>

\* After the ping, CREATE TABLE IF NOT EXISTS looks for the table ...
LookForTable(p) ==
    /\ stage[p] = "schema"
    /\ "postgres" \notin down
    /\ GoTo(p, IF table THEN SchemaApplied(p) ELSE "ddl")
    /\ UNCHANGED <<missing, table, topics, index, down, faults, flowVars>>

\* ... and creates it; that fails if another process has created it since.
CreateTable(p) ==
    /\ stage[p] = "ddl"
    /\ "postgres" \notin down
    /\ table' = TRUE
    /\ GoTo(p, IF table THEN "exited" ELSE SchemaApplied(p))
    /\ UNCHANGED <<missing, topics, index, down, faults, flowVars>>

\* The connection breaks, before or after the commit.
SchemaFails(p) ==
    /\ stage[p] \in {"schema", "ddl"}
    /\ "postgres" \in down
    /\ table' \in IF stage[p] = "ddl" THEN {table, TRUE} ELSE {table}
    /\ GoTo(p, "exited")
    /\ UNCHANGED <<missing, topics, index, down, faults, flowVars>>

-----------------------------------------------------------------------------
\* EnsureTopics: tryEnsureTopics reads which topics exist ...
ListTopics(p) ==
    /\ stage[p] = "topics"
    /\ "kafka" \notin down
    /\ missing' = [missing EXCEPT ![p] = Specs(p) \ topics]
    /\ IF Specs(p) \subseteq topics
       THEN GoTo(p, "index")
       ELSE /\ stage' = [stage EXCEPT ![p] = "creating"]
            /\ UNCHANGED tries
    /\ UNCHANGED <<table, topics, index, down, faults, flowVars>>

\* ... and creates those it has not seen; the client does not count a topic
\* that exists by now as an error.
CreateTopics(p) ==
    /\ stage[p] = "creating"
    /\ "kafka" \notin down
    /\ topics' = topics \cup missing[p]
    /\ GoTo(p, "index")
    /\ missing' = [missing EXCEPT ![p] = {}]
    /\ UNCHANGED <<table, index, down, faults, flowVars>>

\* An attempt fails; topics may have been created all the same.
TopicsFail(p) ==
    /\ stage[p] \in {"topics", "creating"}
    /\ "kafka" \in down
    /\ \E created \in IF stage[p] = "creating" THEN SUBSET missing[p] ELSE {{}} :
          topics' = topics \cup created
    /\ TryAgain(p, "topics", TopicAttempts)
    /\ missing' = [missing EXCEPT ![p] = {}]
    /\ UNCHANGED <<table, index, down, faults, flowVars>>

-----------------------------------------------------------------------------
\* What follows NewIndexer: ingest-api refuses to start without ADMIN_KEY, in
\* an unknown AUTH_MODE, or in mode jwt without a secret.
Indexed(p) == IF p \in Configured \cup Consumers THEN "serving" ELSE "exited"

\* ensureIndex: 200 is "exists", any other answer is not.
FindIndex(p) ==
    /\ stage[p] = "index"
    /\ \/ /\ "elasticsearch" \notin down /\ index # "absent"
          /\ GoTo(p, Indexed(p))
       \/ /\ "elasticsearch" \in down \/ index = "absent"
          /\ stage' = [stage EXCEPT ![p] = "mapping"]
          /\ UNCHANGED tries
    /\ UNCHANGED <<missing, table, topics, index, down, faults, flowVars>>

\* The index is created; if it is there (resource_already_exists, 400) the
\* attempt has failed and the next one finds it.
CreateIndex(p) ==
    /\ stage[p] = "mapping"
    /\ "elasticsearch" \notin down
    /\ \/ /\ index = "absent"
          /\ index' = "canonical"
          /\ GoTo(p, Indexed(p))
       \/ /\ index # "absent"
          /\ TryAgain(p, "index", IndexAttempts)
          /\ UNCHANGED index
    /\ UNCHANGED <<missing, table, topics, down, faults, flowVars>>

\* Variant: the error of the last attempt is not returned.
IndexFailsIgnored(p) ==
    /\ stage[p] \in {"index", "mapping"}
    /\ "elasticsearch" \in down
    /\ UNCHANGED index
    /\ IF tries[p] + 1 < IndexAttempts THEN TryAgain(p, "index", IndexAttempts)
                                       ELSE GoTo(p, Indexed(p))
    /\ UNCHANGED <<missing, table, topics, down, faults, flowVars>>

\* No answer within 5 s; the index may have been created all the same.
IndexFails(p) ==
    /\ stage[p] \in {"index", "mapping"}
    /\ "elasticsearch" \in down
    /\ index' \in IF stage[p] = "mapping" /\ index = "absent"
                  THEN {index, "canonical"} ELSE {index}
    /\ TryAgain(p, "index", IndexAttempts)
    /\ UNCHANGED <<missing, table, topics, down, faults, flowVars>>

-----------------------------------------------------------------------------
\* An event of the domain reaches the topic the resolver names.
Publish(p, d) ==
    /\ p \in Apis /\ stage[p] = "serving"
    /\ "kafka" \notin down
    /\ \A m \in messages : m.domain # d
    /\ Resolve(d) \in topics
    /\ messages' = messages \cup {[domain |-> d, topic |-> Resolve(d)]}
    /\ UNCHANGED <<procVars, table, topics, index, down, faults, consumed, skipped, docs>>

\* consumer-service p has message m in hand and commits its offset afterwards.
Takes(p, m) ==
    /\ p \in Consumers /\ stage[p] = "serving"
    /\ "kafka" \notin down
    /\ m.topic = ReadTopic[p]
    /\ consumed' = consumed \cup {m}

\* An absent index comes into being with a dynamic mapping.
WriteDoc(m) == /\ docs' = docs \cup {m.domain}
               /\ index' = IF index = "absent" THEN "dynamic" ELSE index

IndexMessage(p, m) ==
    /\ Takes(p, m)
    /\ "elasticsearch" \notin down
    /\ WriteDoc(m)
    /\ UNCHANGED <<procVars, table, topics, down, faults, messages, skipped>>

\* The dead letter of message m, in its topic if that exists.
DeadLetterOf(m) == {[domain |-> m.domain, topic |-> t] : t \in {DLQTopicName(m.topic)} \cap topics}

\* Index returns an error, though the document may be there all the same, and
\* the message goes to the dead-letter topic.
DeadLetter(p, m) ==
    /\ Takes(p, m)
    /\ "elasticsearch" \in down
    /\ DeadLetterOf(m) # {}
    /\ messages' = messages \cup DeadLetterOf(m)
    /\ WriteDoc(m) \/ UNCHANGED <<docs, index>>
    /\ UNCHANGED <<procVars, table, topics, down, faults, skipped>>

(***************************************************************************)
(* The dead letter fails too, and handle returns nil all the same: its     *)
(* topic is missing, Kafka fails this write, or SIGTERM cancels both calls *)
(* while the message is in hand.                                           *)
(***************************************************************************)
SkipMessage(p, m) ==
    /\ Takes(p, m)
    /\ \/ /\ "elasticsearch" \in down
          /\ faults' = IF DeadLetterOf(m) = {} THEN faults ELSE faults + 1
          /\ UNCHANGED procVars
       \/ /\ faults' = faults + 1
          /\ GoTo(p, "exited")
          /\ UNCHANGED missing
    /\ faults' <= MaxFaults
    /\ skipped' = skipped \cup {m}
    /\ messages' \in {messages, messages \cup DeadLetterOf(m)}
    /\ WriteDoc(m) \/ UNCHANGED <<docs, index>>
    /\ UNCHANGED <<table, topics, down>>

Consume(p, m) == IndexMessage(p, m) \/ DeadLetter(p, m) \/ SkipMessage(p, m)

-----------------------------------------------------------------------------
Break(s) ==
    /\ s \notin down /\ faults < MaxFaults
    /\ down' = down \cup {s}
    /\ faults' = faults + 1
    /\ UNCHANGED <<procVars, table, topics, index, flowVars>>

Recover(s) ==
    /\ s \in down
    /\ down' = down \ {s}
    /\ UNCHANGED <<procVars, table, topics, index, faults, flowVars>>

Die(p) ==
    /\ stage[p] # "exited" /\ faults < MaxFaults
    /\ GoTo(p, "exited")
    /\ missing' = [missing EXCEPT ![p] = {}]
    /\ faults' = faults + 1
    /\ UNCHANGED <<table, topics, index, down, flowVars>>

\* restart: unless-stopped, or an operator (replay-service)
Restart(p) ==
    /\ stage[p] = "exited"
    /\ GoTo(p, FirstStage(p))
    /\ UNCHANGED <<missing, table, topics, index, down, faults, flowVars>>

SetUp(p) == \/ LookForTable(p) \/ CreateTable(p) \/ SchemaFails(p)
            \/ ListTopics(p) \/ CreateTopics(p) \/ TopicsFail(p)
            \/ FindIndex(p) \/ CreateIndex(p) \/ IndexFails(p)

Work(p) == \/ \E d \in Domains : Publish(p, d)
           \/ \E m \in messages \ consumed : Consume(p, m)

Next == \/ \E p \in Processes : SetUp(p) \/ Work(p) \/ Die(p) \/ Restart(p)
        \/ \E s \in Servers : Break(s) \/ Recover(s)

Spec == Init /\ [][Next]_vars

(***************************************************************************)
(* A main goes on with its next step, docker restarts what has exited and  *)
(* an outage ends.  A consumer takes its messages while Elasticsearch      *)
(* answers: a call made in an outage may last as long as the outage.       *)
(* Nobody has to publish.                                                  *)
(***************************************************************************)
Fairness ==
    /\ \A p \in Processes : WF_vars(SetUp(p))
    /\ \A p \in Apis \cup Consumers : WF_vars(Restart(p))
    /\ \A s \in Servers : WF_vars(Recover(s))
    /\ \A p \in Consumers :
          WF_vars("elasticsearch" \notin down /\ \E m \in messages \ consumed : Consume(p, m))

FairSpec == Spec /\ Fairness

-----------------------------------------------------------------------------
(***************************************************************************)
(* Whoever serves finds what it uses, whichever of its set-up steps were   *)
(* its own and whichever another process's: the schema, every topic it may *)
(* write to or read from, its dead-letter topic and the index, with the    *)
(* canonical mapping (the three mains).                                    *)
(***************************************************************************)
Uses(p) == CASE p \in Apis -> {Resolve(d) : d \in Domains}
             [] p \in Consumers -> {ReadTopic[p], DLQTopicName(ReadTopic[p])}
             [] p \in Replayers -> {}

ServesOnlyWhenReady ==
    \A p \in Processes : stage[p] = "serving" =>
        /\ p \notin Consumers => table
        /\ Uses(p) \subseteq topics
        /\ p \notin Replayers => index = "canonical"

(***************************************************************************)
(* Losing a race for the schema, a topic or the index, or running out of   *)
(* attempts, keeps no service from serving once the outages are over.      *)
(***************************************************************************)
EveryServiceServes == \A p \in Configured \cup Consumers : <>[](stage[p] = "serving")

(***************************************************************************)
(* An outage of Elasticsearch alone loses no message: what a consumer is   *)
(* done with is in the index or in the dead-letter topic of the topic it   *)
(* came from, unless something else fails at that moment (Kafka, for the   *)
(* dead letter, or the process is stopped).  Never for want of a topic:    *)
(* who consumes has found its dead-letter topic, whichever process created *)
(* it and whichever attempts were cut off (service.go:58-61, 80-98).       *)
(***************************************************************************)
Handled(m) == \/ m.domain \in docs
              \/ [domain |-> m.domain, topic |-> DLQTopicName(m.topic)] \in messages

OutageLosesNothing ==
    [][ \A m \in consumed' \ consumed : Handled(m)' \/ faults' > faults ]_vars

(***************************************************************************)
(* topic_resolver.go:13: "Swapping routing strategies is a one-line change *)
(* in main - no Producer or Consumer code changes needed": wherever its    *)
(* domain is routed to, a published event comes to a consumer, which       *)
(* indexes it, dead-letters it or reports it lost.                         *)
(***************************************************************************)
Seen(d) == \/ d \in docs
           \/ \E m \in skipped : m.domain = d
           \/ \E c \in Consumers : \E m \in messages :
                 m.domain = d /\ m.topic = DLQTopicName(ReadTopic[c])

PublishedIsSeen ==
    \A d \in Domains : (\E m \in messages : m.domain = d) ~> Seen(d)
=============================================================================
