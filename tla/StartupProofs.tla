---------------------------- MODULE StartupProofs -----------------------------
(***************************************************************************)
(* Proof that a service that serves finds what it uses, for any number of  *)
(* processes, topics, routes, attempts and faults.                         *)
(*                                                                         *)
(* ServesOnlyWhenReady is not inductive: what is there when a process      *)
(* serves was there when the step before let it go on, so IInv says of     *)
(* every stage what has been set up (SchemaThere, TopicsThere, and for the *)
(* time between the topic list and the creation, ListedThere).  It stays,  *)
(* because nothing that was set up goes away (Grows).                      *)
(*                                                                         *)
(* A consumer-service that serves has its dead-letter topic, so that an    *)
(* outage of Elasticsearch alone loses nothing (NothingLost).              *)
(***************************************************************************)
EXTENDS Startup, TLAPS

SchemaThere == \A p \in Processes \ Consumers :
                  stage[p] \notin {"schema", "ddl", "exited"} => table

\* Between list and creation: what is not missing is there.
ListedThere == \A p \in Processes :
                  stage[p] = "creating" => Specs(p) \ missing[p] \subseteq topics

TopicsThere == \A p \in Processes :
                  stage[p] \in {"index", "mapping", "serving"} => Specs(p) \subseteq topics

\* A consumer serves only when the index is there: no dynamic mapping arises.
IndexThere == /\ index # "dynamic"
              /\ \A p \in Processes \ Replayers : stage[p] = "serving" => index = "canonical"

IInv == TypeOK /\ SchemaThere /\ ListedThere /\ TopicsThere /\ IndexThere

\* What was set up stays.
Grows == /\ table => table'
         /\ topics \subseteq topics'
         /\ index = "canonical" => index' = "canonical"
         /\ index' # "dynamic"

-----------------------------------------------------------------------------
LEMMA SpecsAreKnown == \A p \in Processes : Specs(p) \subseteq KnownTopics
  BY DEF KnownTopics

LEMMA ResolvedAreKnown ==
  ASSUME NEW p \in Apis, NEW d \in Domains PROVE Resolve(d) \in Specs(p)
<1>1. Resolve(d) \in ResolverTopics
  BY DEF Resolve, ResolverTopics
<1>2. Specs(p) = ResolverTopics \cup {DLQTopicName(MainTopic)}
  BY ProcessesAssumption DEF Specs
<1> QED
  BY <1>1, <1>2

LEMMA SpecsOfConsumer ==
  ASSUME NEW p \in Consumers
  PROVE  Specs(p) = {ReadTopic[p], DLQTopicName(ReadTopic[p])}
  BY ProcessesAssumption DEF Specs

LEMMA UsesAreSpecs == \A p \in Processes : Uses(p) \subseteq Specs(p)
<1> SUFFICES ASSUME NEW p \in Processes PROVE Uses(p) \subseteq Specs(p)
  OBVIOUS
<1>1. CASE p \in Apis
  <2>1. Uses(p) = {Resolve(d) : d \in Domains}
    BY <1>1, ProcessesAssumption DEF Uses
  <2> QED
    BY <1>1, <2>1, ResolvedAreKnown
<1>2. CASE p \in Consumers
  <2>1. Uses(p) = {ReadTopic[p], DLQTopicName(ReadTopic[p])}
    BY <1>2, ProcessesAssumption DEF Uses
  <2> QED
    BY <1>2, <2>1, SpecsOfConsumer
<1>3. CASE p \in Replayers
  BY <1>3, ProcessesAssumption DEF Uses
<1> QED
  BY <1>1, <1>2, <1>3 DEF Processes

-----------------------------------------------------------------------------
\* An attempt that fails leaves the process at a stage, with attempts left.
LEMMA TryAgainType ==
  ASSUME TypeOK, NEW p \in Processes, NEW s \in Stages,
         NEW attempts \in {TopicAttempts, IndexAttempts}, TryAgain(p, s, attempts)
  PROVE  /\ stage' \in [Processes -> Stages]
         /\ tries' \in [Processes -> (0 .. TopicAttempts - 1) \cup (0 .. IndexAttempts - 1)]
  BY AttemptsAssumption DEF TypeOK, TryAgain, GoTo, Stages

LEMMA GoToType ==
  ASSUME TypeOK, NEW p \in Processes, NEW s \in Stages, GoTo(p, s)
  PROVE  /\ stage' \in [Processes -> Stages]
         /\ tries' \in [Processes -> (0 .. TopicAttempts - 1) \cup (0 .. IndexAttempts - 1)]
  BY AttemptsAssumption DEF TypeOK, GoTo

\* Every outcome of Consume is that of a message in hand.
LEMMA ConsumeTakes ==
  ASSUME NEW p \in Processes, NEW m, Consume(p, m)
  PROVE  Takes(p, m)
  BY DEF Consume, IndexMessage, DeadLetter, SkipMessage

LEMMA TypeInit == Init => TypeOK
<1>1. ASSUME NEW p \in Processes PROVE FirstStage(p) \in Stages
  BY DEF FirstStage, Stages
<1>2. 0 \in (0 .. TopicAttempts - 1) \cup (0 .. IndexAttempts - 1) /\ 0 \in 0 .. MaxFaults
  BY AttemptsAssumption
<1> SUFFICES ASSUME Init PROVE TypeOK
  OBVIOUS
<1>3. stage \in [Processes -> Stages] /\ missing \in [Processes -> SUBSET KnownTopics]
  BY <1>1 DEF Init
<1> QED
  BY <1>2, <1>3 DEF Init, TypeOK

LEMMA TypeStep == TypeOK /\ [Next]_vars => TypeOK'
<1> SUFFICES ASSUME TypeOK, [Next]_vars PROVE TypeOK'
  OBVIOUS
<1>1. ASSUME NEW p \in Processes, LookForTable(p) \/ CreateTable(p) \/ SchemaFails(p)
      PROVE TypeOK'
  <2>1. \E s \in Stages : GoTo(p, s)
    BY <1>1 DEF LookForTable, CreateTable, SchemaFails, SchemaApplied, Stages
  <2>2. table' \in BOOLEAN
    BY <1>1 DEF LookForTable, CreateTable, SchemaFails, TypeOK
  <2>3. UNCHANGED <<missing, topics, index, down, faults, flowVars>>
    BY <1>1 DEF LookForTable, CreateTable, SchemaFails
  <2> QED
    BY <2>1, <2>2, <2>3, GoToType DEF TypeOK, flowVars, Message
<1>2. ASSUME NEW p \in Processes, ListTopics(p) PROVE TypeOK'
  <2>1. stage' \in [Processes -> Stages]
    BY <1>2 DEF ListTopics, GoTo, TypeOK, Stages
  <2>2. tries' \in [Processes -> (0 .. TopicAttempts - 1) \cup (0 .. IndexAttempts - 1)]
    BY <1>2, AttemptsAssumption DEF ListTopics, GoTo, TypeOK
  <2>3. missing' \in [Processes -> SUBSET KnownTopics]
    BY <1>2, SpecsAreKnown DEF ListTopics, TypeOK
  <2> QED
    BY <1>2, <2>1, <2>2, <2>3 DEF ListTopics, TypeOK, flowVars, Message
<1>3. ASSUME NEW p \in Processes, CreateTopics(p) PROVE TypeOK'
  <2>1. GoTo(p, "index") /\ "index" \in Stages
    BY <1>3 DEF CreateTopics, Stages
  <2> QED
    BY <1>3, <2>1, GoToType DEF CreateTopics, TypeOK, flowVars, Message
<1>4. ASSUME NEW p \in Processes, TopicsFail(p) PROVE TypeOK'
  <2>1. TryAgain(p, "topics", TopicAttempts) /\ "topics" \in Stages
    BY <1>4 DEF TopicsFail, Stages
  <2>2. topics' \subseteq KnownTopics
    BY <1>4 DEF TopicsFail, TypeOK
  <2> QED
    BY <1>4, <2>1, <2>2, TryAgainType DEF TopicsFail, TypeOK, flowVars, Message
<1>5. ASSUME NEW p \in Processes, FindIndex(p) PROVE TypeOK'
  <2>1. Indexed(p) \in Stages
    BY DEF Indexed, Stages
  <2>2. /\ stage' \in [Processes -> Stages]
        /\ tries' \in [Processes -> (0 .. TopicAttempts - 1) \cup (0 .. IndexAttempts - 1)]
    BY <1>5, <2>1, GoToType DEF FindIndex, TypeOK, Stages
  <2> QED
    BY <1>5, <2>2 DEF FindIndex, TypeOK, flowVars, Message
<1>6. ASSUME NEW p \in Processes, CreateIndex(p) \/ IndexFails(p) PROVE TypeOK'
  <2>1. Indexed(p) \in Stages /\ "index" \in Stages
    BY DEF Indexed, Stages
  <2>2. GoTo(p, Indexed(p)) \/ TryAgain(p, "index", IndexAttempts)
    BY <1>6 DEF CreateIndex, IndexFails
  <2>3. index' \in {"absent", "canonical", "dynamic"}
    BY <1>6 DEF CreateIndex, IndexFails, TypeOK
  <2>4. UNCHANGED <<missing, table, topics, down, faults, flowVars>>
    BY <1>6 DEF CreateIndex, IndexFails
  <2> QED
    BY <2>1, <2>2, <2>3, <2>4, GoToType, TryAgainType DEF TypeOK, flowVars, Message
<1>7. ASSUME NEW p \in Processes, NEW d \in Domains, Publish(p, d) PROVE TypeOK'
  <2>1. Resolve(d) \in KnownTopics
    BY <1>7, ResolvedAreKnown, SpecsAreKnown DEF Publish
  <2>2. messages' \subseteq Message /\ consumed \subseteq messages'
    BY <1>7, <2>1 DEF Publish, TypeOK, Message
  <2> QED
    BY <1>7, <2>2 DEF Publish, TypeOK, procVars
<1>8. ASSUME NEW p \in Processes, NEW m \in messages \ consumed, Consume(p, m) PROVE TypeOK'
  <2>1. m \in Message /\ m.domain \in Domains
    BY DEF TypeOK, Message
  <2>2. p \in Consumers /\ m.topic = ReadTopic[p] /\ consumed' = consumed \cup {m}
    BY <1>8, ConsumeTakes DEF Takes
  <2>3. DLQTopicName(m.topic) \in KnownTopics
    BY <2>2, SpecsOfConsumer, SpecsAreKnown
  <2>4. DeadLetterOf(m) \subseteq Message
    BY <2>1, <2>3 DEF DeadLetterOf, Message
  <2>5. messages' \subseteq Message /\ messages \subseteq messages'
    BY <1>8, <2>4 DEF Consume, IndexMessage, DeadLetter, SkipMessage, TypeOK
  <2>6. consumed' \subseteq messages' /\ skipped' \subseteq consumed'
    BY <1>8, <2>2, <2>5 DEF Consume, IndexMessage, DeadLetter, SkipMessage, TypeOK
  <2>7. docs' \subseteq Domains /\ index' \in {"absent", "canonical", "dynamic"}
    BY <1>8, <2>1 DEF Consume, IndexMessage, DeadLetter, SkipMessage, WriteDoc, TypeOK
  <2>8. UNCHANGED procVars \/ (GoTo(p, "exited") /\ UNCHANGED missing)
    BY <1>8 DEF Consume, IndexMessage, DeadLetter, SkipMessage
  <2>9. /\ stage' \in [Processes -> Stages]
        /\ tries' \in [Processes -> (0 .. TopicAttempts - 1) \cup (0 .. IndexAttempts - 1)]
        /\ missing' \in [Processes -> SUBSET KnownTopics]
    <3>1. "exited" \in Stages
      BY DEF Stages
    <3>. QED
      BY <2>8, <3>1, GoToType DEF TypeOK, procVars
  <2>10. faults' \in 0 .. MaxFaults
    BY <1>8, AttemptsAssumption DEF Consume, IndexMessage, DeadLetter, SkipMessage, TypeOK
  <2>11. UNCHANGED <<table, topics, down>>
    BY <1>8 DEF Consume, IndexMessage, DeadLetter, SkipMessage
  <2>. QED
    BY <2>5, <2>6, <2>7, <2>9, <2>10, <2>11 DEF TypeOK
<1>9. ASSUME NEW p \in Processes, Die(p) \/ Restart(p) PROVE TypeOK'
  <2>1. \E s \in Stages : GoTo(p, s)
    BY <1>9 DEF Die, Restart, FirstStage, Stages
  <2>2. missing' \in [Processes -> SUBSET KnownTopics] /\ faults' \in 0 .. MaxFaults
    BY <1>9, AttemptsAssumption DEF Die, Restart, TypeOK
  <2>3. UNCHANGED <<table, topics, index, down, flowVars>>
    BY <1>9 DEF Die, Restart
  <2> QED
    BY <2>1, <2>2, <2>3, GoToType DEF TypeOK, flowVars, Message
<1>10. ASSUME NEW s \in Servers, Break(s) \/ Recover(s) PROVE TypeOK'
  <2>1. down' \subseteq Servers /\ faults' \in 0 .. MaxFaults
    BY <1>10, AttemptsAssumption DEF Break, Recover, TypeOK
  <2>2. UNCHANGED <<procVars, table, topics, index, flowVars>>
    BY <1>10 DEF Break, Recover
  <2> QED
    BY <2>1, <2>2 DEF TypeOK, procVars, flowVars, Message
<1>11. CASE UNCHANGED vars
  BY <1>11 DEF TypeOK, vars, procVars, flowVars, Message
<1> QED
  BY <1>1, <1>2, <1>3, <1>4, <1>5, <1>6, <1>7, <1>8, <1>9, <1>10, <1>11
  DEF Next, SetUp, Work

\* The state is well-typed.
THEOREM TypeCorrect == Spec => []TypeOK
<1> QED
  BY TypeInit, TypeStep, PTL DEF Spec

-----------------------------------------------------------------------------
\* Nothing that was set up goes away: no step drops a table, a topic or the
\* index, and no consumer writes to an index that is absent.
LEMMA NextGrows == IInv /\ [Next]_vars => Grows
<1> SUFFICES ASSUME IInv, [Next]_vars PROVE Grows
  OBVIOUS
<1> USE DEF Grows, IInv, IndexThere
<1>1. ASSUME NEW p \in Processes, LookForTable(p) \/ CreateTable(p) \/ SchemaFails(p)
      PROVE Grows
  BY <1>1 DEF LookForTable, CreateTable, SchemaFails
<1>2. ASSUME NEW p \in Processes, ListTopics(p) \/ CreateTopics(p) \/ TopicsFail(p)
      PROVE Grows
  BY <1>2 DEF ListTopics, CreateTopics, TopicsFail
<1>3. ASSUME NEW p \in Processes, FindIndex(p) \/ CreateIndex(p) \/ IndexFails(p)
      PROVE Grows
  BY <1>3 DEF FindIndex, CreateIndex, IndexFails
<1>4. ASSUME NEW p \in Processes, NEW d \in Domains, Publish(p, d) PROVE Grows
  BY <1>4 DEF Publish
<1>5. ASSUME NEW p \in Processes, NEW m \in messages \ consumed, Consume(p, m) PROVE Grows
  <2>1. index = "canonical"
    BY <1>5, ConsumeTakes, ProcessesAssumption DEF Takes
  <2> QED
    BY <1>5, <2>1 DEF Consume, IndexMessage, DeadLetter, SkipMessage, WriteDoc
<1>6. ASSUME NEW p \in Processes, Die(p) \/ Restart(p) PROVE Grows
  BY <1>6 DEF Die, Restart
<1>7. ASSUME NEW s \in Servers, Break(s) \/ Recover(s) PROVE Grows
  BY <1>7 DEF Break, Recover
<1>8. CASE UNCHANGED vars
  BY <1>8 DEF vars
<1> QED
  BY <1>1, <1>2, <1>3, <1>4, <1>5, <1>6, <1>7, <1>8 DEF Next, SetUp, Work

\* What IInv says of one process.
Ready(p) ==
    /\ p \notin Consumers /\ stage[p] \notin {"schema", "ddl", "exited"} => table
    /\ stage[p] = "creating" => Specs(p) \ missing[p] \subseteq topics
    /\ stage[p] \in {"index", "mapping", "serving"} => Specs(p) \subseteq topics
    /\ p \notin Replayers /\ stage[p] = "serving" => index = "canonical"

LEMMA ReadyIsIInv == IInv <=> TypeOK /\ index # "dynamic" /\ \A p \in Processes : Ready(p)
  BY DEF IInv, SchemaThere, ListedThere, TopicsThere, IndexThere, Ready

\* A step of others leaves a process ready.
LEMMA OthersStayReady ==
  ASSUME NEW q \in Processes, Ready(q), Grows,
         stage'[q] = stage[q], missing'[q] = missing[q]
  PROVE  Ready(q)'
  BY DEF Ready, Grows

\* So does a process that ends.
LEMMA ExitedIsReady ==
  ASSUME NEW p \in Processes, stage'[p] = "exited"
  PROVE  Ready(p)'
  BY DEF Ready

LEMMA SetUpKeepsReady ==
  ASSUME IInv, Grows, NEW p \in Processes, SetUp(p), TypeOK'
  PROVE  Ready(p)'
<1>0. TypeOK /\ Ready(p) /\ index # "dynamic" /\ index \in {"absent", "canonical", "dynamic"}
  BY ReadyIsIInv DEF TypeOK
<1>1. CASE LookForTable(p)
  <2>1. stage'[p] = IF table THEN SchemaApplied(p) ELSE "ddl"
    BY <1>0, <1>1 DEF LookForTable, GoTo, TypeOK
  <2> QED
    BY <1>1, <2>1, ProcessesAssumption DEF LookForTable, SchemaApplied, Ready, Specs
<1>2. CASE CreateTable(p)
  <2>1. stage'[p] = (IF table THEN "exited" ELSE SchemaApplied(p)) /\ table'
    BY <1>0, <1>2 DEF CreateTable, GoTo, TypeOK
  <2> QED
    BY <2>1, ProcessesAssumption DEF SchemaApplied, Ready, Specs
<1>3. CASE SchemaFails(p)
  BY <1>0, <1>3, ExitedIsReady DEF SchemaFails, GoTo, TypeOK
<1>4. CASE ListTopics(p)
  <2>1. missing'[p] = Specs(p) \ topics /\ topics' = topics /\ table' = table
    BY <1>0, <1>4 DEF ListTopics, TypeOK
  <2>2. stage'[p] = IF Specs(p) \subseteq topics THEN "index" ELSE "creating"
    BY <1>0, <1>4 DEF ListTopics, GoTo, TypeOK
  <2> QED
    BY <1>0, <1>4, <2>1, <2>2 DEF ListTopics, Ready
<1>5. CASE CreateTopics(p)
  <2>1. stage'[p] = "index" /\ topics' = topics \cup missing[p] /\ table' = table
    BY <1>0, <1>5 DEF CreateTopics, GoTo, TypeOK
  <2> QED
    BY <1>0, <1>5, <2>1 DEF CreateTopics, Ready
<1>6. CASE TopicsFail(p)
  <2>1. stage'[p] \in {"topics", "exited"} /\ table' = table
    BY <1>0, <1>6 DEF TopicsFail, TryAgain, GoTo, TypeOK
  <2> QED
    BY <1>0, <1>6, <2>1 DEF TopicsFail, Ready
<1>7. CASE FindIndex(p)
  <2>1. UNCHANGED <<table, topics, index>>
    BY <1>7 DEF FindIndex
  <2>2. \/ stage'[p] \in {"serving", "exited"} /\ index # "absent"
        \/ stage'[p] = "mapping"
    BY <1>0, <1>7 DEF FindIndex, GoTo, Indexed, TypeOK
  <2> QED
    BY <1>0, <1>7, <2>1, <2>2 DEF FindIndex, Ready
<1>8. CASE CreateIndex(p)
  <2>1. UNCHANGED <<table, topics>>
    BY <1>8 DEF CreateIndex
  <2>2. \/ stage'[p] \in {"serving", "exited"} /\ index' = "canonical"
        \/ stage'[p] \in {"index", "exited"}
    BY <1>0, <1>8 DEF CreateIndex, GoTo, TryAgain, Indexed, TypeOK
  <2> QED
    BY <1>0, <1>8, <2>1, <2>2 DEF CreateIndex, Ready
<1>9. CASE IndexFails(p)
  <2>1. stage'[p] \in {"index", "exited"} /\ UNCHANGED <<table, topics>>
    BY <1>0, <1>9 DEF IndexFails, GoTo, TryAgain, TypeOK
  <2> QED
    BY <1>0, <1>9, <2>1 DEF IndexFails, Ready
<1> QED
  BY <1>1, <1>2, <1>3, <1>4, <1>5, <1>6, <1>7, <1>8, <1>9 DEF SetUp

\* The steps of p touch the stage and the missing topics of p alone.
LEMMA OnlyOwnStage ==
  ASSUME TypeOK, NEW p \in Processes, NEW q \in Processes, q # p,
         SetUp(p) \/ Die(p) \/ Restart(p)
  PROVE  stage'[q] = stage[q] /\ missing'[q] = missing[q]
<1>1. CASE LookForTable(p) \/ CreateTable(p) \/ SchemaFails(p)
  BY <1>1 DEF LookForTable, CreateTable, SchemaFails, GoTo, TypeOK
<1>2. CASE ListTopics(p) \/ CreateTopics(p) \/ TopicsFail(p)
  BY <1>2 DEF ListTopics, CreateTopics, TopicsFail, TryAgain, GoTo, TypeOK
<1>3. CASE FindIndex(p) \/ CreateIndex(p) \/ IndexFails(p)
  BY <1>3 DEF FindIndex, CreateIndex, IndexFails, TryAgain, GoTo, TypeOK
<1>4. CASE Die(p) \/ Restart(p)
  BY <1>4 DEF Die, Restart, GoTo, TypeOK
<1> QED
  BY <1>1, <1>2, <1>3, <1>4 DEF SetUp

LEMMA InvInit == Init => IInv
  BY TypeInit DEF Init, IInv, SchemaThere, ListedThere, TopicsThere, IndexThere, FirstStage

LEMMA InvStep == IInv /\ [Next]_vars => IInv'
<1> SUFFICES ASSUME IInv, [Next]_vars PROVE IInv'
  OBVIOUS
<1>0. TypeOK /\ TypeOK' /\ Grows /\ index' # "dynamic"
  BY TypeStep, NextGrows DEF IInv, Grows
<1> SUFFICES ASSUME NEW q \in Processes PROVE Ready(q)'
  BY <1>0 DEF IInv, SchemaThere, ListedThere, TopicsThere, IndexThere, Ready
<1>1. Ready(q)
  BY ReadyIsIInv
<1>2. ASSUME NEW p \in Processes, SetUp(p) PROVE Ready(q)'
  BY <1>0, <1>1, <1>2, SetUpKeepsReady, OnlyOwnStage, OthersStayReady
<1>3. ASSUME NEW p \in Processes, Die(p) \/ Restart(p) PROVE Ready(q)'
  <2>1. CASE p = q
    <3>1. stage'[q] \in {"exited", "schema"} \/ (stage'[q] = "topics" /\ q \in Consumers)
      BY <1>0, <1>3, <2>1 DEF Die, Restart, GoTo, FirstStage, TypeOK
    <3> QED
      BY <3>1 DEF Ready
  <2> QED
    BY <1>0, <1>1, <1>3, <2>1, OnlyOwnStage, OthersStayReady
<1>4. ASSUME UNCHANGED procVars PROVE Ready(q)'
  BY <1>0, <1>1, <1>4, OthersStayReady DEF procVars
<1>5. ASSUME NEW p \in Processes, Work(p) PROVE Ready(q)'
  <2>1. UNCHANGED procVars \/ (GoTo(p, "exited") /\ UNCHANGED missing)
    BY <1>5 DEF Work, Publish, Consume, IndexMessage, DeadLetter, SkipMessage
  <2>2. CASE GoTo(p, "exited") /\ UNCHANGED missing
    <3>1. CASE p = q
      BY <1>0, <2>2, <3>1, ExitedIsReady DEF GoTo, TypeOK
    <3>2. CASE p # q
      BY <1>0, <1>1, <2>2, <3>2, OthersStayReady DEF GoTo, TypeOK
    <3> QED
      BY <3>1, <3>2
  <2> QED
    BY <1>4, <2>1, <2>2
<1>6. ASSUME NEW s \in Servers, Break(s) \/ Recover(s) PROVE UNCHANGED procVars
  BY <1>6 DEF Break, Recover
<1>7. CASE UNCHANGED vars
  BY <1>4, <1>7 DEF vars
<1> QED
  BY <1>2, <1>3, <1>4, <1>5, <1>6, <1>7 DEF Next

\* Whoever serves finds the schema, the topics and the index it uses, whoever
\* of the processes set them up and whatever failed on the way.
THEOREM ServingIsReady == Spec => []ServesOnlyWhenReady
<1>1. IInv => ServesOnlyWhenReady
  <2> SUFFICES ASSUME IInv, NEW p \in Processes, stage[p] = "serving"
               PROVE  /\ p \notin Consumers => table
                      /\ Uses(p) \subseteq topics
                      /\ p \notin Replayers => index = "canonical"
    BY DEF ServesOnlyWhenReady
  <2>1. Ready(p)
    BY ReadyIsIInv
  <2> QED
    BY <2>1, UsesAreSpecs DEF Ready
<1> QED
  BY <1>1, InvInit, InvStep, PTL DEF Spec

-----------------------------------------------------------------------------
\* A message in hand that is neither indexed nor dead-lettered costs a fault,
\* since the dead-letter topic is there by TopicsThere.
LEMMA ConsumeHandles ==
  ASSUME IInv, NEW p \in Processes, NEW m \in messages \ consumed, Consume(p, m)
  PROVE  Handled(m)' \/ faults' > faults
<1>1. p \in Consumers /\ stage[p] = "serving" /\ m.topic = ReadTopic[p]
  BY ConsumeTakes DEF Takes
<1>2. DLQTopicName(m.topic) \in topics
  BY <1>1, SpecsOfConsumer DEF IInv, TopicsThere
<1>3. [domain |-> m.domain, topic |-> DLQTopicName(m.topic)] \in DeadLetterOf(m)
  BY <1>2 DEF DeadLetterOf
<1>4. CASE IndexMessage(p, m)
  BY <1>4 DEF IndexMessage, WriteDoc, Handled
<1>5. CASE DeadLetter(p, m)
  BY <1>3, <1>5 DEF DeadLetter, Handled
<1>6. CASE SkipMessage(p, m)
  <2>1. faults \in Nat
    BY AttemptsAssumption DEF IInv, TypeOK
  <2> QED
    BY <1>3, <1>6, <2>1 DEF SkipMessage
<1> QED
  BY <1>4, <1>5, <1>6 DEF Consume

\* An outage of Elasticsearch alone, however it falls between start-up and
\* work, loses no message that a consumer-service is given.
THEOREM NothingLost == Spec => OutageLosesNothing
<1>1. IInv /\ [Next]_vars => [\A m \in consumed' \ consumed : Handled(m)' \/ faults' > faults]_vars
  <2> SUFFICES ASSUME IInv, [Next]_vars, NEW n \in consumed' \ consumed
               PROVE  Handled(n)' \/ faults' > faults
    OBVIOUS
  <2>1. PICK p \in Processes, m \in messages \ consumed : Consume(p, m)
    <3>1. ASSUME NEW p \in Processes, SetUp(p) PROVE consumed' = consumed
      BY <3>1 DEF SetUp, LookForTable, CreateTable, SchemaFails, ListTopics, CreateTopics,
                  TopicsFail, FindIndex, CreateIndex, IndexFails, flowVars
    <3>2. ASSUME NEW p \in Processes, Die(p) \/ Restart(p) PROVE consumed' = consumed
      BY <3>2 DEF Die, Restart, flowVars
    <3>3. ASSUME NEW s \in Servers, Break(s) \/ Recover(s) PROVE consumed' = consumed
      BY <3>3 DEF Break, Recover, flowVars
    <3>4. ASSUME NEW p \in Processes, NEW d \in Domains, Publish(p, d) PROVE consumed' = consumed
      BY <3>4 DEF Publish
    <3>5. CASE UNCHANGED vars
      BY <3>5 DEF vars, flowVars
    <3> QED
      BY <3>1, <3>2, <3>3, <3>4, <3>5 DEF Next, Work
  <2>2. n = m
    BY <2>1, ConsumeTakes DEF Takes
  <2> QED
    BY <2>1, <2>2, ConsumeHandles
<1> QED
  BY <1>1, InvInit, InvStep, PTL DEF Spec, OutageLosesNothing
=============================================================================
