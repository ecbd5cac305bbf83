----------------------------- MODULE AccessProofs -----------------------------
(***************************************************************************)
(* Proofs for any number of tenants, streams, secrets, tokens and events:  *)
(* tenants stay apart, a follower is whole, and a gap means that the       *)
(* stream is shared.                                                       *)
(*                                                                         *)
(* The first needs that a token carries the tenant of who was given it     *)
(* (TokensOwned).  The others rest on what the versions of a stream are    *)
(* (LogInv): rows of one stream have versions in the order of the rows     *)
(* (VersionsGrow), each but the first follows an earlier row's             *)
(* (HasPredecessors), and each tenant's versions have a highest (HasTop).  *)
(***************************************************************************)
EXTENDS Access, FiniteSetTheorems, TLAPS

\* Version, Own and the length of a stream, of any sequence of rows.
VersionIn(r, i) == Cardinality({j \in 1 .. i : r[j].stream = r[i].stream})
CountIn(r, s) == Cardinality({j \in DOMAIN r : r[j].stream = s})
OwnIn(r, t) == {VersionIn(r, i) : i \in {j \in DOMAIN r : r[j].stream = Followed
                                                          /\ r[j].tenant = t}}

\* m is the highest of the versions in S, or 0 if there is none.
Top(S, m) == m \in S \cup {0} /\ \A w \in S : w <= m

HasPredecessors(r) ==
    \A k \in DOMAIN r : VersionIn(r, k) > 1 =>
       \E j \in DOMAIN r : /\ j < k /\ r[j].stream = r[k].stream
                           /\ VersionIn(r, j) = VersionIn(r, k) - 1

HasLast(r) ==
    \A s \in Streams : CountIn(r, s) > 0 =>
       \E j \in DOMAIN r : r[j].stream = s /\ VersionIn(r, j) = CountIn(r, s)

HasTop(r) == \A t \in Tenants : \E m \in Nat : Top(OwnIn(r, t), m)

LogInv(r) == HasPredecessors(r) /\ HasLast(r) /\ HasTop(r)

TokensOwned == \A k \in tokens : k.tenant = k.holder

GotTop == \A t \in Tenants : \E m \in Nat : Top(got[t], m)

\* FollowerIsWhole, of any sequence of rows and any versions given.
Whole(r, g) == \A t \in Tenants, m \in Nat :
                  Top(g[t], m) => g[t] = {v \in OwnIn(r, t) : v <= m}

ApartInv == TypeOK /\ TokensOwned /\ TenantsApart

IInv == TypeOK /\ LogInv(rows) /\ GotTop /\ Whole(rows, got) /\ GapMeansShared

-----------------------------------------------------------------------------
\* Versions of a sequence of rows.
LEMMA PrefixIsFinite ==
  ASSUME NEW r \in Seq(Row), NEW n \in 0 .. Len(r), NEW s
  PROVE  /\ IsFiniteSet({j \in 1 .. n : r[j].stream = s})
         /\ Cardinality({j \in 1 .. n : r[j].stream = s}) \in 0 .. n
<1>1. IsFiniteSet(1 .. n) /\ Cardinality(1 .. n) = n /\ n \in Nat
  BY FS_Interval
<1>2. {j \in 1 .. n : r[j].stream = s} \in SUBSET (1 .. n)
  OBVIOUS
<1>3. /\ IsFiniteSet({j \in 1 .. n : r[j].stream = s})
      /\ Cardinality({j \in 1 .. n : r[j].stream = s}) <= Cardinality(1 .. n)
  BY <1>1, <1>2, FS_Subset
<1> QED
  BY <1>1, <1>3, FS_CardinalityType

LEMMA CountIsNat ==
  ASSUME NEW r \in Seq(Row), NEW s
  PROVE  CountIn(r, s) \in Nat
<1>1. DOMAIN r = 1 .. Len(r) /\ Len(r) \in 0 .. Len(r)
  OBVIOUS
<1>2. Cardinality({j \in 1 .. Len(r) : r[j].stream = s}) \in 0 .. Len(r)
  BY <1>1, PrefixIsFinite
<1>3. CountIn(r, s) = Cardinality({j \in 1 .. Len(r) : r[j].stream = s})
  BY <1>1 DEF CountIn
<1> QED
  BY <1>1, <1>2, <1>3

LEMMA VersionsType ==
  ASSUME NEW r \in Seq(Row), NEW i \in DOMAIN r
  PROVE  VersionIn(r, i) \in 1 .. i /\ VersionIn(r, i) <= CountIn(r, r[i].stream)
<1> DEFINE S == {j \in 1 .. i : r[j].stream = r[i].stream}
<1> DEFINE A == {j \in 1 .. Len(r) : r[j].stream = r[i].stream}
<1>1. i \in 0 .. Len(r) /\ Len(r) \in 0 .. Len(r) /\ i \in 1 .. i /\ DOMAIN r = 1 .. Len(r)
  OBVIOUS
<1>2. IsFiniteSet(S) /\ Cardinality(S) \in 0 .. i /\ IsFiniteSet(A)
  BY <1>1, PrefixIsFinite
<1>3. S # {}
  BY <1>1
<1>4. Cardinality(S) # 0
  BY <1>2, <1>3, FS_EmptySet
<1>5. S \in SUBSET A
  BY <1>1
<1>6. Cardinality(S) <= Cardinality(A)
  BY <1>2, <1>5, FS_Subset
<1>7. VersionIn(r, i) = Cardinality(S) /\ CountIn(r, r[i].stream) = Cardinality(A)
  BY <1>1 DEF VersionIn, CountIn
<1> HIDE DEF S, A
<1> QED
  BY <1>1, <1>2, <1>4, <1>6, <1>7

LEMMA VersionsGrow ==
  ASSUME NEW r \in Seq(Row), NEW i \in DOMAIN r, NEW k \in DOMAIN r,
         i < k, r[i].stream = r[k].stream
  PROVE  VersionIn(r, i) < VersionIn(r, k)
<1> DEFINE S == {j \in 1 .. i : r[j].stream = r[i].stream}
<1> DEFINE T == {j \in 1 .. k : r[j].stream = r[k].stream}
<1>1. i \in 0 .. Len(r) /\ k \in 0 .. Len(r) /\ k \in 1 .. k
  OBVIOUS
<1>2a. IsFiniteSet(S) /\ Cardinality(S) \in 0 .. i
  BY <1>1, PrefixIsFinite
<1>2b. IsFiniteSet(T) /\ Cardinality(T) \in 0 .. k
  BY <1>1, PrefixIsFinite
<1>2. IsFiniteSet(S) /\ IsFiniteSet(T) /\ Cardinality(S) \in Nat /\ Cardinality(T) \in Nat
  BY <1>1, <1>2a, <1>2b
<1>3. S \cup {k} \in SUBSET T /\ k \notin S
  BY <1>1
<1>4. Cardinality(S \cup {k}) = Cardinality(S) + 1
  BY <1>2, <1>3, FS_AddElement
<1>5. Cardinality(S \cup {k}) <= Cardinality(T)
  BY <1>2, <1>3, FS_Subset
<1> QED
  BY <1>2, <1>4, <1>5 DEF VersionIn

-----------------------------------------------------------------------------
\* What one more row changes.
LEMMA AppendVersions ==
  ASSUME NEW r \in Seq(Row), NEW e \in Row, NEW i \in DOMAIN r
  PROVE  VersionIn(Append(r, e), i) = VersionIn(r, i)
<1>1. \A j \in 1 .. i : Append(r, e)[j] = r[j]
  OBVIOUS
<1>2. i \in 1 .. i
  OBVIOUS
<1>3. {j \in 1 .. i : Append(r, e)[j].stream = Append(r, e)[i].stream}
        = {j \in 1 .. i : r[j].stream = r[i].stream}
  BY <1>1, <1>2
<1> QED
  BY <1>3 DEF VersionIn

LEMMA AppendCount ==
  ASSUME NEW r \in Seq(Row), NEW e \in Row, NEW s
  PROVE  CountIn(Append(r, e), s)
           = IF e.stream = s THEN CountIn(r, s) + 1 ELSE CountIn(r, s)
<1> DEFINE q == Append(r, e)
<1> DEFINE n == Len(r) + 1
<1> DEFINE S == {j \in DOMAIN r : r[j].stream = s}
<1>1. /\ DOMAIN r = 1 .. Len(r) /\ DOMAIN q = DOMAIN r \cup {n} /\ q[n] = e
      /\ \A j \in DOMAIN r : q[j] = r[j]
  OBVIOUS
<1>2. IsFiniteSet(S) /\ n \notin S
  <2>1. S = {j \in 1 .. Len(r) : r[j].stream = s} /\ Len(r) \in 0 .. Len(r)
    BY <1>1
  <2>2. IsFiniteSet({j \in 1 .. Len(r) : r[j].stream = s})
    BY <2>1, PrefixIsFinite
  <2> QED
    BY <1>1, <2>1, <2>2
<1>3. Cardinality(S \cup {n}) = Cardinality(S) + 1
  BY <1>2, FS_AddElement
<1>4. {j \in DOMAIN q : q[j].stream = s} = IF e.stream = s THEN S \cup {n} ELSE S
  BY <1>1
<1> HIDE DEF S, q, n
<1>5. CountIn(q, s) = Cardinality({j \in DOMAIN q : q[j].stream = s})
      /\ CountIn(r, s) = Cardinality(S)
  BY DEF CountIn, S
<1> QED
  BY <1>3, <1>4, <1>5 DEF q

LEMMA AppendedVersion ==
  ASSUME NEW r \in Seq(Row), NEW e \in Row
  PROVE  VersionIn(Append(r, e), Len(r) + 1) = CountIn(r, e.stream) + 1
<1> DEFINE q == Append(r, e)
<1>1. DOMAIN q = 1 .. (Len(r) + 1) /\ q[Len(r) + 1] = e
  OBVIOUS
<1>2. VersionIn(q, Len(r) + 1) = CountIn(q, e.stream)
  BY <1>1 DEF VersionIn, CountIn
<1> QED
  BY <1>2, AppendCount

LEMMA AppendOwn ==
  ASSUME NEW r \in Seq(Row), NEW e \in Row, NEW t
  PROVE  OwnIn(Append(r, e), t)
           = IF e.stream = Followed /\ e.tenant = t
             THEN OwnIn(r, t) \cup {CountIn(r, Followed) + 1} ELSE OwnIn(r, t)
<1> DEFINE q == Append(r, e)
<1> DEFINE n == Len(r) + 1
<1> DEFINE R == {j \in DOMAIN r : r[j].stream = Followed /\ r[j].tenant = t}
<1> DEFINE Q == {j \in DOMAIN q : q[j].stream = Followed /\ q[j].tenant = t}
<1>1. /\ DOMAIN q = DOMAIN r \cup {n} /\ q[n] = e
      /\ \A j \in DOMAIN r : q[j] = r[j]
  OBVIOUS
<1>2. Q = IF e.stream = Followed /\ e.tenant = t THEN R \cup {n} ELSE R
  BY <1>1
<1>3. \A i \in R : VersionIn(q, i) = VersionIn(r, i)
  BY AppendVersions
<1>4. e.stream = Followed => VersionIn(q, n) = CountIn(r, Followed) + 1
  BY AppendedVersion
<1>5. OwnIn(q, t) = {VersionIn(q, i) : i \in Q} /\ OwnIn(r, t) = {VersionIn(r, i) : i \in R}
  BY DEF OwnIn
<1> HIDE DEF q, n, R, Q
<1> QED
  BY <1>2, <1>3, <1>4, <1>5 DEF q

LEMMA OwnBounds ==
  ASSUME NEW r \in Seq(Row), NEW t, NEW v \in OwnIn(r, t)
  PROVE  v \in 1 .. Len(r) /\ v <= CountIn(r, Followed)
<1>1. PICK i \in DOMAIN r : r[i].stream = Followed /\ v = VersionIn(r, i)
  BY DEF OwnIn
<1>2. v \in 1 .. i /\ v <= CountIn(r, Followed)
  BY <1>1, VersionsType
<1> QED
  BY <1>2

LEMMA LogInvEmpty == LogInv(<<>>)
<1>1. DOMAIN <<>> = {} /\ <<>> \in Seq(Row)
  OBVIOUS
<1>2. \A s : CountIn(<<>>, s) = 0
  BY <1>1, FS_EmptySet DEF CountIn
<1>3. \A t : OwnIn(<<>>, t) = {}
  BY <1>1 DEF OwnIn
<1>4. \A t : Top(OwnIn(<<>>, t), 0)
  BY <1>3 DEF Top
<1> QED
  BY <1>1, <1>2, <1>4 DEF LogInv, HasPredecessors, HasLast, HasTop

LEMMA LogInvAppend ==
  ASSUME NEW r \in Seq(Row), NEW e \in Row, LogInv(r)
  PROVE  LogInv(Append(r, e))
<1> DEFINE q == Append(r, e)
<1> DEFINE n == Len(r) + 1
<1>1. /\ q \in Seq(Row) /\ DOMAIN q = DOMAIN r \cup {n} /\ q[n] = e
      /\ \A j \in DOMAIN r : q[j] = r[j] /\ j \in Nat /\ j < n
      /\ n \in Nat /\ e.stream \in Streams
  BY DEF Row
<1>2. \A j \in DOMAIN r : VersionIn(q, j) = VersionIn(r, j)
  BY AppendVersions
<1>3. VersionIn(q, n) = CountIn(r, e.stream) + 1
  BY AppendedVersion
<1>4. \A s : CountIn(r, s) \in Nat
  BY CountIsNat
<1>5. \A s : CountIn(q, s) = IF e.stream = s THEN CountIn(r, s) + 1 ELSE CountIn(r, s)
  BY AppendCount
<1>6. \A t : OwnIn(q, t) = IF e.stream = Followed /\ e.tenant = t
             THEN OwnIn(r, t) \cup {CountIn(r, Followed) + 1} ELSE OwnIn(r, t)
  BY AppendOwn
<1>7. HasPredecessors(r) /\ HasLast(r) /\ HasTop(r)
  BY DEF LogInv
<1> HIDE DEF q, n
<1>8. HasPredecessors(q)
  <2> SUFFICES ASSUME NEW k \in DOMAIN q, VersionIn(q, k) > 1
               PROVE  \E j \in DOMAIN q : /\ j < k /\ q[j].stream = q[k].stream
                                          /\ VersionIn(q, j) = VersionIn(q, k) - 1
    BY DEF HasPredecessors
  <2>1. CASE k \in DOMAIN r
    <3>1. PICK j \in DOMAIN r : /\ j < k /\ r[j].stream = r[k].stream
                                /\ VersionIn(r, j) = VersionIn(r, k) - 1
      BY <1>2, <1>7, <2>1 DEF HasPredecessors
    <3> QED
      BY <1>1, <1>2, <2>1, <3>1
  <2>2. CASE k = n
    <3>1. CountIn(r, e.stream) > 0
      BY <1>3, <1>4, <2>2
    <3>2. PICK j \in DOMAIN r : r[j].stream = e.stream /\ VersionIn(r, j) = CountIn(r, e.stream)
      BY <1>1, <1>7, <3>1 DEF HasLast
    <3> QED
      BY <1>1, <1>2, <1>3, <1>4, <2>2, <3>2
  <2> QED
    BY <1>1, <2>1, <2>2
<1>9. HasLast(q)
  <2> SUFFICES ASSUME NEW s \in Streams, CountIn(q, s) > 0
               PROVE  \E j \in DOMAIN q : q[j].stream = s /\ VersionIn(q, j) = CountIn(q, s)
    BY DEF HasLast
  <2>1. CASE s = e.stream
    BY <1>1, <1>3, <1>5, <2>1
  <2>2. CASE s # e.stream
    <3>1. PICK j \in DOMAIN r : r[j].stream = s /\ VersionIn(r, j) = CountIn(r, s)
      BY <1>5, <1>7, <2>2 DEF HasLast
    <3> QED
      BY <1>1, <1>2, <1>5, <2>2, <3>1
  <2> QED
    BY <2>1, <2>2
<1>10. HasTop(q)
  <2> SUFFICES ASSUME NEW t \in Tenants PROVE \E m \in Nat : Top(OwnIn(q, t), m)
    BY DEF HasTop
  <2>1. CASE e.stream = Followed /\ e.tenant = t
    <3>1. \A v \in OwnIn(r, t) : v \in Nat /\ v <= CountIn(r, Followed)
      BY OwnBounds
    <3>2. Top(OwnIn(q, t), CountIn(r, Followed) + 1)
      BY <1>4, <1>6, <2>1, <3>1 DEF Top
    <3> QED
      BY <1>4, <3>2
  <2>2. CASE ~ (e.stream = Followed /\ e.tenant = t)
    BY <1>6, <1>7, <2>2 DEF HasTop
  <2> QED
    BY <2>1, <2>2
<1> QED
  BY <1>8, <1>9, <1>10 DEF LogInv, q

-----------------------------------------------------------------------------
\* Identities and answers.
LEMMA IdentityType ==
  ASSUME TypeOK, NEW c \in Credentials, Authenticated(c)
  PROVE  Authenticate(c) \in Tenants /\ Holder(c) \in Tenants
<1>1. env.mode \in {"none", "simple", "jwt"} /\ tokens \subseteq Token
  BY DEF TypeOK, Environments
<1>2. CASE env.mode # "jwt"
  BY <1>1, <1>2, TenantsAssumption DEF Authenticated, Authenticate, Holder
<1>3. CASE env.mode = "jwt"
  <2>1. c \in tokens /\ Authenticate(c) = c.tenant /\ Holder(c) = c.holder
    BY <1>3 DEF Authenticated, Authenticate, Holder
  <2> QED
    BY <1>1, <2>1 DEF Token
<1> QED
  BY <1>2, <1>3

\* A caller acts for its own tenant.
LEMMA IdentityIsHolder ==
  ASSUME TypeOK, TokensOwned, NEW c \in Credentials, Authenticated(c)
  PROVE  Authenticate(c) = Holder(c)
<1>1. env.mode \in {"none", "simple", "jwt"}
  BY DEF TypeOK, Environments
<1>2. CASE env.mode # "jwt"
  BY <1>1, <1>2 DEF Authenticated, Authenticate, Holder
<1>3. CASE env.mode = "jwt"
  BY <1>3 DEF Authenticated, Authenticate, Holder, TokensOwned
<1> QED
  BY <1>2, <1>3

LEMMA ReplyType ==
  ASSUME NEW s \in Statuses, NEW t \in Tenants \cup {NoTenant},
         NEW h \in Tenants \cup {NoTenant}, NEW ids \in SUBSET (1 .. MaxRows),
         Reply(s, t, h, ids)
  PROVE  answer' \in Answer /\ answer'.rows = ids /\ answer'.holder = h
  BY DEF Reply, Answer

LEMMA RowIds ==
  ASSUME TypeOK
  PROVE  /\ rows \in Seq(Row) /\ DOMAIN rows = 1 .. Len(rows)
         /\ DOMAIN rows \subseteq 1 .. MaxRows /\ Len(rows) \in Nat
  BY TenantsAssumption DEF TypeOK

LEMMA VersionsAreIn ==
  /\ \A i : Version(i) = VersionIn(rows, i)
  /\ \A t : Own(t) = OwnIn(rows, t)
<1>1. \A i : Version(i) = VersionIn(rows, i)
  BY DEF Version, VersionIn
<1> QED
  BY <1>1 DEF Own, OwnIn

LEMMA OwnType == TypeOK => \A t : Own(t) \subseteq 1 .. MaxRows
<1> SUFFICES ASSUME TypeOK, NEW t, NEW v \in Own(t) PROVE v \in 1 .. MaxRows
  OBVIOUS
<1>1. v \in 1 .. Len(rows)
  BY VersionsAreIn, RowIds, OwnBounds
<1> QED
  BY <1>1, RowIds, TenantsAssumption DEF TypeOK

-----------------------------------------------------------------------------
LEMMA TypeInit == Init => TypeOK
<1> SUFFICES ASSUME Init PROVE TypeOK
  OBVIOUS
<1>1. answer \in Answer
  BY DEF Init, Answer, Statuses
<1>2. rows \in Seq(Row) /\ Len(rows) <= MaxRows
  BY TenantsAssumption DEF Init
<1> QED
  BY <1>1, <1>2 DEF Init, TypeOK

\* Every request but a write of an event leaves the events alone; what it
\* changes is typed.
LEMMA TypeStep == TypeOK /\ [Next]_vars => TypeOK'
<1> SUFFICES ASSUME TypeOK, [Next]_vars PROVE TypeOK'
  OBVIOUS
<1> USE RowIds
<1>0. /\ {"ok", "created", "unauthorized", "bad request", "not found",
          "not implemented", "query failed", "data loss"} \subseteq Statuses
      /\ {} \in SUBSET (1 .. MaxRows)
  BY DEF Statuses
<1>1. ASSUME NEW ids \in SUBSET DOMAIN rows, NEW s \in Statuses,
             NEW t \in Tenants \cup {NoTenant}, NEW h \in Tenants \cup {NoTenant},
             Reply(s, t, h, ids), tokens' \subseteq Token,
             UNCHANGED <<env, rows, got, gap>>
      PROVE  TypeOK'
  <2>1. answer' \in Answer /\ answer'.rows = ids
    BY <1>1, ReplyType
  <2> QED
    BY <1>1, <2>1 DEF TypeOK
<1>2. ASSUME NEW c \in Credentials, Request(c) PROVE TypeOK'
  <2>1. CASE Unauthorized(c)
    BY <1>0, <1>1, <2>1 DEF Unauthorized, TypeOK
  <2>2. CASE AuthToken(c)
    BY <1>0, <1>1, <2>2, IdentityType DEF AuthToken, TypeOK
  <2>3. CASE AuthIssue(c)
    <3>1. Authenticate(c) \in Tenants /\ Holder(c) \in Tenants
      BY <2>3, IdentityType DEF AuthIssue
    <3>2. env.secret # NoSecret => env.secret \in Secrets
      BY DEF TypeOK, Environments
    <3>3. tokens' \subseteq Token
      <4>1. CASE env.secret = NoSecret
        BY <2>3, <4>1 DEF AuthIssue, TypeOK
      <4>2. CASE env.secret # NoSecret
        <5>1. [tenant |-> Authenticate(c), holder |-> Holder(c), secret |-> env.secret] \in Token
          BY <3>1, <3>2, <4>2 DEF Token
        <5> QED
          BY <2>3, <4>2, <5>1 DEF AuthIssue, TypeOK
      <4> QED
        BY <4>1, <4>2
    <3>4. \E s \in Statuses : Reply(s, Authenticate(c), Holder(c), {})
      BY <1>0, <2>3 DEF AuthIssue
    <3> QED
      BY <1>0, <1>1, <2>3, <3>1, <3>3, <3>4 DEF AuthIssue
  <2>4. ASSUME NEW s \in Streams, Ingest(c, s) PROVE TypeOK'
    <3> DEFINE e == [tenant |-> Authenticate(c), holder |-> Holder(c), stream |-> s]
    <3>1. Authenticate(c) \in Tenants /\ Holder(c) \in Tenants
      BY <2>4, IdentityType DEF Ingest
    <3>2. e \in Row /\ rows' = Append(rows, e)
      BY <2>4, <3>1 DEF Ingest, Row
    <3>3. /\ rows' \in Seq(Row) /\ Len(rows') = Len(rows) + 1
          /\ DOMAIN rows' = 1 .. Len(rows) + 1
      BY <3>2
    <3>4. Len(rows) + 1 <= MaxRows
      BY <2>4, TenantsAssumption DEF Ingest
    <3>5. {Len(rows) + 1} \in SUBSET (1 .. MaxRows)
      BY <3>4, TenantsAssumption
    <3>6. answer' \in Answer /\ answer'.rows = {Len(rows) + 1}
      BY <1>0, <2>4, <3>1, <3>5, ReplyType DEF Ingest
    <3> QED
      BY <2>4, <3>3, <3>4, <3>6 DEF Ingest, TypeOK
  <2>5. ASSUME NEW i \in 1 .. MaxRows, GetByID(c, i) PROVE TypeOK'
    <3>1. Authenticate(c) \in Tenants /\ Holder(c) \in Tenants
      BY <2>5, IdentityType DEF GetByID
    <3>2. CASE i \in DOMAIN rows /\ rows[i].tenant = Authenticate(c)
      BY <1>0, <1>1, <2>5, <3>1, <3>2 DEF GetByID, TypeOK
    <3>3. CASE ~ (i \in DOMAIN rows /\ rows[i].tenant = Authenticate(c))
      BY <1>0, <1>1, <2>5, <3>1, <3>3 DEF GetByID, TypeOK
    <3> QED
      BY <3>2, <3>3
  <2>6. ASSUME NEW found \in SUBSET DOMAIN rows, List(c, found) PROVE TypeOK'
    <3>1. Authenticate(c) \in Tenants /\ Holder(c) \in Tenants
      BY <2>6, IdentityType DEF List
    <3>2. {i \in found : rows[i].tenant = Authenticate(c)} \in SUBSET DOMAIN rows
      OBVIOUS
    <3> QED
      BY <1>0, <1>1, <2>6, <3>1, <3>2 DEF List, TypeOK
  <2>7. CASE GetByStream(c)
    <3>1. (IF Authenticated(c) THEN Holder(c) ELSE NoTenant) \in Tenants \cup {NoTenant}
      BY IdentityType
    <3> QED
      BY <1>0, <1>1, <2>7, <3>1 DEF GetByStream, TypeOK
  <2> QED
    BY <1>2, <2>1, <2>2, <2>3, <2>4, <2>5, <2>6, <2>7 DEF Request
<1>3. ASSUME NEW t \in Tenants, CreateTenant(t) PROVE TypeOK'
  <2>1. env.secret # NoSecret => env.secret \in Secrets
    BY DEF TypeOK, Environments
  <2>2. tokens' \subseteq Token
    BY <1>3, <2>1 DEF CreateTenant, TypeOK, Token
  <2>3. Reply("created", t, t, {}) \/ Reply("created", Default, Default, {})
    BY <1>3 DEF CreateTenant
  <2> QED
    BY <1>0, <1>1, <1>3, <2>2, <2>3, TenantsAssumption DEF CreateTenant
<1>4. ASSUME NEW t \in Tenants, Follow(t) PROVE TypeOK'
  <2>1. \A v : FromVersion(t, v) \subseteq 1 .. MaxRows
    BY OwnType DEF FromVersion
  <2>2. got' \in [Tenants -> SUBSET (1 .. MaxRows)]
    BY <1>4, <2>1 DEF Follow, TypeOK
  <2> QED
    BY <1>4, <2>2 DEF Follow, TypeOK
<1>5. ASSUME RefuseTenant \/ GrpcReplay PROVE TypeOK'
  <2>1. \E s \in Statuses : Reply(s, NoTenant, NoTenant, {})
    BY <1>0, <1>5 DEF RefuseTenant, GrpcReplay
  <2> QED
    BY <1>0, <1>1, <1>5, <2>1 DEF RefuseTenant, GrpcReplay, TypeOK
<1>6. ASSUME NEW e \in Environments, Restart(e) PROVE TypeOK'
  BY <1>6 DEF Restart, TypeOK
<1>7. ASSUME NEW k \in tokens, Expire(k) PROVE TypeOK'
  BY <1>7 DEF Expire, TypeOK
<1>8. CASE UNCHANGED vars
  BY <1>8 DEF vars, TypeOK
<1> QED
  BY <1>2, <1>3, <1>4, <1>5, <1>6, <1>7, <1>8 DEF Next

\* The state is well-typed.
THEOREM TypeCorrect == Spec => []TypeOK
<1> QED
  BY TypeInit, TypeStep, PTL DEF Spec

-----------------------------------------------------------------------------
\* Tenants stay apart.
LEMMA NoRowsApart ==
  ASSUME TenantsApart, NEW s, NEW t, NEW h, Reply(s, t, h, {}), rows' = rows
  PROVE  TenantsApart'
<1>1. answer'.rows = {}
  BY DEF Reply
<1> QED
  BY <1>1 DEF TenantsApart

\* An answer with rows of the caller's tenant.
LEMMA OwnRowsApart ==
  ASSUME ApartInv, NEW c \in Credentials, Authenticated(c), NEW s,
         NEW ids \in SUBSET DOMAIN rows, \A i \in ids : rows[i].tenant = Authenticate(c),
         Reply(s, Authenticate(c), Holder(c), ids), rows' = rows
  PROVE  TenantsApart'
<1>1. answer'.rows = ids /\ answer'.holder = Holder(c)
  BY DEF Reply
<1>2. Authenticate(c) = Holder(c)
  BY IdentityIsHolder DEF ApartInv
<1> QED
  BY <1>1, <1>2 DEF TenantsApart, ApartInv

LEMMA ApartStep == ApartInv /\ [Next]_vars => ApartInv'
<1> SUFFICES ASSUME ApartInv, [Next]_vars PROVE TokensOwned' /\ TenantsApart'
  BY TypeStep DEF ApartInv
<1>0. TypeOK /\ TokensOwned /\ TenantsApart
  BY DEF ApartInv
<1>1. ASSUME NEW c \in Credentials, Request(c) PROVE TokensOwned' /\ TenantsApart'
  <2>0. Authenticated(c) => Authenticate(c) = Holder(c)
    BY <1>0, IdentityIsHolder
  <2>1. CASE Unauthorized(c) \/ AuthToken(c) \/ GetByStream(c)
    <3>1. \E s, t, h : Reply(s, t, h, {})
      BY <2>1 DEF Unauthorized, AuthToken, GetByStream
    <3>2. rows' = rows /\ tokens' = tokens
      BY <2>1 DEF Unauthorized, AuthToken, GetByStream
    <3> QED
      BY <1>0, <3>1, <3>2, NoRowsApart DEF TokensOwned
  <2>2. CASE AuthIssue(c)
    <3>1. \E s, t, h : Reply(s, t, h, {})
      BY <2>2 DEF AuthIssue
    <3>2. rows' = rows
      BY <2>2 DEF AuthIssue
    <3>3. TokensOwned'
      <4> DEFINE k == [tenant |-> Authenticate(c), holder |-> Holder(c), secret |-> env.secret]
      <4>1. tokens' = tokens \/ tokens' = tokens \cup {k}
        BY <2>2 DEF AuthIssue
      <4>2. k.tenant = k.holder
        BY <2>0, <2>2 DEF AuthIssue
      <4> HIDE DEF k
      <4> QED
        BY <1>0, <4>1, <4>2 DEF TokensOwned
    <3> QED
      BY <1>0, <3>1, <3>2, <3>3, NoRowsApart
  <2>3. ASSUME NEW s \in Streams, Ingest(c, s) PROVE TokensOwned' /\ TenantsApart'
    <3> DEFINE e == [tenant |-> Authenticate(c), holder |-> Holder(c), stream |-> s]
    <3> DEFINE n == Len(rows) + 1
    <3>1. e.tenant = e.holder /\ e.holder = Holder(c)
      BY <2>0, <2>3 DEF Ingest
    <3>2. rows' = Append(rows, e) /\ rows \in Seq(Row)
      BY <1>0, <2>3 DEF Ingest, TypeOK
    <3>3. /\ DOMAIN rows' = DOMAIN rows \cup {n} /\ rows'[n] = e
          /\ \A j \in DOMAIN rows : rows'[j] = rows[j]
      BY <3>2
    <3>4. answer'.rows = {n} /\ answer'.holder = Holder(c) /\ tokens' = tokens
      BY <2>3 DEF Ingest, Reply
    <3> HIDE DEF e, n
    <3> QED
      BY <1>0, <3>1, <3>3, <3>4 DEF TenantsApart, TokensOwned
  <2>4. ASSUME NEW i \in 1 .. MaxRows, GetByID(c, i) PROVE TokensOwned' /\ TenantsApart'
    <3>1. rows' = rows /\ tokens' = tokens /\ Authenticated(c)
      BY <2>4 DEF GetByID
    <3>2. CASE i \in DOMAIN rows /\ rows[i].tenant = Authenticate(c)
      <4>1. Reply("ok", Authenticate(c), Holder(c), {i}) /\ {i} \in SUBSET DOMAIN rows
        BY <2>4, <3>2 DEF GetByID
      <4> QED
        BY <1>0, <3>1, <3>2, <4>1, OwnRowsApart DEF TokensOwned
    <3>3. CASE ~ (i \in DOMAIN rows /\ rows[i].tenant = Authenticate(c))
      <4>1. Reply("not found", Authenticate(c), Holder(c), {})
        BY <2>4, <3>3 DEF GetByID
      <4> QED
        BY <1>0, <3>1, <4>1, NoRowsApart DEF TokensOwned
    <3> QED
      BY <3>2, <3>3
  <2>5. ASSUME NEW found \in SUBSET DOMAIN rows, List(c, found)
        PROVE  TokensOwned' /\ TenantsApart'
    <3> DEFINE ids == {i \in found : rows[i].tenant = Authenticate(c)}
    <3>1. rows' = rows /\ tokens' = tokens /\ Authenticated(c)
      BY <2>5 DEF List
    <3>2. Reply("ok", Authenticate(c), Holder(c), ids)
      BY <2>5 DEF List
    <3>3. ids \in SUBSET DOMAIN rows /\ \A i \in ids : rows[i].tenant = Authenticate(c)
      OBVIOUS
    <3> HIDE DEF ids
    <3> QED
      BY <1>0, <3>1, <3>2, <3>3, OwnRowsApart DEF TokensOwned
  <2> QED
    BY <1>1, <2>1, <2>2, <2>3, <2>4, <2>5 DEF Request
<1>2. ASSUME NEW t \in Tenants, CreateTenant(t) PROVE TokensOwned' /\ TenantsApart'
  <2>1. \E s, u, h : Reply(s, u, h, {})
    BY <1>2 DEF CreateTenant
  <2>2. rows' = rows /\ TokensOwned'
    BY <1>0, <1>2 DEF CreateTenant, TokensOwned
  <2> QED
    BY <1>0, <2>1, <2>2, NoRowsApart
<1>3. ASSUME RefuseTenant \/ GrpcReplay PROVE TokensOwned' /\ TenantsApart'
  <2>1. \E s : Reply(s, NoTenant, NoTenant, {})
    BY <1>3 DEF RefuseTenant, GrpcReplay
  <2>2. rows' = rows /\ tokens' = tokens
    BY <1>3 DEF RefuseTenant, GrpcReplay
  <2> QED
    BY <1>0, <2>1, <2>2, NoRowsApart DEF TokensOwned
<1>4. ASSUME NEW t \in Tenants, Follow(t) PROVE TokensOwned' /\ TenantsApart'
  BY <1>0, <1>4 DEF Follow, TokensOwned, TenantsApart
<1>5. ASSUME NEW e \in Environments, Restart(e) PROVE TokensOwned' /\ TenantsApart'
  BY <1>0, <1>5 DEF Restart, TokensOwned, TenantsApart
<1>6. ASSUME NEW k \in tokens, Expire(k) PROVE TokensOwned' /\ TenantsApart'
  BY <1>0, <1>6 DEF Expire, TokensOwned, TenantsApart
<1>7. CASE UNCHANGED vars
  BY <1>0, <1>7 DEF vars, TokensOwned, TenantsApart
<1> QED
  BY <1>1, <1>2, <1>3, <1>4, <1>5, <1>6, <1>7 DEF Next

\* An event is stored for, and answered to, the caller's tenant only, along
\* any chain of tokens and whatever mode and secret the server is given.
THEOREM TenantsStayApart == Spec => []TenantsApart
<1>1. Init => ApartInv
  BY TypeInit DEF Init, ApartInv, TokensOwned, TenantsApart
<1>2. ApartInv => TenantsApart
  BY DEF ApartInv
<1> QED
  BY <1>1, <1>2, ApartStep, PTL DEF Spec

-----------------------------------------------------------------------------
\* The follower of a stream.
LEMMA PositionIsTop ==
  ASSUME NEW t, got[t] \subseteq Nat, NEW m \in Nat, Top(got[t], m)
  PROVE  Position(t) = m
<1> DEFINE P(v) == \A w \in got[t] : w <= v
<1>1. m \in got[t] \cup {0} /\ P(m)
  BY DEF Top
<1>2. Position(t) \in got[t] \cup {0} /\ P(Position(t))
  BY <1>1 DEF Position
<1> QED
  BY <1>1, <1>2

LEMMA WholeIs ==
  ASSUME TypeOK, GotTop, Whole(rows, got)
  PROVE  FollowerIsWhole
<1> SUFFICES ASSUME NEW t \in Tenants
             PROVE  got[t] = {v \in Own(t) : v <= Position(t)}
  BY DEF FollowerIsWhole
<1>1. PICK m \in Nat : Top(got[t], m)
  BY DEF GotTop
<1>2. Position(t) = m
  BY <1>1, PositionIsTop DEF TypeOK
<1> QED
  BY <1>1, <1>2, VersionsAreIn DEF Whole

\* A new row is above all that its tenant was given.
LEMMA WriteStaysWhole ==
  ASSUME TypeOK, GotTop, Whole(rows, got), NEW e \in Row
  PROVE  Whole(Append(rows, e), got)
<1> SUFFICES ASSUME NEW t \in Tenants, NEW m \in Nat, Top(got[t], m)
             PROVE  got[t] = {v \in OwnIn(Append(rows, e), t) : v <= m}
  BY DEF Whole
<1>1. got[t] = {v \in OwnIn(rows, t) : v <= m}
  BY DEF Whole
<1>2. rows \in Seq(Row) /\ CountIn(rows, Followed) \in Nat
  BY CountIsNat DEF TypeOK
<1>3. \A v \in OwnIn(rows, t) : v \in Nat /\ v <= CountIn(rows, Followed)
  BY <1>2, OwnBounds
<1>4. m <= CountIn(rows, Followed)
  BY <1>1, <1>2, <1>3 DEF Top
<1>5. OwnIn(Append(rows, e), t) = IF e.stream = Followed /\ e.tenant = t
        THEN OwnIn(rows, t) \cup {CountIn(rows, Followed) + 1} ELSE OwnIn(rows, t)
  BY <1>2, AppendOwn
<1> QED
  BY <1>1, <1>2, <1>4, <1>5

\* An answer without a gap completes what the follower has.
LEMMA AnswerCompletes ==
  ASSUME IInv, NEW t \in Tenants
  PROVE  got[t] \cup FromVersion(t, IF got[t] = {} THEN 0 ELSE Position(t) + 1) = Own(t)
<1>1. PICK m \in Nat : Top(got[t], m)
  BY DEF IInv, GotTop
<1>2. Position(t) = m
  BY <1>1, PositionIsTop DEF IInv, TypeOK
<1>3. got[t] = {v \in Own(t) : v <= m}
  BY <1>1, VersionsAreIn DEF IInv, Whole
<1>4. \A v \in Own(t) : v \in Nat
  BY OwnType, TenantsAssumption DEF IInv
<1> QED
  BY <1>2, <1>3, <1>4 DEF FromVersion

\* Two of a tenant's versions with another between them: another tenant's row.
LEMMA GapIsShared ==
  ASSUME IInv, NEW t \in Tenants, NEW from \in Nat, ~ Contiguous(FromVersion(t, from))
  PROVE  \E i, j, k \in DOMAIN rows :
            /\ i < j /\ j < k
            /\ OnFollowed(i) /\ rows[i].tenant = t
            /\ OnFollowed(j) /\ rows[j].tenant # t
            /\ OnFollowed(k) /\ rows[k].tenant = t
<1>0. rows \in Seq(Row) /\ HasPredecessors(rows) /\ DOMAIN rows = 1 .. Len(rows)
  BY RowIds DEF IInv, LogInv
<1>1. PICK u \in FromVersion(t, from), w \in FromVersion(t, from) :
         u < w /\ w - 1 \notin FromVersion(t, from)
  BY DEF Contiguous
<1>2. u \in Own(t) /\ u >= from /\ w \in Own(t)
  BY DEF FromVersion
<1>3. PICK i \in DOMAIN rows : OnFollowed(i) /\ rows[i].tenant = t /\ u = VersionIn(rows, i)
  BY <1>2, VersionsAreIn DEF OwnIn, OnFollowed
<1>4. PICK k \in DOMAIN rows : OnFollowed(k) /\ rows[k].tenant = t /\ w = VersionIn(rows, k)
  BY <1>2, VersionsAreIn DEF OwnIn, OnFollowed
<1>5. u \in Nat \ {0} /\ w \in Nat
  BY <1>0, <1>3, <1>4, VersionsType
<1>6. PICK j \in DOMAIN rows : /\ j < k /\ rows[j].stream = rows[k].stream
                               /\ VersionIn(rows, j) = w - 1
  BY <1>0, <1>1, <1>4, <1>5 DEF HasPredecessors
<1>7. rows[j].tenant # t
  <2> SUFFICES ASSUME rows[j].tenant = t PROVE FALSE
    OBVIOUS
  <2>1. w - 1 \in Own(t)
    BY <1>4, <1>6, VersionsAreIn DEF OwnIn, OnFollowed
  <2> QED
    BY <1>1, <1>2, <1>5, <2>1 DEF FromVersion
<1>8. i < j
  <2>1. i # j
    BY <1>3, <1>7
  <2>2. ~ j < i
    <3> SUFFICES ASSUME j < i PROVE FALSE
      OBVIOUS
    <3>1. rows[j].stream = rows[i].stream
      BY <1>3, <1>4, <1>6 DEF OnFollowed
    <3>2. w - 1 < u
      BY <1>0, <1>3, <1>6, <3>1, VersionsGrow
    <3> QED
      BY <1>1, <1>5, <3>2
  <2> QED
    BY <1>0, <2>1, <2>2
<1>9. OnFollowed(j)
  BY <1>4, <1>6 DEF OnFollowed
<1> QED
  BY <1>3, <1>4, <1>6, <1>7, <1>8, <1>9

LEMMA InvInit == Init => IInv
<1> SUFFICES ASSUME Init PROVE IInv
  OBVIOUS
<1>1. TypeOK /\ LogInv(rows)
  BY TypeInit, LogInvEmpty DEF Init
<1>2. \A t \in Tenants : got[t] = {} /\ gap[t] = FALSE
  BY DEF Init
<1>3. GotTop
  <2>1. Top({}, 0)
    BY DEF Top
  <2> QED
    BY <1>2, <2>1 DEF GotTop
<1>4. Whole(rows, got)
  <2> SUFFICES ASSUME NEW t \in Tenants, NEW m \in Nat, Top(got[t], m)
               PROVE  got[t] = {v \in OwnIn(rows, t) : v <= m}
    BY DEF Whole
  <2>1. rows = <<>>
    BY DEF Init
  <2>2. OwnIn(rows, t) = {}
    BY <2>1 DEF OwnIn
  <2> QED
    BY <1>2, <2>2
<1> QED
  BY <1>1, <1>2, <1>3, <1>4 DEF IInv, GapMeansShared

LEMMA InvStep == IInv /\ [Next]_vars => IInv'
<1> SUFFICES ASSUME IInv, [Next]_vars PROVE IInv'
  OBVIOUS
<1>0. /\ TypeOK /\ TypeOK' /\ LogInv(rows) /\ GotTop /\ Whole(rows, got) /\ GapMeansShared
      /\ rows \in Seq(Row)
  BY TypeStep DEF IInv, TypeOK
<1>1. ASSUME UNCHANGED <<rows, got, gap>> PROVE IInv'
  BY <1>0, <1>1 DEF IInv, GotTop, GapMeansShared, OnFollowed
<1>2. ASSUME NEW c \in Credentials, NEW s \in Streams, Ingest(c, s) PROVE IInv'
  <2>1. PICK e \in Row : rows' = Append(rows, e)
    <3>1. Authenticate(c) \in Tenants /\ Holder(c) \in Tenants
      BY <1>0, <1>2, IdentityType DEF Ingest
    <3> QED
      BY <1>2, <3>1 DEF Ingest, Row
  <2>2. got' = got /\ gap' = gap
    BY <1>2 DEF Ingest
  <2>3. LogInv(rows') /\ Whole(rows', got') /\ GotTop'
    BY <1>0, <2>1, <2>2, LogInvAppend, WriteStaysWhole DEF GotTop
  <2>4. /\ DOMAIN rows \subseteq DOMAIN rows'
        /\ \A j \in DOMAIN rows : rows'[j] = rows[j]
    BY <1>0, <2>1
  <2>5. GapMeansShared'
    BY <1>0, <2>2, <2>4 DEF GapMeansShared, OnFollowed
  <2> QED
    BY <1>0, <2>3, <2>5 DEF IInv
<1>3. ASSUME NEW t \in Tenants, Follow(t) PROVE IInv'
  <2> DEFINE from == IF got[t] = {} THEN 0 ELSE Position(t) + 1
  <2> DEFINE vs == FromVersion(t, from)
  <2>1. rows' = rows
    BY <1>3 DEF Follow
  <2>2. CASE Contiguous(vs)
    <3>1. gap' = gap /\ got' = [got EXCEPT ![t] = got[t] \cup vs]
      BY <1>3, <2>2 DEF Follow
    <3>2. got'[t] = OwnIn(rows, t) /\ \A u \in Tenants \ {t} : got'[u] = got[u]
      BY <1>0, <3>1, AnswerCompletes, VersionsAreIn DEF TypeOK
    <3> HIDE DEF vs
    <3>3. GotTop'
      BY <1>0, <3>2 DEF GotTop, LogInv, HasTop
    <3>4. Whole(rows', got')
      <4> SUFFICES ASSUME NEW u \in Tenants, NEW m \in Nat, Top(got'[u], m)
                   PROVE  got'[u] = {v \in OwnIn(rows, u) : v <= m}
        BY <2>1 DEF Whole
      <4>1. CASE u = t
        BY <3>2, <4>1 DEF Top
      <4>2. CASE u # t
        BY <1>0, <3>2, <4>2 DEF Whole
      <4> QED
        BY <4>1, <4>2
    <3>5. GapMeansShared'
      BY <1>0, <2>1, <3>1 DEF GapMeansShared, OnFollowed
    <3> QED
      BY <1>0, <2>1, <3>3, <3>4, <3>5 DEF IInv
  <2>3. CASE ~ Contiguous(vs)
    <3>1. got' = got /\ gap' = [gap EXCEPT ![t] = TRUE]
      BY <1>3, <2>3 DEF Follow
    <3>2. from \in Nat
      <4>1. PICK m \in Nat : Top(got[t], m)
        BY <1>0 DEF GotTop
      <4>2. Position(t) = m
        BY <1>0, <4>1, PositionIsTop DEF TypeOK
      <4> QED
        BY <4>2
    <3>3. \E i, j, k \in DOMAIN rows :
             /\ i < j /\ j < k
             /\ OnFollowed(i) /\ rows[i].tenant = t
             /\ OnFollowed(j) /\ rows[j].tenant # t
             /\ OnFollowed(k) /\ rows[k].tenant = t
      BY <2>3, <3>2, GapIsShared
    <3>4. \A u \in Tenants \ {t} : gap'[u] = gap[u]
      BY <1>0, <3>1 DEF TypeOK
    <3> HIDE DEF from, vs
    <3>5. GapMeansShared'
      BY <1>0, <2>1, <3>3, <3>4 DEF GapMeansShared, OnFollowed
    <3> QED
      BY <1>0, <2>1, <3>1, <3>5 DEF IInv, GotTop
  <2> QED
    BY <2>2, <2>3
<1>4. ASSUME NEW c \in Credentials, Request(c), UNCHANGED rows PROVE UNCHANGED <<rows, got, gap>>
  BY <1>4 DEF Request, Unauthorized, AuthToken, AuthIssue, Ingest, GetByID, List, GetByStream
<1>5. ASSUME NEW c \in Credentials, Request(c) PROVE IInv'
  <2>1. CASE \E s \in Streams : Ingest(c, s)
    BY <1>2, <2>1
  <2>2. CASE ~ \E s \in Streams : Ingest(c, s)
    <3>1. UNCHANGED rows
      BY <1>5, <2>2 DEF Request, Unauthorized, AuthToken, AuthIssue, GetByID, List, GetByStream
    <3> QED
      BY <1>1, <1>4, <1>5, <3>1
  <2> QED
    BY <2>1, <2>2
<1>6. ASSUME NEW t \in Tenants, CreateTenant(t) PROVE IInv'
  BY <1>1, <1>6 DEF CreateTenant
<1>7. ASSUME RefuseTenant \/ GrpcReplay PROVE IInv'
  BY <1>1, <1>7 DEF RefuseTenant, GrpcReplay
<1>8. ASSUME NEW e \in Environments, Restart(e) PROVE IInv'
  BY <1>1, <1>8 DEF Restart
<1>9. ASSUME NEW k \in tokens, Expire(k) PROVE IInv'
  BY <1>1, <1>9 DEF Expire
<1>10. CASE UNCHANGED vars
  BY <1>1, <1>10 DEF vars
<1> QED
  BY <1>3, <1>5, <1>6, <1>7, <1>8, <1>9, <1>10 DEF Next

\* A follower that goes on above its last version has all of its tenant's
\* events up to there.
THEOREM FollowersAreWhole == Spec => []FollowerIsWhole
<1>1. IInv => FollowerIsWhole
  BY WholeIs DEF IInv
<1> QED
  BY <1>1, InvInit, InvStep, PTL DEF Spec

\* A version gap is reported only where another tenant's event lies between
\* two of the caller's.
THEOREM GapsAreShared == Spec => []GapMeansShared
<1>1. IInv => GapMeansShared
  BY DEF IInv
<1> QED
  BY <1>1, InvInit, InvStep, PTL DEF Spec
=============================================================================
