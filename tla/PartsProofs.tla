---------------------------- MODULE PartsProofs ----------------------------
(***************************************************************************)
(* Proofs about parts that MCParts checks: the aliases of WebServer, the   *)
(* list of devices and the tables of TvCtrlPoint, the calls of Control and *)
(* the callbacks of Search.                                                *)
(***************************************************************************)
EXTENDS WebServer, TvCtrlPoint, Control, Search, SequenceLemmas,
        SequenceTheorems, FiniteSetTheorems, TLAPS

(* An alias that addEntity makes up for a name in use is that of no other
   entity: it is a pair, whose second part is the entity. *)
AliasOf(e) == {<<n>> : n \in Names} \cup {<<n, e>> : n \in Names}
AliasValues == {NoAlias} \cup {<<n>> : n \in Names} \cup UNION {AliasOf(e) : e \in HttpEntities}
Entity == [alias : AliasValues, count : Int, stopServing : BOOLEAN]
Job == [pc : {"idle", "process", "file", "send", "error", "closed"},
        request : Requests, alias : AliasValues, entity : HttpEntities \cup {NoEntity}]

(* Types of the web server's state. *)
WebTypes ==
    /\ aliasList \in Seq(HttpEntities)
    /\ ae \in [HttpEntities -> Entity]
    /\ freed \subseteq HttpEntities
    /\ withdrawn \subseteq HttpEntities
    /\ job \in [Servers -> Job]

(* The list holds what was published and not deleted, each under an alias of
   its own. *)
Listed(e) == \E i \in DOMAIN aliasList : aliasList[i] = e
ListInv ==
    /\ \A e \in HttpEntities : Published(e) => ae[e].alias \in AliasOf(e)
    /\ \A e \in HttpEntities : e \in freed \cup withdrawn => Published(e)
    /\ \A e \in HttpEntities : Listed(e) <=> Published(e) /\ e \notin freed
    /\ \A i, j \in DOMAIN aliasList :
          ae[aliasList[i]].alias = ae[aliasList[j]].alias => i = j

(* A thread that sends an entity will give it back under its alias. *)
JobInv(t) ==
    job[t].entity # NoEntity =>
        /\ job[t].pc \in {"send", "closed"}
        /\ Published(job[t].entity) /\ job[t].entity \notin freed
        /\ job[t].alias = ae[job[t].entity].alias
JobsInv == \A t \in Servers : JobInv(t)

(* The references there are to an entity, its publisher's included. *)
References(e) == Cardinality(Users(e)) + IF e \in withdrawn THEN 0 ELSE 1
CountInv ==
    \A e \in HttpEntities : Published(e) =>
        /\ e \in freed <=> e \in withdrawn /\ Users(e) = {}
        /\ e \notin freed => ae[e].count = References(e)

WebInv == WebTypes /\ ListInv /\ JobsInv /\ CountInv

-----------------------------------------------------------------------------
(* An alias made up for a name in use is no name, and tells its entity. *)
LEMMA PairsDiffer ==
    ASSUME NEW n, NEW m, NEW d, NEW e
    PROVE  /\ <<n>> # <<m, e>>
           /\ NoAlias # <<m>>
           /\ NoAlias # <<m, e>>
           /\ <<n, d>> = <<m, e>> => d = e
           /\ <<n>> = <<m>> => n = m
  BY DEF NoAlias

(* A sequence without its i-th element. *)
LEMMA Removed ==
    ASSUME NEW S, NEW q \in Seq(S), NEW i \in DOMAIN q
    PROVE  /\ RemoveAt(q, i) \in Seq(S)
           /\ DOMAIN RemoveAt(q, i) = 1 .. Len(q) - 1
           /\ DOMAIN q = 1 .. Len(q) /\ Len(q) \in Nat
           /\ \A k \in DOMAIN RemoveAt(q, i) :
                 RemoveAt(q, i)[k] = q[IF k < i THEN k ELSE k + 1]
<1> DEFINE n == Len(q)
           a == SubSeq(q, 1, i - 1)
           b == SubSeq(q, i + 1, n)
<1>1. n \in Nat /\ DOMAIN q = 1 .. n /\ \A k \in 1 .. n : q[k] \in S
  OBVIOUS
<1>2. /\ i \in 1 .. n
      /\ \A k \in 1 .. i - 1 : q[k] \in S
      /\ \A k \in i + 1 .. n : q[k] \in S
  BY <1>1
<1> HIDE DEF n
<1>3. /\ a \in Seq(S) /\ Len(a) = i - 1
      /\ \A k \in 1 .. i - 1 : a[k] = q[k]
  <2>1. /\ a \in Seq(S) /\ Len(a) = IF 1 <= i - 1 THEN i - 1 - 1 + 1 ELSE 0
        /\ \A k \in 1 .. i - 1 - 1 + 1 : a[k] = q[1 + k - 1]
    BY <1>1, <1>2, SubSeqProperties
  <2> HIDE DEF a
  <2> QED
    BY <1>1, <1>2, <2>1
<1>4. /\ b \in Seq(S) /\ Len(b) = n - i
      /\ \A k \in 1 .. n - i : b[k] = q[k + i]
  <2>1. /\ b \in Seq(S) /\ Len(b) = IF i + 1 <= n THEN n - (i + 1) + 1 ELSE 0
        /\ \A k \in 1 .. n - (i + 1) + 1 : b[k] = q[i + 1 + k - 1]
    BY <1>1, <1>2, SubSeqProperties
  <2> HIDE DEF b
  <2>2. Len(b) = n - i
    BY <1>1, <1>2, <2>1
  <2>3. ASSUME NEW k \in 1 .. n - i PROVE b[k] = q[k + i]
    <3>1. k \in 1 .. n - (i + 1) + 1 /\ i + 1 + k - 1 = k + i
      BY <1>1, <1>2
    <3> QED
      BY <2>1, <3>1
  <2> QED
    BY <2>1, <2>2, <2>3
<1>5. RemoveAt(q, i) = a \o b
  BY DEF RemoveAt, n
<1> HIDE DEF a, b
<1>6. /\ a \o b \in Seq(S) /\ Len(a \o b) = n - 1
      /\ \A k \in 1 .. n - 1 :
            (a \o b)[k] = IF k <= i - 1 THEN a[k] ELSE b[k - (i - 1)]
  <2>1. /\ a \o b \in Seq(S) /\ Len(a \o b) = Len(a) + Len(b)
        /\ \A k \in 1 .. Len(a) + Len(b) :
              (a \o b)[k] = IF k <= Len(a) THEN a[k] ELSE b[k - Len(a)]
    BY <1>3, <1>4, ConcatProperties
  <2>2. Len(a) + Len(b) = n - 1
    BY <1>1, <1>2, <1>3, <1>4
  <2> QED
    BY <1>3, <2>1, <2>2
<1>7. ASSUME NEW k \in 1 .. n - 1
      PROVE  (a \o b)[k] = q[IF k < i THEN k ELSE k + 1]
  <2>1. CASE k < i
    BY <1>1, <1>2, <1>3, <1>6, <2>1
  <2>2. CASE ~(k < i)
    <3>1. (a \o b)[k] = b[k - (i - 1)]
      BY <1>1, <1>2, <1>6, <2>2
    <3>2. k - (i - 1) \in 1 .. n - i /\ k - (i - 1) + i = k + 1
      BY <1>1, <1>2, <2>2
    <3> QED
      BY <1>4, <2>2, <3>1, <3>2
  <2> QED
    BY <2>1, <2>2
<1>8. DOMAIN (a \o b) = 1 .. n - 1
  BY <1>6, LenProperties
<1> QED
  BY <1>1, <1>5, <1>6, <1>7, <1>8 DEF n

(* find, when there is one node with the alias. *)
LEMMA OnlyNode ==
    ASSUME NEW alias, NEW i \in Int, Nodes(alias) = {i}
    PROVE  Present(alias) /\ Find(alias) = i
<1>1. Min({i}) \in {i}
  BY DEF Min
<1> QED
  BY <1>1 DEF Find, Present

(* find leads from an alias to the one entity that has it ... *)
LEMMA FoundNode ==
    ASSUME WebTypes, ListInv, NEW alias, Present(alias)
    PROVE  /\ Find(alias) \in DOMAIN aliasList
           /\ aliasList[Find(alias)] \in HttpEntities
           /\ ae[aliasList[Find(alias)]].alias = alias
           /\ Listed(aliasList[Find(alias)])
<1>1. PICK i \in DOMAIN aliasList : i \in Nodes(alias)
  BY DEF Present, Nodes
<1>2. Nodes(alias) = {i}
  BY <1>1 DEF ListInv, Nodes
<1>3. i \in Int /\ aliasList[i] \in HttpEntities
  BY DEF WebTypes
<1>4. Find(alias) = i
  BY <1>2, <1>3, OnlyNode
<1> QED
  BY <1>1, <1>3, <1>4 DEF Nodes, Listed

(* ... and from the alias of a published entity to that entity. *)
LEMMA OwnNode ==
    ASSUME WebTypes, ListInv, NEW e \in HttpEntities, Published(e), e \notin freed
    PROVE  /\ Present(ae[e].alias)
           /\ Find(ae[e].alias) \in DOMAIN aliasList
           /\ aliasList[Find(ae[e].alias)] = e
<1>1. PICK i \in DOMAIN aliasList : aliasList[i] = e
  BY DEF ListInv, Listed
<1>2. Nodes(ae[e].alias) = {i}
  BY <1>1 DEF ListInv, Nodes
<1>3. i \in Int
  BY DEF WebTypes
<1> QED
  BY <1>1, <1>2, <1>3, OnlyNode

(* The list without one of its nodes. *)
LEMMA NodeRemoved ==
    ASSUME WebTypes, ListInv, NEW i \in DOMAIN aliasList
    PROVE  LET r == RemoveAt(aliasList, i)
           IN  /\ r \in Seq(HttpEntities)
               /\ \A j, k \in DOMAIN r : ae[r[j]].alias = ae[r[k]].alias => j = k
               /\ \A d : (\E k \in DOMAIN r : r[k] = d) <=> d # aliasList[i] /\ Listed(d)
<1> DEFINE r == RemoveAt(aliasList, i)
           old(k) == IF k < i THEN k ELSE k + 1
<1>1. /\ r \in Seq(HttpEntities) /\ DOMAIN r = 1 .. Len(aliasList) - 1
      /\ DOMAIN aliasList = 1 .. Len(aliasList) /\ Len(aliasList) \in Nat
      /\ \A k \in DOMAIN r : r[k] = aliasList[old(k)]
  BY Removed DEF WebTypes
<1> HIDE DEF r
<1>2. /\ i \in DOMAIN aliasList
      /\ \A k \in DOMAIN r : old(k) \in DOMAIN aliasList /\ old(k) # i
      /\ \A j, k \in DOMAIN r : old(j) = old(k) => j = k
      /\ \A k \in DOMAIN aliasList : k # i => \E j \in DOMAIN r : old(j) = k
  <2>1. i \in 1 .. Len(aliasList)
    BY <1>1
  <2>2. ASSUME NEW k \in 1 .. Len(aliasList), k # i
        PROVE  \E j \in 1 .. Len(aliasList) - 1 : old(j) = k
    <3>1. CASE k < i
      <4>1. k \in 1 .. Len(aliasList) - 1 /\ old(k) = k
        BY <3>1, <2>1, <1>1
      <4> QED
        BY <4>1, Zenon
    <3>2. CASE ~(k < i)
      <4>1. k - 1 \in 1 .. Len(aliasList) - 1 /\ old(k - 1) = k
        BY <3>2, <2>1, <2>2, <1>1
      <4> QED
        BY <4>1, Zenon
    <3> QED
      BY <3>1, <3>2
  <2>3. ASSUME NEW k \in 1 .. Len(aliasList) - 1
        PROVE  old(k) \in 1 .. Len(aliasList) /\ old(k) # i
    BY <2>1, <1>1
  <2>4. ASSUME NEW j \in 1 .. Len(aliasList) - 1, NEW k \in 1 .. Len(aliasList) - 1, old(j) = old(k)
        PROVE  j = k
    BY <2>1, <1>1, <2>4
  <2> HIDE DEF old
  <2> QED
    BY <1>1, <2>1, <2>2, <2>3, <2>4
<1> HIDE DEF old
<1>3. \A j, k \in DOMAIN aliasList :
         ae[aliasList[j]].alias = ae[aliasList[k]].alias => j = k
  BY DEF ListInv
<1>4. \A j, k \in DOMAIN r : ae[r[j]].alias = ae[r[k]].alias => j = k
  BY <1>1, <1>2, <1>3
<1>5. \A d : (\E k \in DOMAIN r : r[k] = d) <=> d # aliasList[i] /\ Listed(d)
  <2>1. \A k \in DOMAIN aliasList : k # i => aliasList[k] # aliasList[i]
    BY <1>3
  <2> QED
    BY <1>1, <1>2, <2>1 DEF Listed
<1> QED
  BY <1>1, <1>4, <1>5 DEF r

(* Threads are counted. *)
LEMMA UsersFinite ==
    ASSUME WebAssumption, NEW U \in SUBSET Servers
    PROVE  /\ IsFiniteSet(U)
           /\ Cardinality(U) \in Nat
           /\ Cardinality(U) = 0 <=> U = {}
<1>1. IsFiniteSet(Servers)
  BY DEF WebAssumption
<1>2. IsFiniteSet(U)
  BY <1>1, FS_Subset
<1> QED
  BY <1>2, FS_CardinalityType, FS_EmptySet

(* The references are gone when the publisher and all threads are. *)
LEMMA ReferencesLeft ==
    ASSUME WebAssumption, NEW e
    PROVE  References(e)' \in Nat
           /\ (References(e)' = 0 <=> e \in withdrawn' /\ Users(e)' = {})
<1>1. Users(e)' \in SUBSET Servers
  BY DEF Users
<1>2. Cardinality(Users(e)') \in Nat /\ (Cardinality(Users(e)') = 0 <=> Users(e)' = {})
  BY <1>1, UsersFinite
<1> QED
  BY <1>2 DEF References

-----------------------------------------------------------------------------
(* A reference is given back, by the publisher or by a thread: releaseEntity
   deletes the entity if it was the last one, and only then. *)
LEMMA Release ==
    ASSUME WebAssumption, WebInv,
           NEW e \in HttpEntities, Published(e), e \notin freed,
           NEW stop \in BOOLEAN, ReleaseEntity(ae[e].alias, stop),
           withdrawn' \subseteq HttpEntities,
           \A d \in HttpEntities : d # e => (d \in withdrawn' <=> d \in withdrawn),
           job' \in [Servers -> Job],
           \A u \in Servers : job'[u] = job[u] \/ job'[u].entity = NoEntity,
           \A d \in HttpEntities : d # e => Users(d)' = Users(d),
           References(e)' = References(e) - 1
    PROVE  WebInv'
<1> USE DEF WebInv
<1> DEFINE at == Find(ae[e].alias)
<1>1. Present(ae[e].alias) /\ at \in DOMAIN aliasList /\ aliasList[at] = e
  BY OwnNode
<1> HIDE DEF at
<1>2. /\ ae' = [ae EXCEPT ![e].stopServing = stop, ![e].count = @ - 1]
      /\ IF ae[e].count <= 1
         THEN aliasList' = RemoveAt(aliasList, at) /\ freed' = freed \cup {e}
         ELSE aliasList' = aliasList /\ freed' = freed
  BY <1>1 DEF ReleaseEntity, at
<1>3. ae[e] \in Entity
  BY DEF WebTypes
<1>4. /\ ae' \in [HttpEntities -> Entity]
      /\ \A d \in HttpEntities : ae'[d].alias = ae[d].alias
      /\ ae'[e].count = ae[e].count - 1
      /\ \A d \in HttpEntities : d # e => ae'[d] = ae[d]
  BY <1>2, <1>3 DEF WebTypes, Entity
<1>5. \A d \in HttpEntities : Published(d)' <=> Published(d)
  BY <1>4 DEF Published
<1>6. ae[e].count = References(e)
  BY DEF CountInv
<1>7. ae'[e].count = References(e)' /\ ae[e].count \in Int /\ References(e)' \in Nat
  BY <1>3, <1>4, <1>6, ReferencesLeft DEF Entity
<1>8. ae[e].count <= 1 <=> e \in withdrawn' /\ Users(e)' = {}
  <2> DEFINE c == ae[e].count
             m == ae'[e].count
             n == References(e)'
  <2>1. c \in Int /\ n \in Nat /\ m = c - 1 /\ m = n
    BY <1>4, <1>7
  <2> HIDE DEF c, m, n
  <2>2. n = 0 <=> c <= 1
    BY <2>1
  <2>3. References(e)' = 0 <=> ae[e].count <= 1
    BY <2>2 DEF c, n
  <2> QED
    BY <2>3, ReferencesLeft
<1>9. /\ freed' \subseteq HttpEntities
      /\ \A d \in HttpEntities : d # e => (d \in freed' <=> d \in freed)
      /\ e \in freed' <=> e \in withdrawn' /\ Users(e)' = {}
  BY <1>2, <1>8 DEF WebTypes
<1>10. /\ aliasList' \in Seq(HttpEntities)
       /\ \A j, k \in DOMAIN aliasList' :
             ae[aliasList'[j]].alias = ae[aliasList'[k]].alias => j = k
       /\ \A d \in HttpEntities : Listed(d)' <=> Listed(d) /\ (d = e => e \notin freed')
  <2>1. \A k \in DOMAIN aliasList : aliasList[k] \in HttpEntities
    BY DEF WebTypes
  <2>3. CASE ae[e].count <= 1
    <3> DEFINE r == RemoveAt(aliasList, at)
    <3>1. /\ r \in Seq(HttpEntities)
          /\ \A j, k \in DOMAIN r : ae[r[j]].alias = ae[r[k]].alias => j = k
          /\ \A d : (\E k \in DOMAIN r : r[k] = d) <=> d # aliasList[at] /\ Listed(d)
      BY <1>1, NodeRemoved
    <3>2. aliasList' = r /\ e \in freed'
      BY <1>2, <2>3
    <3> HIDE DEF r
    <3>3. \A d \in HttpEntities : Listed(d)' <=> Listed(d) /\ (d = e => e \notin freed')
      BY <1>1, <3>1, <3>2 DEF Listed
    <3> QED
      BY <3>1, <3>2, <3>3
  <2>4. CASE ~(ae[e].count <= 1)
    <3>1. aliasList' = aliasList /\ freed' = freed
      BY <1>2, <2>4
    <3> QED
      BY <3>1 DEF Listed, ListInv, WebTypes
  <2> QED
    BY <2>3, <2>4
<1>11. WebTypes'
  BY <1>4, <1>9, <1>10 DEF WebTypes
<1>12. ListInv'
  <2>1. \A d \in HttpEntities : Published(d)' => ae'[d].alias \in AliasOf(d)
    BY <1>4, <1>5 DEF ListInv
  <2>2. \A d \in HttpEntities : d \in freed' \cup withdrawn' => Published(d)'
    BY <1>5, <1>9 DEF ListInv
  <2>3. \A d \in HttpEntities : Listed(d)' <=> Published(d)' /\ d \notin freed'
    BY <1>5, <1>9, <1>10 DEF ListInv
  <2>4. \A j, k \in DOMAIN aliasList' :
             ae'[aliasList'[j]].alias = ae'[aliasList'[k]].alias => j = k
    <3>1. \A k \in DOMAIN aliasList' : aliasList'[k] \in HttpEntities
      BY <1>10
    <3> QED
      BY <1>4, <1>10, <3>1
  <2> QED
    BY <2>1, <2>2, <2>3, <2>4 DEF ListInv, AliasOf
<1>13. JobsInv'
  <2> SUFFICES ASSUME NEW u \in Servers, job'[u].entity # NoEntity
               PROVE  /\ job'[u].pc \in {"send", "closed"}
                      /\ Published(job[u].entity)' /\ job'[u].entity \notin freed'
                      /\ job'[u].alias = ae'[job'[u].entity].alias
    BY DEF JobsInv, JobInv
  <2>1. job'[u] = job[u] /\ JobInv(u) /\ job[u].entity \in HttpEntities
    BY DEF JobsInv, WebTypes, Job
  <2>2. job[u].entity = e => u \in Users(e)'
    BY <2>1 DEF Users
  <2> QED
    BY <1>4, <1>5, <1>9, <2>1, <2>2 DEF JobInv
<1>14. CountInv'
  <2>1. ASSUME NEW d \in HttpEntities, d # e, Published(d)'
        PROVE  /\ d \in freed' <=> d \in withdrawn' /\ Users(d)' = {}
               /\ d \notin freed' => ae'[d].count = References(d)'
    BY <1>4, <1>5, <1>9, <2>1 DEF CountInv, References
  <2> QED
    BY <1>7, <1>9, <2>1 DEF CountInv
<1> QED
  BY <1>11, <1>12, <1>13, <1>14

(* A thread goes on without touching the list. *)
LEMMA ThreadGoesOn ==
    ASSUME WebInv, UNCHANGED <<aliasList, ae, freed, withdrawn>>,
           job' \in [Servers -> Job],
           \A u \in Servers :
              /\ job'[u].entity = job[u].entity
              /\ job'[u].entity # NoEntity =>
                    job'[u].pc \in {"send", "closed"} /\ job'[u].alias = job[u].alias
    PROVE  WebInv'
<1>1. \A e \in HttpEntities : Users(e)' = Users(e) /\ Published(e)' = Published(e)
                          /\ Listed(e)' = Listed(e)
  BY DEF Users, Published, Listed
<1>2. WebTypes' /\ ListInv'
  BY <1>1 DEF WebInv, WebTypes, ListInv, AliasOf
<1>3. JobsInv'
  BY DEF WebInv, JobsInv, JobInv, Published
<1>4. CountInv'
  BY <1>1 DEF WebInv, CountInv, References
<1> QED
  BY <1>2, <1>3, <1>4 DEF WebInv

(* One thread goes on. *)
LEMMA OneThread ==
    ASSUME WebInv, UNCHANGED <<aliasList, ae, freed, withdrawn>>,
           NEW t \in Servers, NEW next \in Job, job' = [job EXCEPT ![t] = next],
           next.entity = job[t].entity,
           next.entity # NoEntity =>
              next.pc \in {"send", "closed"} /\ next.alias = job[t].alias
    PROVE  WebInv'
<1>1. job \in [Servers -> Job] /\ job' \in [Servers -> Job]
  BY DEF WebInv, WebTypes
<1>2. \A u \in Servers :
         /\ job'[u].entity = job[u].entity
         /\ job'[u].entity # NoEntity =>
               job'[u].pc \in {"send", "closed"} /\ job'[u].alias = job[u].alias
  <2> TAKE u \in Servers
  <2>1. CASE u = t
    BY <1>1, <2>1
  <2>2. CASE u # t
    <3>1. job'[u] = job[u] /\ JobInv(u)
      BY <1>1, <2>2 DEF WebInv, JobsInv
    <3> QED
      BY <3>1 DEF JobInv
  <2> QED
    BY <2>1, <2>2
<1> QED
  BY <1>1, <1>2, ThreadGoesOn

(* A thread that looks for an alias holds nothing yet. *)
LEMMA NothingHeld ==
    ASSUME WebInv, NEW t \in Servers, job[t].pc \notin {"send", "closed"}
    PROVE  job[t].entity = NoEntity
  BY DEF WebInv, JobsInv, JobInv

(* A request arrives at an idle thread, which holds nothing. *)
LEMMA AcceptStep ==
    ASSUME WebInv, NEW t \in Servers, NEW request \in Requests, Accept(t, request)
    PROVE  WebInv'
<1> DEFINE next == [Idle EXCEPT !.request = request,
                                !.pc = IF gServerActive THEN "process" ELSE "error"]
<1>1. next \in Job /\ next.entity = NoEntity
  BY DEF Job, Idle, AliasValues
<1>2. job' = [job EXCEPT ![t] = next] /\ UNCHANGED <<aliasList, ae, freed, withdrawn>>
  BY DEF Accept
<1>3. job[t].entity = NoEntity
  BY NothingHeld DEF Accept
<1> HIDE DEF next
<1> QED
  BY <1>1, <1>2, <1>3, OneThread

(* The request is refused, or its answer sent. *)
LEMMA ProgressStep ==
    ASSUME WebInv, NEW t \in Servers,
           Refuse(t) \/ GetFilename(t) \/ http_SendMessage(t)
    PROVE  WebInv'
<1>1. PICK p \in {"send", "error", "closed"} :
         /\ job' = [job EXCEPT ![t].pc = p]
         /\ UNCHANGED <<aliasList, ae, freed, withdrawn>>
         /\ job[t].pc \notin {"send", "closed"} \/ p = "closed"
  BY DEF Refuse, GetFilename, http_SendMessage
<1> DEFINE next == [job[t] EXCEPT !.pc = p]
<1>2. job[t] \in Job
  BY DEF WebInv, WebTypes
<1>3. next \in Job /\ next.entity = job[t].entity /\ next.alias = job[t].alias /\ next.pc = p
  BY <1>2 DEF Job
<1>4. job' = [job EXCEPT ![t] = next]
  BY <1>1
<1>5. next.entity # NoEntity => p = "closed"
  BY <1>1, <1>3, NothingHeld
<1> HIDE DEF next
<1> QED
  BY <1>1, <1>3, <1>4, <1>5, OneThread

(* grabEntity: one more thread, one more reference. *)
LEMMA GrabStep ==
    ASSUME WebAssumption, WebInv, NEW t \in Servers, NEW alias \in AliasValues,
           GrabEntity(t, alias)
    PROVE  WebInv'
<1> DEFINE found == aliasList[Find(alias)]
<1>1. job[t] \in Job /\ job \in [Servers -> Job] /\ job[t].entity = NoEntity
  BY NothingHeld DEF WebInv, WebTypes, GrabEntity
<1>2. CASE Present(alias) /\ ~ae[found].stopServing
  <2>0. PICK e \in HttpEntities : e = found /\ ae[e].alias = alias /\ Listed(e)
    BY <1>2, FoundNode DEF WebInv
  <2>1. Published(e) /\ e \notin freed
    BY <2>0 DEF WebInv, ListInv
  <2>2. /\ ae' = [ae EXCEPT ![e].count = @ + 1]
        /\ job' = [job EXCEPT ![t].pc = "send", ![t].alias = alias, ![t].entity = e]
        /\ UNCHANGED <<aliasList, freed, withdrawn>>
    BY <1>2, <2>0 DEF GrabEntity
  <2> HIDE DEF found
  <2>3. ae[e] \in Entity
    BY <2>1 DEF WebInv, WebTypes
  <2>4. /\ ae' \in [HttpEntities -> Entity]
        /\ \A d \in HttpEntities : ae'[d].alias = ae[d].alias
        /\ ae'[e].count = ae[e].count + 1
        /\ \A d \in HttpEntities : d # e => ae'[d] = ae[d]
    <3> DEFINE new == [ae[e] EXCEPT !.count = @ + 1]
    <3>1. new \in Entity /\ new.alias = ae[e].alias /\ new.count = ae[e].count + 1
      BY <2>3 DEF Entity
    <3>2. ae' = [ae EXCEPT ![e] = new] /\ ae \in [HttpEntities -> Entity]
      BY <2>2 DEF WebInv, WebTypes
    <3> HIDE DEF new
    <3> QED
      BY <3>1, <3>2
  <2>5. /\ job'[t] \in Job /\ job'[t].pc = "send"
        /\ job'[t].alias = alias /\ job'[t].entity = e
        /\ \A u \in Servers : u # t => job'[u] = job[u]
        /\ job' \in [Servers -> Job]
    BY <1>1, <2>0, <2>1, <2>2 DEF Job
  <2>6. \A d \in HttpEntities : Published(d)' = Published(d) /\ Listed(d)' = Listed(d)
    BY <2>2, <2>4 DEF Published, Listed
  <2>7. /\ Users(e)' = Users(e) \cup {t} /\ t \notin Users(e)
        /\ \A d \in HttpEntities : d # e => Users(d)' = Users(d)
    <3>1. NoEntity \notin HttpEntities
      BY DEF WebAssumption
    <3> QED
      BY <1>1, <2>0, <2>1, <2>5, <3>1 DEF Users
  <2>8. WebTypes'
    BY <2>2, <2>4, <2>5 DEF WebInv, WebTypes
  <2>9. ListInv'
    <3>1. \A k \in DOMAIN aliasList : aliasList[k] \in HttpEntities
      BY DEF WebInv, WebTypes
    <3> QED
      BY <2>2, <2>4, <2>6, <3>1 DEF WebInv, ListInv, AliasOf
  <2>10. JobsInv'
    <3> SUFFICES ASSUME NEW u \in Servers PROVE JobInv(u)'
      BY DEF JobsInv
    <3>1. CASE u = t
      BY <2>0, <2>1, <2>2, <2>4, <2>5, <2>6, <3>1 DEF JobInv, Published
    <3>2. CASE u # t
      <4>1. JobInv(u) /\ job'[u] = job[u] /\ job[u].entity \in HttpEntities \cup {NoEntity}
        BY <2>5, <3>2 DEF WebInv, WebTypes, Job, JobsInv
      <4>2. freed' = freed
        BY <2>2
      <4>3. ASSUME job[u].entity \in HttpEntities
            PROVE  ae'[job[u].entity].alias = ae[job[u].entity].alias
        BY <2>4, <4>3
      <4> QED
        BY <4>1, <4>2, <4>3 DEF JobInv, Published
    <3> QED
      BY <3>1, <3>2
  <2>11. References(e)' = References(e) + 1
    <3>1. IsFiniteSet(Users(e)) /\ Cardinality(Users(e)) \in Nat
      BY UsersFinite DEF Users
    <3>2. Cardinality(Users(e)') = Cardinality(Users(e)) + 1
      BY <2>7, <3>1, FS_AddElement
    <3> QED
      BY <2>2, <3>1, <3>2 DEF References
  <2>12. CountInv'
    <3>1. ASSUME NEW d \in HttpEntities, d # e, Published(d)'
          PROVE  /\ d \in freed' <=> d \in withdrawn' /\ Users(d)' = {}
                 /\ d \notin freed' => ae'[d].count = References(d)'
      BY <2>2, <2>4, <2>6, <2>7, <3>1 DEF WebInv, CountInv, References
    <3>2. e \notin freed' /\ Users(e)' # {}
      BY <2>0, <2>1, <2>2, <2>7
    <3>3. ae'[e].count = References(e)'
      BY <2>1, <2>4, <2>11 DEF WebInv, CountInv
    <3> QED
      BY <3>1, <3>2, <3>3 DEF CountInv
  <2> QED
    BY <2>8, <2>9, <2>10, <2>12 DEF WebInv
<1>3. CASE ~(Present(alias) /\ ~ae[found].stopServing)
  <2> DEFINE next == [job[t] EXCEPT !.pc = "file"]
  <2>1. job' = [job EXCEPT ![t] = next] /\ UNCHANGED <<aliasList, ae, freed, withdrawn>>
    BY <1>3 DEF GrabEntity
  <2>2. next \in Job /\ next.entity = NoEntity
    BY <1>1 DEF Job
  <2> HIDE DEF next
  <2> QED
    BY <1>1, <2>1, <2>2, OneThread
<1> QED
  BY <1>2, <1>3

(* addEntity: the new alias is not in the list. *)
LEMMA NewAlias ==
    ASSUME WebInv, NEW e \in HttpEntities, NEW name \in Names, ~Published(e)
    PROVE  /\ ActualAlias(e, name) \in AliasOf(e)
           /\ ActualAlias(e, name) # NoAlias
           /\ \A d \in HttpEntities : Listed(d) => ae[d].alias # ActualAlias(e, name)
<1>1. ActualAlias(e, name) \in {<<name>>, <<name, e>>}
  BY DEF ActualAlias
<1>2. ASSUME NEW d \in HttpEntities, Listed(d) PROVE ae[d].alias # ActualAlias(e, name)
  <2>1. CASE Present(<<name>>)
    <3>1. Published(d) /\ d # e /\ ae[d].alias \in AliasOf(d)
      BY <1>2 DEF WebInv, ListInv
    <3>2. ae[d].alias # <<name, e>>
      BY <3>1, PairsDiffer DEF AliasOf
    <3> QED
      BY <2>1, <3>2 DEF ActualAlias
  <2>2. CASE ~Present(<<name>>)
    BY <1>2, <2>2 DEF ActualAlias, Present, Nodes, Listed
  <2> QED
    BY <2>1, <2>2
<1>3. ActualAlias(e, name) # NoAlias
  BY <1>1, PairsDiffer
<1> QED
  BY <1>1, <1>2, <1>3 DEF AliasOf

(* A new entity has one reference, its publisher's. *)
LEMMA PublishStep ==
    ASSUME WebAssumption, WebInv, NEW e \in HttpEntities, NEW name \in Names,
           Configure_Urlbase(e, name)
    PROVE  WebInv'
<1> DEFINE alias == ActualAlias(e, name)
           new == [alias |-> alias, count |-> 1, stopServing |-> FALSE]
<1>1. ~Published(e)
  BY DEF Configure_Urlbase
<1>2. /\ alias \in AliasOf(e) /\ alias # NoAlias
      /\ \A d \in HttpEntities : Listed(d) => ae[d].alias # alias
  BY <1>1, NewAlias
<1>3. /\ aliasList' = Append(aliasList, e) /\ ae' = [ae EXCEPT ![e] = new]
      /\ UNCHANGED <<freed, withdrawn, job>>
  BY DEF Configure_Urlbase, AddEntity
<1> HIDE DEF alias
<1>4. new \in Entity /\ new.alias = alias /\ new.count = 1
  BY <1>2 DEF Entity, AliasValues
<1> HIDE DEF new
<1>5. /\ ae' \in [HttpEntities -> Entity] /\ ae'[e] = new
      /\ \A d \in HttpEntities : d # e => ae'[d] = ae[d]
  BY <1>3, <1>4 DEF WebInv, WebTypes
<1>6. /\ aliasList' \in Seq(HttpEntities)
      /\ Len(aliasList) \in Nat /\ DOMAIN aliasList = 1 .. Len(aliasList)
      /\ DOMAIN aliasList' = 1 .. Len(aliasList) + 1
      /\ \A i \in DOMAIN aliasList : aliasList'[i] = aliasList[i]
      /\ aliasList'[Len(aliasList) + 1] = e
  BY <1>3, JobAdded DEF WebInv, WebTypes
<1>7. /\ \A d \in HttpEntities : d # e => Published(d)' = Published(d)
      /\ Published(e)'
      /\ \A d \in HttpEntities : Users(d)' = Users(d)
  BY <1>2, <1>3, <1>4, <1>5 DEF Published, Users
<1>8. \A i \in DOMAIN aliasList : aliasList[i] \in HttpEntities /\ aliasList[i] # e
  <2>1. \A i \in DOMAIN aliasList : aliasList[i] \in HttpEntities /\ Listed(aliasList[i])
    BY DEF WebInv, WebTypes, Listed
  <2> QED
    BY <1>1, <2>1 DEF WebInv, ListInv
<1>9. e \notin freed /\ e \notin withdrawn
  BY <1>1 DEF WebInv, ListInv
<1>10. WebTypes'
  BY <1>3, <1>5, <1>6 DEF WebInv, WebTypes
<1>11. ListInv'
  <2>1. \A d \in HttpEntities : Published(d)' => ae'[d].alias \in AliasOf(d)
    BY <1>2, <1>4, <1>5, <1>7 DEF WebInv, ListInv
  <2>2. \A d \in HttpEntities : d \in freed' \cup withdrawn' => Published(d)'
    BY <1>3, <1>7 DEF WebInv, ListInv
  <2>3. \A d \in HttpEntities : Listed(d)' <=> Listed(d) \/ d = e
    BY <1>6 DEF Listed
  <2>4. \A d \in HttpEntities : Listed(d)' <=> Published(d)' /\ d \notin freed'
    BY <1>3, <1>7, <1>9, <2>3 DEF WebInv, ListInv
  <2>5. ASSUME NEW i \in DOMAIN aliasList', NEW j \in DOMAIN aliasList',
               ae'[aliasList'[i]].alias = ae'[aliasList'[j]].alias
        PROVE  i = j
    <3>1. \A k \in DOMAIN aliasList :
             /\ aliasList'[k] = aliasList[k] /\ ae'[aliasList[k]] = ae[aliasList[k]]
             /\ ae[aliasList[k]].alias # alias
      BY <1>2, <1>5, <1>6, <1>8 DEF Listed
    <3>2. ae'[aliasList'[Len(aliasList) + 1]].alias = alias
      BY <1>4, <1>5, <1>6
    <3>3. \A k \in DOMAIN aliasList' : k \in DOMAIN aliasList \/ k = Len(aliasList) + 1
      BY <1>6
    <3>4. \A k, m \in DOMAIN aliasList :
             ae[aliasList[k]].alias = ae[aliasList[m]].alias => k = m
      BY DEF WebInv, ListInv
    <3> QED
      BY <2>5, <3>1, <3>2, <3>3, <3>4
  <2> QED
    BY <2>1, <2>2, <2>4, <2>5 DEF ListInv, AliasOf
<1>12. JobsInv'
  <2> SUFFICES ASSUME NEW u \in Servers PROVE JobInv(u)'
    BY DEF JobsInv
  <2>1. JobInv(u) /\ job'[u] = job[u] /\ job[u].entity \in HttpEntities \cup {NoEntity}
    BY <1>3 DEF WebInv, WebTypes, Job, JobsInv
  <2> QED
    BY <1>1, <1>3, <1>5, <2>1 DEF JobInv, Published
<1>13. CountInv'
  <2>1. ASSUME NEW d \in HttpEntities, d # e, Published(d)'
        PROVE  /\ d \in freed' <=> d \in withdrawn' /\ Users(d)' = {}
               /\ d \notin freed' => ae'[d].count = References(d)'
    BY <1>3, <1>5, <1>7, <2>1 DEF WebInv, CountInv, References
  <2>2. Users(e)' = {}
    <3>1. ASSUME NEW u \in Users(e) PROVE FALSE
      <4>1. u \in Servers /\ job[u].entity = e /\ JobInv(u)
        BY DEF Users, WebInv, JobsInv
      <4>2. e # NoEntity
        BY DEF WebAssumption
      <4> QED
        BY <1>1, <4>1, <4>2 DEF JobInv
    <3> QED
      BY <1>7, <3>1
  <2>3. References(e)' = 1
    BY <1>3, <1>9, <2>2, FS_EmptySet DEF References
  <2> QED
    BY <1>3, <1>4, <1>5, <1>9, <2>1, <2>3 DEF CountInv
<1> QED
  BY <1>10, <1>11, <1>12, <1>13 DEF WebInv

(* The publisher gives its reference back ... *)
LEMMA WithdrawStep ==
    ASSUME WebAssumption, WebInv, NEW e \in HttpEntities, http_RemoveAlias(e)
    PROVE  WebInv'
<1>1. /\ Published(e) /\ e \notin withdrawn /\ ReleaseEntity(ae[e].alias, TRUE)
      /\ withdrawn' = withdrawn \cup {e} /\ job' = job
  BY DEF http_RemoveAlias
<1>2. e \notin freed
  BY <1>1 DEF WebInv, CountInv
<1>3. \A d \in HttpEntities : Users(d)' = Users(d)
  BY <1>1 DEF Users
<1>4. References(e)' = References(e) - 1
  <2>1. Cardinality(Users(e)) \in Nat
    BY UsersFinite DEF Users
  <2>2. References(e) = Cardinality(Users(e)) + 1 /\ References(e)' = Cardinality(Users(e))
    BY <1>1, <1>3, <2>1 DEF References
  <2> QED
    BY <2>1, <2>2
<1>5. /\ withdrawn' \subseteq HttpEntities /\ job' \in [Servers -> Job]
      /\ \A d \in HttpEntities : d # e => (d \in withdrawn' <=> d \in withdrawn)
  BY <1>1 DEF WebInv, WebTypes
<1> QED
  BY <1>1, <1>2, <1>3, <1>4, <1>5, Release

(* ... and so does a thread that has sent the entity. *)
LEMMA FreeAliasStep ==
    ASSUME WebAssumption, WebInv, NEW t \in Servers, free_alias(t)
    PROVE  WebInv'
<1>1. /\ job' = [job EXCEPT ![t] = Idle] /\ withdrawn' = withdrawn
      /\ job[t] \in Job /\ job \in [Servers -> Job]
  BY DEF free_alias, WebInv, WebTypes
<1>2. Idle \in Job /\ Idle.entity = NoEntity
  BY DEF Idle, Job, Requests, AliasValues
<1>3. CASE job[t].entity = NoEntity
  <2>1. UNCHANGED <<aliasList, ae, freed, withdrawn>>
    BY <1>3 DEF free_alias
  <2> QED
    BY <1>1, <1>2, <1>3, <2>1, OneThread
<1>4. CASE job[t].entity # NoEntity
  <2>1. PICK e \in HttpEntities : e = job[t].entity
    BY <1>1, <1>4 DEF Job
  <2>2. Published(e) /\ e \notin freed /\ job[t].alias = ae[e].alias
    BY <1>4, <2>1 DEF WebInv, JobsInv, JobInv
  <2>3. ReleaseEntity(ae[e].alias, FALSE)
    BY <1>4, <2>2 DEF free_alias
  <2>4. /\ job' \in [Servers -> Job] /\ job'[t] = Idle
        /\ \A u \in Servers : u # t => job'[u] = job[u]
    BY <1>1, <1>2
  <2>5. e # NoEntity
    BY DEF WebAssumption
  <2>6. /\ Users(e)' = Users(e) \ {t} /\ t \in Users(e)
        /\ \A d \in HttpEntities : d # e => Users(d)' = Users(d)
    <3>1. NoEntity \notin HttpEntities
      BY DEF WebAssumption
    <3> QED
      BY <1>2, <2>1, <2>4, <3>1 DEF Users
  <2>7. References(e)' = References(e) - 1
    <3>1. IsFiniteSet(Users(e)) /\ Cardinality(Users(e)) \in Nat
      BY UsersFinite DEF Users
    <3>2. Cardinality(Users(e)') = Cardinality(Users(e)) - 1
      BY <2>6, <3>1, FS_RemoveElement
    <3> DEFINE w == IF e \in withdrawn THEN 0 ELSE 1
    <3>3. /\ References(e) = Cardinality(Users(e)) + w
          /\ References(e)' = Cardinality(Users(e)') + w
      BY <1>1 DEF References
    <3>4. w \in Nat
      OBVIOUS
    <3> HIDE DEF w
    <3> QED
      BY <3>1, <3>2, <3>3, <3>4
  <2>8. /\ withdrawn' \subseteq HttpEntities
        /\ \A d \in HttpEntities : d # e => (d \in withdrawn' <=> d \in withdrawn)
    BY <1>1 DEF WebInv, WebTypes
  <2>9. \A u \in Servers : job'[u] = job[u] \/ job'[u].entity = NoEntity
    BY <1>2, <2>4
  <2> QED
    BY <2>2, <2>3, <2>4, <2>6, <2>7, <2>8, <2>9, Release
<1> QED
  BY <1>3, <1>4

(* At first nothing is published. *)
LEMMA WebStart == WebInit => WebInv
<1> SUFFICES ASSUME WebInit PROVE WebInv
  OBVIOUS
<1>1. \A e \in HttpEntities : ~Published(e)
  BY DEF WebInit, Published
<1>2. Idle \in Job /\ Idle.entity = NoEntity
  BY DEF Idle, Job, Requests, AliasValues
<1>3. [alias |-> NoAlias, count |-> 0, stopServing |-> FALSE] \in Entity
  BY DEF Entity, AliasValues
<1>4. WebTypes
  BY <1>2, <1>3 DEF WebInit, WebTypes
<1>5. ListInv
  BY <1>1 DEF WebInit, ListInv, Listed
<1>6. JobsInv
  BY <1>2 DEF WebInit, JobsInv, JobInv
<1>7. CountInv
  BY <1>1 DEF CountInv
<1> QED
  BY <1>4, <1>5, <1>6, <1>7 DEF WebInv

(* Every step keeps the invariant. *)
LEMMA WebStep == WebAssumption /\ WebInv /\ [WebNext]_webVars => WebInv'
<1> SUFFICES ASSUME WebAssumption, WebInv, [WebNext]_webVars PROVE WebInv'
  OBVIOUS
<1>1. ASSUME NEW e \in HttpEntities, NEW n \in Names, Configure_Urlbase(e, n) PROVE WebInv'
  BY <1>1, PublishStep
<1>2. ASSUME NEW e \in HttpEntities, http_RemoveAlias(e) PROVE WebInv'
  BY <1>2, WithdrawStep
<1>3. ASSUME NEW given \in BOOLEAN, http_SetRootDir(given) PROVE WebInv'
  <2>1. UNCHANGED <<aliasList, ae, freed, withdrawn, job>>
    BY <1>3 DEF http_SetRootDir
  <2>2. job' \in [Servers -> Job]
    BY <2>1 DEF WebInv, WebTypes
  <2>3. \A u \in Servers : JobInv(u)
    BY DEF WebInv, JobsInv
  <2> QED
    BY <2>1, <2>2, <2>3, ThreadGoesOn DEF JobInv
<1>4. ASSUME NEW t \in Servers, NEW request \in Requests, Accept(t, request) PROVE WebInv'
  BY <1>4, AcceptStep
<1>5. ASSUME NEW t \in Servers, Refuse(t) \/ GetFilename(t) \/ http_SendMessage(t)
      PROVE  WebInv'
  BY <1>5, ProgressStep
<1>6. ASSUME NEW t \in Servers, free_alias(t) PROVE WebInv'
  BY <1>6, FreeAliasStep
<1>7. ASSUME NEW t \in Servers, NEW alias \in Aliases, GrabEntity(t, alias) PROVE WebInv'
  <2>1. alias \in AliasValues
    BY DEF Aliases, AliasValues, WebInv, ListInv
  <2> QED
    BY <1>7, <2>1, GrabStep
<1>8. CASE UNCHANGED webVars
  <2>1. UNCHANGED <<aliasList, ae, freed, withdrawn, job>>
    BY <1>8 DEF webVars
  <2>2. job' \in [Servers -> Job]
    BY <2>1 DEF WebInv, WebTypes
  <2>3. \A u \in Servers : JobInv(u)
    BY DEF WebInv, JobsInv
  <2> QED
    BY <2>1, <2>2, <2>3, ThreadGoesOn DEF JobInv
<1> QED
  BY <1>1, <1>2, <1>3, <1>4, <1>5, <1>6, <1>7, <1>8 DEF WebNext

(* The references of aliased entities (grabEntity and releaseEntity of
   server.cpp): whatever is published, withdrawn and requested by whichever
   threads, an entity is deleted when its publisher has withdrawn it and its
   last reader is done, and not before; its count is exact and its alias
   its own. *)
THEOREM AliasesAreSound == ASSUME WebAssumption PROVE WebSpec => []AliasSound
<1>1. WebInv => AliasSound
  <2> SUFFICES ASSUME WebInv PROVE AliasSound
    OBVIOUS
  <2>1. \A e \in HttpEntities : e \in Range(aliasList) <=> Listed(e)
    BY DEF Range, Listed
  <2> QED
    BY <2>1 DEF WebInv, ListInv, CountInv, References, AliasSound
<1>2. WebInit => WebInv
  BY WebStart
<1>3. WebInv /\ [WebNext]_webVars => WebInv'
  BY WebStep
<1> QED
  BY <1>1, <1>2, <1>3, PTL DEF WebSpec

-----------------------------------------------------------------------------
(* TvCtrlPoint: the types of its state.  An event of a subscription has only
   variables of its service. *)
EventsOf(s) == UNION {[V -> Int] : V \in SUBSET VarsOf(s)}
SubscriptionsOf(s) ==
    [tv : Tvs, service : {s}, device : BOOLEAN, client : BOOLEAN,
     queue : Seq(EventsOf(s)), called : Seq(EventsOf(s))]
AnySubscription == UNION {SubscriptionsOf(s) : s \in Services}
AnyNode == [UDN : Tvs, AdvrTimeOut : Int, SID : [Services -> Nat],
            VariableStrVal : [Vars -> Int \cup {Empty}]]
TvTypes ==
    /\ up \subseteq Tvs
    /\ table \in [Tvs -> [Vars -> Int]]
    /\ requests \subseteq [tv : Tvs, op : {"Set", "Incr"}, var : Vars, arg : Int]
    /\ incrs \subseteq [tv : Tvs, var : Vars, new : Int]
    /\ news \subseteq [type : {"alive", "byebye"}, tv : Tvs]
    /\ failed \subseteq [tv : Tvs, service : Services]
ListTypes ==
    /\ subs \in Seq(AnySubscription)
    /\ GlobalDeviceList \in Seq(AnyNode)
    /\ renewed \subseteq Sids

(* A node's subscriptions are those of its device, each in its place. *)
NodeInv(i, s) ==
    LET sid == GlobalDeviceList[i].SID[s]
    IN  sid # NoSid => /\ sid \in Sids /\ sid \notin renewed
                       /\ subs[sid].tv = GlobalDeviceList[i].UDN /\ subs[sid].service = s
NodesInv == \A i \in DOMAIN GlobalDeviceList, s \in Services : NodeInv(i, s)
DevicesInv ==
    \A i, j \in DOMAIN GlobalDeviceList :
        GlobalDeviceList[i].UDN = GlobalDeviceList[j].UDN => i = j
OwnersInv == \A sid \in Sids : subs[sid].client => sid \in InList \cup renewed \cup stray

(* The events of a subscription on their way: some show a variable, and the
   last that does says what its value is. *)
OnTheWay(sid) == subs[sid].called \o subs[sid].queue
Shows(events, v) == \E k \in DOMAIN events : v \in DOMAIN events[k]
LastSays(events, v, value) ==
    \A k \in DOMAIN events :
        v \in DOMAIN events[k] /\ (\A m \in DOMAIN events : k < m => v \notin DOMAIN events[m])
          => events[k][v] = value

(* Subscriptions of which every event was applied in its turn. *)
Followed(sid) == sid \notin missed /\ subs[sid].device /\ subs[sid].client

EventsInv ==
    \A sid \in Sids : Followed(sid) =>
        \A v \in VarsOf(subs[sid].service) :
            LastSays(OnTheWay(sid), v, table[subs[sid].tv][v])
RenewedInv ==
    \A sid \in renewed : Followed(sid) =>
        \A v \in VarsOf(subs[sid].service) : Shows(OnTheWay(sid), v)
ShownInv ==
    \A i \in DOMAIN GlobalDeviceList, s \in Services :
        LET node == GlobalDeviceList[i]
            sid == node.SID[s]
        IN  sid # NoSid /\ Followed(sid) =>
                \A v \in VarsOf(s) :
                    Shows(OnTheWay(sid), v) \/ node.VariableStrVal[v] = table[node.UDN][v]

CtrlInv ==
    /\ TvTypes /\ ListTypes /\ NodesInv /\ DevicesInv /\ OwnersInv
    /\ EventsInv /\ RenewedInv /\ ShownInv

-----------------------------------------------------------------------------
(* Events that are sent, announced and handled in turn. *)
LEMMA EventAnnounced ==
    ASSUME NEW S, NEW c \in Seq(S), NEW q \in Seq(S)
    PROVE  /\ c \o q \in Seq(S)
           /\ \A x \in S : c \o Append(q, x) = Append(c \o q, x)
           /\ q # <<>> => Append(c, Head(q)) \o Tail(q) = c \o q
<1>1. \A x \in S : <<x>> \in Seq(S)
  OBVIOUS
<1>2. ASSUME NEW x \in S PROVE c \o Append(q, x) = Append(c \o q, x)
  <2>1. Append(q, x) = q \o <<x>>
    BY AppendIsConcat
  <2>2. c \o q \in Seq(S)
    BY ConcatProperties
  <2>3. Append(c \o q, x) = (c \o q) \o <<x>>
    BY <2>2, AppendIsConcat
  <2> QED
    BY <1>1, <2>1, <2>3, ConcatAssociative
<1>3. ASSUME q # <<>> PROVE Append(c, Head(q)) \o Tail(q) = c \o q
  <2>1. Head(q) \in S /\ Tail(q) \in Seq(S)
    BY <1>3, HeadTailProperties
  <2>2. Append(c, Head(q)) = c \o <<Head(q)>>
    BY <2>1, AppendIsConcat
  <2>3. <<Head(q)>> \o Tail(q) = q
    <3>1. <<Head(q)>> \in Seq(S) /\ Len(<<Head(q)>>) = 1 /\ <<Head(q)>>[1] = q[1]
      BY <1>3, <2>1
    <3> DEFINE h == <<Head(q)>>
    <3> HIDE DEF h
    <3>2. /\ h \o Tail(q) \in Seq(S) /\ Len(h \o Tail(q)) = 1 + Len(Tail(q))
          /\ \A i \in 1 .. 1 + Len(Tail(q)) :
                (h \o Tail(q))[i] = IF i <= 1 THEN h[i] ELSE Tail(q)[i - 1]
      BY <2>1, <3>1, ConcatProperties DEF h
    <3>3. /\ Len(Tail(q)) = Len(q) - 1 /\ Len(q) \in Nat \ {0}
          /\ \A i \in 1 .. Len(q) - 1 : Tail(q)[i] = q[i + 1]
      BY <1>3, HeadTailProperties, EmptySeq
    <3>4. \A i \in 1 .. Len(q) : (h \o Tail(q))[i] = q[i]
      BY <3>1, <3>2, <3>3 DEF h
    <3>5. Len(h \o Tail(q)) = Len(q)
      BY <3>2, <3>3
    <3> QED
      BY <3>2, <3>4, <3>5, SeqEqual DEF h
  <2> QED
    BY <1>1, <2>1, <2>2, <2>3, ConcatAssociative
<1> QED
  BY <1>2, <1>3, ConcatProperties

(* The first event whose callback has begun is the first on its way. *)
LEMMA FirstHandled ==
    ASSUME NEW S, NEW c \in Seq(S), NEW q \in Seq(S), 1 \in DOMAIN c
    PROVE  /\ c \o q \in Seq(S) /\ c \o q # <<>> /\ Head(c \o q) = c[1]
           /\ RemoveAt(c, 1) \o q = Tail(c \o q)
<1> DEFINE r == RemoveAt(c, 1)
<1>1. /\ r \in Seq(S) /\ DOMAIN r = 1 .. Len(c) - 1 /\ DOMAIN c = 1 .. Len(c)
      /\ Len(c) \in Nat /\ \A k \in DOMAIN r : r[k] = c[k + 1]
  <2>1. \A k \in Nat \ {0} : ~(k < 1)
    OBVIOUS
  <2> QED
    BY <2>1, Removed
<1> HIDE DEF r
<1>2. Len(r) = Len(c) - 1 /\ Len(c) >= 1 /\ Len(q) \in Nat
  <2>1. Len(r) \in Nat /\ DOMAIN r = 1 .. Len(r) /\ Len(q) \in Nat
    BY <1>1, LenProperties
  <2>2. Len(c) >= 1
    BY <1>1
  <2>3. 1 .. Len(r) = 1 .. Len(c) - 1
    BY <1>1, <2>1
  <2>4. \A a, b \in Nat : 1 .. a = 1 .. b => a = b
    <3> SUFFICES ASSUME NEW a \in Nat, NEW b \in Nat, a < b PROVE 1 .. a # 1 .. b
      OBVIOUS
    <3>1. b \in 1 .. b /\ b \notin 1 .. a
      OBVIOUS
    <3> QED
      BY <3>1
  <2>5. Len(c) - 1 \in Nat
    BY <1>1, <2>2
  <2>6. Len(r) = Len(c) - 1
    BY <2>1, <2>3, <2>4, <2>5
  <2> QED
    BY <2>1, <2>2, <2>6
<1>3. /\ c \o q \in Seq(S) /\ Len(c \o q) = Len(c) + Len(q)
      /\ \A i \in 1 .. Len(c) + Len(q) : (c \o q)[i] = IF i <= Len(c) THEN c[i] ELSE q[i - Len(c)]
  BY ConcatProperties
<1>4. /\ r \o q \in Seq(S) /\ Len(r \o q) = Len(r) + Len(q)
      /\ \A i \in 1 .. Len(r) + Len(q) : (r \o q)[i] = IF i <= Len(r) THEN r[i] ELSE q[i - Len(r)]
  BY <1>1, ConcatProperties
<1> DEFINE e == c \o q
           f == r \o q
<1> HIDE DEF e, f
<1>5. e # <<>> /\ Head(e) = c[1]
  <2>1. e \in Seq(S) /\ Len(e) > 0 /\ e[1] = c[1]
    BY <1>2, <1>3 DEF e
  <2> QED
    BY <2>1
<1>6. /\ Tail(e) \in Seq(S) /\ Len(Tail(e)) = Len(e) - 1
      /\ \A i \in 1 .. Len(e) - 1 : Tail(e)[i] = e[i + 1]
  BY <1>3, <1>5, HeadTailProperties DEF e
<1>7. ASSUME NEW i \in 1 .. Len(f) PROVE f[i] = Tail(e)[i]
  <2>1. Tail(e)[i] = e[i + 1]
    BY <1>2, <1>3, <1>4, <1>6 DEF e, f
  <2>2. CASE i <= Len(r)
    <3>1. f[i] = r[i] /\ e[i + 1] = c[i + 1] /\ i \in DOMAIN r
      BY <1>1, <1>2, <1>3, <1>4, <2>2 DEF e, f
    <3> QED
      BY <1>1, <2>1, <3>1
  <2>3. CASE ~(i <= Len(r))
    <3>1. f[i] = q[i - Len(r)] /\ e[i + 1] = q[i + 1 - Len(c)]
      BY <1>2, <1>3, <1>4, <2>3 DEF e, f
    <3>2. i + 1 - Len(c) = i - Len(r)
      BY <1>1, <1>2
    <3> QED
      BY <2>1, <3>1, <3>2
  <2> QED
    BY <2>2, <2>3
<1>8. f = Tail(e)
  <2>1. Len(f) = Len(Tail(e)) /\ f \in Seq(S)
    BY <1>2, <1>3, <1>4, <1>6 DEF e, f
  <2> QED
    BY <1>6, <1>7, <2>1, SeqEqual
<1> QED
  BY <1>3, <1>5, <1>8 DEF e, f, r

(* An event more says what it shows, and leaves the rest to those before. *)
LEMMA EventSent ==
    ASSUME NEW S, NEW E \in Seq(S), NEW x \in S, NEW v, NEW value,
           v \notin DOMAIN x => LastSays(E, v, value),
           v \in DOMAIN x => x[v] = value
    PROVE  /\ LastSays(Append(E, x), v, value)
           /\ Shows(E, v) \/ v \in DOMAIN x => Shows(Append(E, x), v)
<1> DEFINE A == Append(E, x)
<1>1. /\ Len(E) \in Nat /\ DOMAIN E = 1 .. Len(E) /\ DOMAIN A = 1 .. Len(E) + 1
      /\ \A i \in DOMAIN E : A[i] = E[i]
      /\ A[Len(E) + 1] = x
  BY JobAdded
<1> HIDE DEF A
<1>2. LastSays(A, v, value)
  <2> SUFFICES ASSUME NEW k \in DOMAIN A, v \in DOMAIN A[k],
                      \A m \in DOMAIN A : k < m => v \notin DOMAIN A[m]
               PROVE  A[k][v] = value
    BY DEF LastSays
  <2>1. CASE k = Len(E) + 1
    BY <1>1, <2>1
  <2>2. CASE k # Len(E) + 1
    <3>1. k \in DOMAIN E /\ Len(E) + 1 \in DOMAIN A /\ k < Len(E) + 1
      BY <1>1, <2>2
    <3>2. LastSays(E, v, value)
      BY <1>1, <3>1
    <3>3. \A m \in DOMAIN E : k < m => v \notin DOMAIN E[m]
      BY <1>1
    <3> QED
      BY <1>1, <3>1, <3>2, <3>3 DEF LastSays
  <2> QED
    BY <2>1, <2>2
<1>3. Shows(E, v) \/ v \in DOMAIN x => Shows(A, v)
  <2>1. Len(E) + 1 \in DOMAIN A /\ \A i \in DOMAIN E : i \in DOMAIN A
    BY <1>1
  <2> QED
    BY <1>1, <2>1 DEF Shows
<1> QED
  BY <1>2, <1>3 DEF A

(* When the first is handled, either one to come shows the variable, or it was
   the last and said what the value is. *)
LEMMA EventHandled ==
    ASSUME NEW S, NEW E \in Seq(S), E # <<>>, NEW v, NEW value, LastSays(E, v, value)
    PROVE  /\ LastSays(Tail(E), v, value)
           /\ Shows(E, v) => Shows(Tail(E), v) \/ v \in DOMAIN Head(E)
           /\ v \in DOMAIN Head(E) => Shows(Tail(E), v) \/ Head(E)[v] = value
<1> DEFINE T == Tail(E)
<1>1. /\ 1 \in DOMAIN E /\ Head(E) = E[1] /\ T \in Seq(S)
      /\ \A i \in DOMAIN T : i + 1 \in DOMAIN E /\ T[i] = E[i + 1]
      /\ \A i \in DOMAIN E : i # 1 => i - 1 \in DOMAIN T /\ T[i - 1] = E[i]
  BY JobTaken
<1> HIDE DEF T
<1>2. (\A i \in DOMAIN T : i \in Int) /\ \A i \in DOMAIN E : i \in Int /\ i >= 1
  <2>1. DOMAIN T = 1 .. Len(T) /\ DOMAIN E = 1 .. Len(E) /\ Len(T) \in Nat /\ Len(E) \in Nat
    BY <1>1
  <2> QED
    BY <2>1
<1>3. LastSays(T, v, value)
  <2> SUFFICES ASSUME NEW k \in DOMAIN T, v \in DOMAIN T[k],
                      \A m \in DOMAIN T : k < m => v \notin DOMAIN T[m]
               PROVE  T[k][v] = value
    BY DEF LastSays
  <2>1. ASSUME NEW m \in DOMAIN E, k + 1 < m PROVE v \notin DOMAIN E[m]
    <3>1. m # 1 /\ k < m - 1
      <4>1. k \in Int /\ m \in Int /\ k + 1 \in DOMAIN E
        BY <1>1, <1>2
      <4>2. k + 1 >= 1
        BY <1>2, <4>1
      <4> QED
        BY <2>1, <4>1, <4>2
    <3> QED
      BY <1>1, <3>1
  <2>2. k + 1 \in DOMAIN E /\ T[k] = E[k + 1]
    BY <1>1
  <2> QED
    BY <2>1, <2>2 DEF LastSays
<1>4. Shows(E, v) => Shows(T, v) \/ v \in DOMAIN Head(E)
  BY <1>1 DEF Shows
<1>5. v \in DOMAIN Head(E) => Shows(T, v) \/ Head(E)[v] = value
  <2> SUFFICES ASSUME v \in DOMAIN E[1], ~Shows(T, v) PROVE E[1][v] = value
    BY <1>1
  <2>1. \A m \in DOMAIN E : 1 < m => v \notin DOMAIN E[m]
    <3> SUFFICES ASSUME NEW m \in DOMAIN E, 1 < m PROVE v \notin DOMAIN E[m]
      OBVIOUS
    <3>1. m # 1
      OBVIOUS
    <3>2. m - 1 \in DOMAIN T /\ T[m - 1] = E[m]
      BY <1>1, <3>1
    <3> QED
      BY <3>2 DEF Shows
  <2> QED
    BY <1>1, <2>1 DEF LastSays
<1> QED
  BY <1>3, <1>4, <1>5 DEF T

-----------------------------------------------------------------------------
(* The list without some of its nodes holds the others, each once. *)
LEMMA Remaining ==
    ASSUME NEW S, NEW list \in Seq(S), NEW gone
    PROVE  /\ Without(list, gone) \in Seq(S)
           /\ \E at \in [DOMAIN Without(list, gone) -> DOMAIN list \ gone] :
                 /\ \A j, k \in DOMAIN Without(list, gone) : at[j] = at[k] => j = k
                 /\ \A i \in DOMAIN list \ gone :
                       \E k \in DOMAIN Without(list, gone) : at[k] = i
                 /\ \A k \in DOMAIN Without(list, gone) : Without(list, gone)[k] = list[at[k]]
<1> DEFINE kept == DOMAIN list \ gone
           n == Cardinality(kept)
           Below(i) == {j \in kept : j <= i}
           place == [i \in kept |-> Cardinality(Below(i))]
           at == [k \in 1 .. n |-> CHOOSE i \in kept : Cardinality(Below(i)) = k]
           w == Without(list, gone)
<1>1. DOMAIN list = 1 .. Len(list) /\ Len(list) \in Nat /\ \A i \in DOMAIN list : list[i] \in S
  OBVIOUS
<1>2. IsFiniteSet(DOMAIN list)
  BY <1>1, FS_Interval
<1>3. IsFiniteSet(kept) /\ n \in Nat
  <2>1. kept \in SUBSET DOMAIN list
    OBVIOUS
  <2> QED
    BY <1>2, <2>1, FS_Subset, FS_CardinalityType
<1>4. kept \subseteq Int
  BY <1>1
<1> HIDE DEF kept
<1>5. \A i \in kept : IsFiniteSet(Below(i)) /\ Cardinality(Below(i)) \in 1 .. n
  <2> SUFFICES ASSUME NEW i \in kept
               PROVE  IsFiniteSet(Below(i)) /\ Cardinality(Below(i)) \in 1 .. n
    OBVIOUS
  <2>1. Below(i) \in SUBSET kept /\ i \in Below(i)
    BY <1>4
  <2> HIDE DEF Below
  <2>2. IsFiniteSet(Below(i)) /\ Cardinality(Below(i)) <= n /\ Cardinality(Below(i)) \in Nat
    BY <1>3, <2>1, FS_Subset, FS_CardinalityType
  <2>3. Cardinality(Below(i)) # 0
    BY <2>1, <2>2, FS_EmptySet
  <2> QED
    BY <1>3, <2>2, <2>3
<1>6. \A i, j \in kept : i < j => Cardinality(Below(i)) # Cardinality(Below(j))
  <2> SUFFICES ASSUME NEW i \in kept, NEW j \in kept, i < j
               PROVE  Cardinality(Below(i)) # Cardinality(Below(j))
    OBVIOUS
  <2>1. Below(i) \in SUBSET Below(j) /\ j \in Below(j) /\ j \notin Below(i)
    <3>1. \A m \in kept : m \in Int
      BY <1>4
    <3>2. \A m \in kept : m <= i => m <= j
      BY <3>1
    <3>3. j <= j /\ ~(j <= i)
      BY <3>1
    <3> QED
      BY <3>2, <3>3
  <2> HIDE DEF Below
  <2>2. Below(i) # Below(j)
    BY <2>1
  <2> QED
    BY <1>5, <2>1, <2>2, FS_Subset
<1>7. place \in [kept -> 1 .. n] /\ \A i, j \in kept : place[i] = place[j] => i = j
  <2>1. place \in [kept -> 1 .. n]
    BY <1>5
  <2>2. ASSUME NEW i \in kept, NEW j \in kept, place[i] = place[j], i # j PROVE FALSE
    <3>1. i < j \/ j < i
      BY <1>4, <2>2
    <3> HIDE DEF Below
    <3> QED
      BY <1>6, <2>2, <3>1
  <2> QED
    BY <2>1, <2>2
<1> HIDE DEF n, Below
<1>8. \A k \in 1 .. n : \E i \in kept : place[i] = k
  <2> HIDE DEF place
  <2>1. place \in Injection(kept, 1 .. n)
    BY <1>7 DEF Injection, IsInjective
  <2>2. IsFiniteSet(1 .. n) /\ Cardinality(1 .. n) = n
    BY <1>3, FS_Interval
  <2>3. place \in Surjection(kept, 1 .. n)
    BY <2>1, <2>2, FS_Injection DEF n
  <2> QED
    BY <2>3 DEF Surjection
<1>9. \A k \in 1 .. n : at[k] \in kept /\ place[at[k]] = k
  <2>1. \A k \in 1 .. n : \E i \in kept : Cardinality(Below(i)) = k
    BY <1>8
  <2>2. \A k \in 1 .. n : at[k] \in kept /\ Cardinality(Below(at[k])) = k
    BY <2>1
  <2> HIDE DEF at
  <2> QED
    BY <2>2
<1>10. w = [k \in 1 .. n |-> list[at[k]]]
  BY DEF Without, kept, n, Below, at
<1> HIDE DEF place, at, w
<1>11. at \in [1 .. n -> kept]
  BY <1>9 DEF at
<1>12. \A j, k \in 1 .. n : at[j] = at[k] => j = k
  BY <1>9
<1>13. \A i \in kept : \E k \in 1 .. n : at[k] = i
  <2> SUFFICES ASSUME NEW i \in kept PROVE \E k \in 1 .. n : at[k] = i
    OBVIOUS
  <2>1. place[i] \in 1 .. n
    BY <1>7
  <2>2. at[place[i]] \in kept /\ place[at[place[i]]] = place[i]
    BY <1>9, <2>1
  <2>3. at[place[i]] = i
    BY <1>7, <2>2
  <2> QED
    BY <2>1, <2>3
<1>14. w \in Seq(S)
  <2>1. \A k \in 1 .. n : list[at[k]] \in S
    BY <1>1, <1>11 DEF kept
  <2> QED
    BY <1>3, <1>10, <2>1
<1>15. DOMAIN w = 1 .. n
  BY <1>10
<1>16. \E f \in [DOMAIN w -> kept] :
          /\ \A j, k \in DOMAIN w : f[j] = f[k] => j = k
          /\ \A i \in kept : \E k \in DOMAIN w : f[k] = i
          /\ \A k \in DOMAIN w : w[k] = list[f[k]]
  <2>1. at \in [DOMAIN w -> kept]
    BY <1>11, <1>15
  <2> WITNESS at \in [DOMAIN w -> kept]
  <2> QED
    BY <1>10, <1>12, <1>13, <1>15
<1> QED
  BY <1>14, <1>16 DEF w, kept

(* SetToSeq counts a finite set. *)
LEMMA Counted ==
    ASSUME NEW S, IsFiniteSet(S)
    PROVE  /\ SetToSeq(S) \in Seq(S)
           /\ \A x \in S : \E i \in DOMAIN SetToSeq(S) : SetToSeq(S)[i] = x
           /\ \A i, j \in DOMAIN SetToSeq(S) : SetToSeq(S)[i] = SetToSeq(S)[j] => i = j
<1> DEFINE n == Cardinality(S)
           q == SetToSeq(S)
<1>1. n \in Nat /\ ExistsBijection(1 .. n, S)
  BY FS_CardinalityType
<1>2. q = CHOOSE f \in [1 .. n -> S] : IsInjective(f)
  BY DEF SetToSeq
<1> HIDE DEF n, q
<1>3. \E f \in [1 .. n -> S] : IsInjective(f)
  <2>1. PICK f : f \in Bijection(1 .. n, S)
    BY <1>1 DEF ExistsBijection
  <2> QED
    BY <2>1 DEF Bijection, Injection, IsInjective
<1>4. q \in [1 .. n -> S] /\ IsInjective(q)
  BY <1>2, <1>3
<1>5. q \in Injection(1 .. n, S)
  BY <1>4 DEF Injection, IsInjective
<1>6. IsFiniteSet(1 .. n) /\ Cardinality(1 .. n) = Cardinality(S)
  BY <1>1, FS_Interval DEF n
<1>7. q \in Surjection(1 .. n, S)
  BY <1>5, <1>6, FS_Injection
<1>8. q \in Seq(S) /\ DOMAIN q = 1 .. n
  BY <1>1, <1>4
<1> QED
  BY <1>4, <1>7, <1>8 DEF Surjection, IsInjective, q

-----------------------------------------------------------------------------
(* What the state table says of its variables. *)
LEMMA Variables ==
    ASSUME TvAssumption
    PROVE  /\ \A v \in Vars : /\ TvVar[v].service \in Services /\ v \in VarsOf(TvVar[v].service)
                              /\ TvVar[v].lo \in Int /\ TvVar[v].hi \in Int
                              /\ TvVar[v].def \in Int
           /\ \A s \in Services : VarsOf(s) \subseteq Vars
           /\ IsFiniteSet(Services)
<1>1. DOMAIN TvVar = {"Power", "Channel", "Volume", "Color", "Tint", "Contrast", "Brightness"}
  BY DEF TvVar
<1>2. \A v \in DOMAIN TvVar :
         /\ TvVar[v].service \in {"control", "picture"}
         /\ TvVar[v].lo \in Int /\ TvVar[v].hi \in Int /\ TvVar[v].def \in Int
  BY <1>1 DEF TvVar, Power, Channel, Volume, Color, Tint, Contrast, Brightness, Variable
<1>3. IsFiniteSet(Services)
  <2>1. IsFiniteSet({}) /\ IsFiniteSet({"control"}) /\ IsFiniteSet({"control", "picture"})
    <3>1. IsFiniteSet({} \cup {"control"}) /\ {} \cup {"control"} = {"control"}
      BY FS_EmptySet, FS_AddElement
    <3>2. IsFiniteSet({"control"} \cup {"picture"})
      BY <3>1, FS_AddElement
    <3>3. {"control"} \cup {"picture"} = {"control", "picture"}
      OBVIOUS
    <3> QED
      BY <3>1, <3>2, <3>3, FS_EmptySet
  <2>2. Services \in SUBSET {"control", "picture"}
    BY <1>2 DEF TvAssumption, Services
  <2> QED
    BY <2>1, <2>2, FS_Subset
<1> QED
  BY <1>2, <1>3 DEF TvAssumption, Services, VarsOf

(* A record of the type is one of a service. *)
LEMMA SubscriptionParts ==
    ASSUME NEW x \in AnySubscription
    PROVE  /\ x.tv \in Tvs /\ x.service \in Services
           /\ x.device \in BOOLEAN /\ x.client \in BOOLEAN
           /\ x.queue \in Seq(EventsOf(x.service)) /\ x.called \in Seq(EventsOf(x.service))
           /\ x \in SubscriptionsOf(x.service)
<1>1. PICK s \in Services : x \in SubscriptionsOf(s)
  BY DEF AnySubscription
<1>2. x.service = s
  BY <1>1 DEF SubscriptionsOf
<1> QED
  BY <1>1, <1>2 DEF SubscriptionsOf

(* Fields that change keep their types. *)
LEMMA SubscriptionChanged ==
    ASSUME NEW x \in AnySubscription, NEW d \in BOOLEAN, NEW c \in BOOLEAN,
           NEW q \in Seq(EventsOf(x.service)), NEW e \in Seq(EventsOf(x.service)),
           NEW y, y = [x EXCEPT !.device = d, !.client = c, !.queue = q, !.called = e]
    PROVE  /\ y \in AnySubscription
           /\ y.tv = x.tv /\ y.service = x.service
           /\ y.device = d /\ y.client = c /\ y.queue = q /\ y.called = e
<1>1. x \in SubscriptionsOf(x.service) /\ x.service \in Services
  BY SubscriptionParts
<1> DEFINE s == x.service
           Ev == EventsOf(x.service)
<1> HIDE DEF Ev
<1>2. /\ x \in [tv : Tvs, service : {s}, device : BOOLEAN, client : BOOLEAN,
                queue : Seq(Ev), called : Seq(Ev)]
      /\ q \in Seq(Ev) /\ e \in Seq(Ev)
  BY <1>1 DEF SubscriptionsOf, Ev
<1>3. /\ y \in [tv : Tvs, service : {s}, device : BOOLEAN, client : BOOLEAN,
                queue : Seq(Ev), called : Seq(Ev)]
      /\ y.tv = x.tv /\ y.service = x.service
      /\ y.device = d /\ y.client = c /\ y.queue = q /\ y.called = e
  BY <1>2
<1>4. y \in SubscriptionsOf(s)
  BY <1>3 DEF SubscriptionsOf, Ev
<1> QED
  BY <1>1, <1>3, <1>4 DEF AnySubscription

(* A sequence of which every element is changed. *)
LEMMA Changed ==
    ASSUME NEW S, NEW T, NEW q \in Seq(S), NEW f \in [DOMAIN q -> T]
    PROVE  f \in Seq(T) /\ DOMAIN f = DOMAIN q
<1>1. DOMAIN q = 1 .. Len(q) /\ Len(q) \in Nat
  OBVIOUS
<1> QED
  BY <1>1

(* Nodes may leave the list, and events be announced, while the subscriptions
   of the nodes that left are given back and the others show what they did. *)
LEMMA NodesStay ==
    ASSUME CtrlInv, TvTypes', ListTypes', DOMAIN subs' = DOMAIN subs,
           \A sid \in Sids :
              /\ subs'[sid].tv = subs[sid].tv /\ subs'[sid].service = subs[sid].service
              /\ subs'[sid].client => subs[sid].client
              /\ Followed(sid)' => /\ Followed(sid) /\ OnTheWay(sid)' = OnTheWay(sid)
                                   /\ table'[subs[sid].tv] = table[subs[sid].tv],
           renewed' = renewed, stray' = stray,
           NEW at \in [DOMAIN GlobalDeviceList' -> DOMAIN GlobalDeviceList],
           \A j, k \in DOMAIN GlobalDeviceList' : at[j] = at[k] => j = k,
           \A k \in DOMAIN GlobalDeviceList' :
              /\ GlobalDeviceList'[k].UDN = GlobalDeviceList[at[k]].UDN
              /\ GlobalDeviceList'[k].SID = GlobalDeviceList[at[k]].SID
              /\ GlobalDeviceList'[k].VariableStrVal = GlobalDeviceList[at[k]].VariableStrVal,
           \A i \in DOMAIN GlobalDeviceList :
              \/ \E k \in DOMAIN GlobalDeviceList' : at[k] = i
              \/ \A s \in Services : GlobalDeviceList[i].SID[s] \in Sids =>
                    ~subs'[GlobalDeviceList[i].SID[s]].client
    PROVE  CtrlInv'
<1>1. \A k \in DOMAIN GlobalDeviceList' : at[k] \in DOMAIN GlobalDeviceList
  OBVIOUS
<1>2. NodesInv'
  <2> SUFFICES ASSUME NEW k \in DOMAIN GlobalDeviceList', NEW s \in Services, NEW sid,
                      sid = GlobalDeviceList'[k].SID[s], sid # NoSid
               PROVE  /\ sid \in Sids' /\ sid \notin renewed'
                      /\ subs'[sid].tv = GlobalDeviceList'[k].UDN /\ subs'[sid].service = s
    BY DEF NodesInv, NodeInv
  <2> QED
    BY <1>1 DEF CtrlInv, NodesInv, NodeInv, Sids
<1>3. DevicesInv'
  BY <1>1 DEF CtrlInv, DevicesInv
<1>4. OwnersInv'
  <2> SUFFICES ASSUME NEW sid \in Sids, subs'[sid].client
               PROVE  sid \in InList' \cup renewed' \cup stray'
    BY DEF OwnersInv, Sids
  <2>1. sid \in InList \cup renewed \cup stray
    BY DEF CtrlInv, OwnersInv
  <2>2. CASE sid \in InList
    <3>1. PICK i \in DOMAIN GlobalDeviceList, s \in Services : sid = GlobalDeviceList[i].SID[s]
      BY <2>2 DEF InList
    <3>2. PICK k \in DOMAIN GlobalDeviceList' : at[k] = i
      BY <3>1
    <3> QED
      BY <3>1, <3>2 DEF InList
  <2> QED
    BY <2>1, <2>2
<1>5. EventsInv'
  <2> SUFFICES ASSUME NEW sid \in Sids, Followed(sid)', NEW v \in VarsOf(subs'[sid].service)
               PROVE  LastSays(OnTheWay(sid)', v, table'[subs'[sid].tv][v])
    BY DEF EventsInv, Sids
  <2>1. LastSays(OnTheWay(sid), v, table[subs[sid].tv][v])
    BY DEF CtrlInv, EventsInv
  <2>2. table'[subs'[sid].tv][v] = table[subs[sid].tv][v] /\ OnTheWay(sid)' = OnTheWay(sid)
    OBVIOUS
  <2> QED
    BY <2>1, <2>2
<1>6. RenewedInv'
  BY DEF CtrlInv, RenewedInv, ListTypes, Sids
<1>7. ShownInv'
  <2> SUFFICES ASSUME NEW k \in DOMAIN GlobalDeviceList', NEW s \in Services, NEW sid,
                      sid = GlobalDeviceList'[k].SID[s], sid # NoSid, Followed(sid)',
                      NEW v \in VarsOf(s)
               PROVE  \/ Shows(OnTheWay(sid)', v)
                      \/ GlobalDeviceList'[k].VariableStrVal[v]
                           = table'[GlobalDeviceList'[k].UDN][v]
    BY DEF ShownInv
  <2>1. PICK i \in DOMAIN GlobalDeviceList :
           /\ sid = GlobalDeviceList[i].SID[s]
           /\ GlobalDeviceList'[k].UDN = GlobalDeviceList[i].UDN
           /\ GlobalDeviceList'[k].VariableStrVal = GlobalDeviceList[i].VariableStrVal
    BY <1>1
  <2>2. sid \in Sids /\ subs[sid].tv = GlobalDeviceList[i].UDN
    BY <2>1 DEF CtrlInv, NodesInv, NodeInv
  <2>3. Shows(OnTheWay(sid), v) \/ GlobalDeviceList[i].VariableStrVal[v]
                                     = table[GlobalDeviceList[i].UDN][v]
    BY <2>1, <2>2 DEF CtrlInv, ShownInv
  <2> QED
    BY <2>1, <2>2, <2>3
<1> QED
  BY <1>2, <1>3, <1>4, <1>5, <1>6, <1>7 DEF CtrlInv

(* The same, when no node leaves the list. *)
LEMMA ListStays ==
    ASSUME CtrlInv, TvTypes', ListTypes', DOMAIN subs' = DOMAIN subs,
           \A sid \in Sids :
              /\ subs'[sid].tv = subs[sid].tv /\ subs'[sid].service = subs[sid].service
              /\ subs'[sid].client => subs[sid].client
              /\ Followed(sid)' => /\ Followed(sid) /\ OnTheWay(sid)' = OnTheWay(sid)
                                   /\ table'[subs[sid].tv] = table[subs[sid].tv],
           renewed' = renewed, stray' = stray,
           DOMAIN GlobalDeviceList' = DOMAIN GlobalDeviceList,
           \A k \in DOMAIN GlobalDeviceList :
              /\ GlobalDeviceList'[k].UDN = GlobalDeviceList[k].UDN
              /\ GlobalDeviceList'[k].SID = GlobalDeviceList[k].SID
              /\ GlobalDeviceList'[k].VariableStrVal = GlobalDeviceList[k].VariableStrVal
    PROVE  CtrlInv'
<1> DEFINE at == [k \in DOMAIN GlobalDeviceList' |-> k]
<1>1. /\ at \in [DOMAIN GlobalDeviceList' -> DOMAIN GlobalDeviceList]
      /\ \A k \in DOMAIN GlobalDeviceList' : at[k] = k
  OBVIOUS
<1> HIDE DEF at
<1>2. /\ \A j, k \in DOMAIN GlobalDeviceList' : at[j] = at[k] => j = k
      /\ \A i \in DOMAIN GlobalDeviceList : \E k \in DOMAIN GlobalDeviceList' : at[k] = i
  BY <1>1
<1>3. \A k \in DOMAIN GlobalDeviceList' :
         /\ GlobalDeviceList'[k].UDN = GlobalDeviceList[at[k]].UDN
         /\ GlobalDeviceList'[k].SID = GlobalDeviceList[at[k]].SID
         /\ GlobalDeviceList'[k].VariableStrVal = GlobalDeviceList[at[k]].VariableStrVal
  BY <1>1
<1> QED
  BY <1>1, <1>2, <1>3, NodesStay

(* Nothing that the invariant speaks of changes. *)
LEMMA NothingChanges ==
    ASSUME CtrlInv, TvTypes', UNCHANGED <<table, subs, GlobalDeviceList, renewed, missed, stray>>
    PROVE  CtrlInv'
<1>1. ListTypes'
  BY DEF CtrlInv, ListTypes, Sids
<1>2. \A sid \in Sids : OnTheWay(sid)' = OnTheWay(sid) /\ (Followed(sid)' <=> Followed(sid))
  BY DEF OnTheWay, Followed
<1> QED
  BY <1>1, <1>2, ListStays

(* The subscriptions of nodes that are deleted are given back. *)
LEMMA GiveBack ==
    ASSUME ListTypes, NEW gone \in SUBSET DOMAIN GlobalDeviceList, TvCtrlPointDeleteNode(gone)
    PROVE  /\ subs' \in Seq(AnySubscription) /\ DOMAIN subs' = DOMAIN subs
           /\ \A sid \in Sids :
                 /\ subs'[sid].tv = subs[sid].tv /\ subs'[sid].service = subs[sid].service
                 /\ subs'[sid].client => subs'[sid] = subs[sid]
           /\ \A i \in gone, s \in Services : GlobalDeviceList[i].SID[s] \in Sids =>
                    ~subs'[GlobalDeviceList[i].SID[s]].client
<1> DEFINE Gone(sid) == \E i \in gone, s \in Services : GlobalDeviceList[i].SID[s] = sid
           given(i) == [subs[i] EXCEPT !.client = FALSE, !.device = FALSE, !.queue = <<>>]
<1>1. subs' = [i \in Sids |-> IF Gone(i) THEN given(i) ELSE subs[i]]
  BY DEF TvCtrlPointDeleteNode, GivenBack
<1>2. ASSUME NEW i \in Sids
      PROVE  /\ given(i) \in AnySubscription /\ given(i).tv = subs[i].tv
             /\ given(i).service = subs[i].service /\ given(i).client = FALSE
  <2>1. PICK x : x = subs[i] /\ x \in AnySubscription
    BY DEF ListTypes, Sids
  <2>2. PICK y : y = [x EXCEPT !.client = FALSE, !.device = FALSE, !.queue = <<>>]
    OBVIOUS
  <2> DEFINE Ev == EventsOf(x.service)
  <2> HIDE DEF Ev
  <2>3. /\ x \in [tv : Tvs, service : {x.service}, device : BOOLEAN, client : BOOLEAN,
                  queue : Seq(Ev), called : Seq(Ev)]
        /\ x.service \in Services
    BY <2>1, SubscriptionParts DEF SubscriptionsOf, Ev
  <2>4. /\ y \in [tv : Tvs, service : {x.service}, device : BOOLEAN, client : BOOLEAN,
                  queue : Seq(Ev), called : Seq(Ev)]
        /\ y.tv = x.tv /\ y.service = x.service /\ y.client = FALSE
    <3>1. <<>> \in Seq(Ev)
      OBVIOUS
    <3> QED
      BY <2>2, <2>3, <3>1
  <2>5. y \in SubscriptionsOf(x.service)
    BY <2>4 DEF SubscriptionsOf, Ev
  <2>6. y \in AnySubscription
    BY <2>3, <2>5 DEF AnySubscription
  <2>7. given(i) = y
    BY <2>1, <2>2
  <2> HIDE DEF given
  <2> QED
    BY <2>1, <2>4, <2>6, <2>7
<1> HIDE DEF given
<1>3. \A i \in Sids : subs[i] \in AnySubscription
  BY DEF ListTypes, Sids
<1> HIDE DEF Gone
<1>4. subs' \in [DOMAIN subs -> AnySubscription]
  BY <1>1, <1>2, <1>3 DEF Sids
<1>5. subs' \in Seq(AnySubscription) /\ DOMAIN subs' = DOMAIN subs
  BY <1>4, Changed DEF ListTypes
<1>6. \A sid \in Sids :
         /\ subs'[sid].tv = subs[sid].tv /\ subs'[sid].service = subs[sid].service
         /\ subs'[sid].client => subs'[sid] = subs[sid]
  BY <1>1, <1>2
<1>7. \A i \in gone, s \in Services : Gone(GlobalDeviceList[i].SID[s])
  BY DEF Gone
<1>8. \A sid \in Sids : Gone(sid) => ~subs'[sid].client
  BY <1>1, <1>2
<1> QED
  BY <1>5, <1>6, <1>7, <1>8

(* Nodes are deleted, of the list as it is or with other timeouts. *)
LEMMA NodesGone ==
    ASSUME CtrlInv, TvTypes', NEW gone \in SUBSET DOMAIN GlobalDeviceList,
           NEW aged \in Seq(AnyNode), DOMAIN aged = DOMAIN GlobalDeviceList,
           \A i \in DOMAIN aged :
              /\ aged[i].UDN = GlobalDeviceList[i].UDN /\ aged[i].SID = GlobalDeviceList[i].SID
              /\ aged[i].VariableStrVal = GlobalDeviceList[i].VariableStrVal,
           GlobalDeviceList' = Without(aged, gone), TvCtrlPointDeleteNode(gone),
           UNCHANGED <<table, renewed, missed, stray>>
    PROVE  CtrlInv'
<1>1. ListTypes
  BY DEF CtrlInv
<1>2. /\ subs' \in Seq(AnySubscription) /\ DOMAIN subs' = DOMAIN subs
      /\ \A sid \in Sids :
            /\ subs'[sid].tv = subs[sid].tv /\ subs'[sid].service = subs[sid].service
            /\ subs'[sid].client => subs'[sid] = subs[sid]
      /\ \A i \in gone, s \in Services : GlobalDeviceList[i].SID[s] \in Sids =>
               ~subs'[GlobalDeviceList[i].SID[s]].client
  BY <1>1, GiveBack
<1>3. PICK at \in [DOMAIN GlobalDeviceList' -> DOMAIN aged \ gone] :
         /\ \A j, k \in DOMAIN GlobalDeviceList' : at[j] = at[k] => j = k
         /\ \A i \in DOMAIN aged \ gone : \E k \in DOMAIN GlobalDeviceList' : at[k] = i
         /\ \A k \in DOMAIN GlobalDeviceList' : GlobalDeviceList'[k] = aged[at[k]]
  <2> HIDE DEF Without
  <2> QED
    BY Remaining
<1>4. ListTypes'
  <2>1. GlobalDeviceList' \in Seq(AnyNode)
    BY Remaining
  <2> QED
    BY <1>1, <1>2, <2>1 DEF ListTypes, Sids
<1>5. \A sid \in Sids : Followed(sid)' => Followed(sid) /\ OnTheWay(sid)' = OnTheWay(sid)
  BY <1>2 DEF Followed, OnTheWay
<1>6. at \in [DOMAIN GlobalDeviceList' -> DOMAIN GlobalDeviceList]
  BY <1>3
<1>7. \A k \in DOMAIN GlobalDeviceList' :
         /\ GlobalDeviceList'[k].UDN = GlobalDeviceList[at[k]].UDN
         /\ GlobalDeviceList'[k].SID = GlobalDeviceList[at[k]].SID
         /\ GlobalDeviceList'[k].VariableStrVal = GlobalDeviceList[at[k]].VariableStrVal
  BY <1>3
<1>8. \A i \in DOMAIN GlobalDeviceList :
         \/ \E k \in DOMAIN GlobalDeviceList' : at[k] = i
         \/ \A s \in Services : GlobalDeviceList[i].SID[s] \in Sids =>
               ~subs'[GlobalDeviceList[i].SID[s]].client
  BY <1>2, <1>3
<1>9. \A sid \in Sids : subs'[sid].client => subs[sid].client
  BY <1>2
<1> QED
  BY <1>2, <1>3, <1>4, <1>5, <1>6, <1>7, <1>8, <1>9, NodesStay

(* The first node of a device is one of the list. *)
LEMMA FirstNode ==
    ASSUME ListTypes, NEW tv, Known(tv)
    PROVE  Min({i \in DOMAIN GlobalDeviceList : GlobalDeviceList[i].UDN = tv})
             \in DOMAIN GlobalDeviceList
<1> DEFINE S == {i \in DOMAIN GlobalDeviceList : GlobalDeviceList[i].UDN = tv}
<1>1. S \in SUBSET Nat /\ S # {} /\ S \subseteq DOMAIN GlobalDeviceList
  <2>1. DOMAIN GlobalDeviceList \subseteq Nat
    BY DEF ListTypes
  <2> QED
    BY <2>1 DEF Known
<1> HIDE DEF S
<1>2. \E x \in S : \A y \in S : x <= y
  BY <1>1, LeastElement
<1>3. Min(S) \in S
  BY <1>2 DEF Min
<1> QED
  BY <1>1, <1>3 DEF S

(* A device that is known: its node lives on. *)
LEMMA DeviceKnown ==
    ASSUME CtrlInv, TvTypes', CtrlAssumption, NEW tv,
           GlobalDeviceList' = [i \in DOMAIN GlobalDeviceList |->
             IF GlobalDeviceList[i].UDN = tv THEN [GlobalDeviceList[i] EXCEPT !.AdvrTimeOut = MaxAge]
             ELSE GlobalDeviceList[i]],
           UNCHANGED <<subs, table, renewed, missed, stray>>
    PROVE  CtrlInv'
<1> DEFINE list == GlobalDeviceList
<1>1. /\ list \in Seq(AnyNode)
      /\ \A i \in DOMAIN list : list[i] \in AnyNode
      /\ MaxAge \in Int
  BY DEF CtrlInv, ListTypes, CtrlAssumption
<1>2. \A i \in DOMAIN list :
         /\ list'[i] \in AnyNode
         /\ list'[i].UDN = list[i].UDN /\ list'[i].SID = list[i].SID
         /\ list'[i].VariableStrVal = list[i].VariableStrVal
  BY <1>1 DEF AnyNode
<1>3. list' \in [DOMAIN list -> AnyNode]
  BY <1>2
<1>4. list' \in Seq(AnyNode) /\ DOMAIN list' = DOMAIN list
  BY <1>1, <1>3, Changed
<1>5. ListTypes'
  BY <1>4 DEF CtrlInv, ListTypes, Sids
<1>6. \A sid \in Sids : OnTheWay(sid)' = OnTheWay(sid) /\ (Followed(sid)' <=> Followed(sid))
  BY DEF OnTheWay, Followed
<1> QED
  BY <1>2, <1>4, <1>5, <1>6, ListStays

(* The callbacks of the library. *)
LEMMA AnnouncedStep ==
    ASSUME CtrlInv, NEW sid \in Sids, Announced(sid)
    PROVE  CtrlInv'
<1>1. TvTypes'
  BY DEF Announced, CtrlInv, TvTypes, ctrlVars
<1>2. PICK x : x = subs[sid] /\ x \in AnySubscription
  BY DEF CtrlInv, ListTypes, Sids
<1> DEFINE Ev == EventsOf(x.service)
<1> HIDE DEF Ev
<1>3. /\ x \in [tv : Tvs, service : {x.service}, device : BOOLEAN, client : BOOLEAN,
                queue : Seq(Ev), called : Seq(Ev)]
      /\ x.service \in Services
  BY <1>2, SubscriptionParts DEF SubscriptionsOf, Ev
<1>4. x.queue # <<>>
  BY <1>2 DEF Announced
<1>5. /\ Tail(x.queue) \in Seq(Ev) /\ Append(x.called, Head(x.queue)) \in Seq(Ev)
      /\ Append(x.called, Head(x.queue)) \o Tail(x.queue) = x.called \o x.queue
  BY <1>3, <1>4, JobTaken, JobAdded, EventAnnounced
<1>6. PICK y : y = [x EXCEPT !.queue = Tail(x.queue),
                             !.called = IF x.client THEN Append(x.called, Head(x.queue))
                                        ELSE x.called]
  OBVIOUS
<1>7. /\ y \in [tv : Tvs, service : {x.service}, device : BOOLEAN, client : BOOLEAN,
                queue : Seq(Ev), called : Seq(Ev)]
      /\ y.tv = x.tv /\ y.service = x.service /\ y.device = x.device /\ y.client = x.client
      /\ x.client => y.called \o y.queue = x.called \o x.queue
  BY <1>3, <1>5, <1>6
<1>8. y \in AnySubscription
  BY <1>3, <1>7 DEF AnySubscription, SubscriptionsOf, Ev
<1>9. subs' = [subs EXCEPT ![sid] = y]
  BY <1>2, <1>6 DEF Announced, Sids
<1>10. /\ subs' \in Seq(AnySubscription) /\ DOMAIN subs' = DOMAIN subs /\ subs'[sid] = y
       /\ \A i \in Sids : i # sid => subs'[i] = subs[i]
  BY <1>8, <1>9 DEF CtrlInv, ListTypes, Sids
<1>11. ListTypes'
  BY <1>10 DEF CtrlInv, ListTypes, Announced, ctrlVars, Sids
<1>12. UNCHANGED <<table, renewed, missed, stray, GlobalDeviceList>>
  BY DEF Announced, ctrlVars
<1>13. \A i \in Sids :
          /\ subs'[i].tv = subs[i].tv /\ subs'[i].service = subs[i].service
          /\ subs'[i].client => subs[i].client
          /\ Followed(i)' => Followed(i) /\ OnTheWay(i)' = OnTheWay(i)
  <2> SUFFICES ASSUME NEW i \in Sids
               PROVE  /\ subs'[i].tv = subs[i].tv /\ subs'[i].service = subs[i].service
                      /\ subs'[i].client => subs[i].client
                      /\ Followed(i)' => Followed(i) /\ OnTheWay(i)' = OnTheWay(i)
    OBVIOUS
  <2>1. CASE i = sid
    BY <1>2, <1>7, <1>10, <1>12, <2>1 DEF Followed, OnTheWay
  <2>2. CASE i # sid
    BY <1>10, <1>12, <2>2 DEF Followed, OnTheWay
  <2> QED
    BY <2>1, <2>2
<1> QED
  BY <1>1, <1>10, <1>11, <1>12, <1>13, ListStays

LEMMA LostStep ==
    ASSUME CtrlInv, NEW sid \in Sids, SubscriptionLost(sid)
    PROVE  CtrlInv'
<1>1. PICK x : x = subs[sid] /\ x \in AnySubscription
  BY DEF CtrlInv, ListTypes, Sids
<1>2. TvTypes'
  <2>1. x.tv \in Tvs /\ x.service \in Services
    BY <1>1, SubscriptionParts
  <2> QED
    BY <1>1, <2>1 DEF SubscriptionLost, CtrlInv, TvTypes
<1> DEFINE Ev == EventsOf(x.service)
<1> HIDE DEF Ev
<1>3. /\ x \in [tv : Tvs, service : {x.service}, device : BOOLEAN, client : BOOLEAN,
                queue : Seq(Ev), called : Seq(Ev)]
      /\ x.service \in Services
  BY <1>1, SubscriptionParts DEF SubscriptionsOf, Ev
<1>4. PICK y : y = [x EXCEPT !.client = FALSE]
  OBVIOUS
<1>5. /\ y \in [tv : Tvs, service : {x.service}, device : BOOLEAN, client : BOOLEAN,
                queue : Seq(Ev), called : Seq(Ev)]
      /\ y.tv = x.tv /\ y.service = x.service /\ y.client = FALSE
  BY <1>3, <1>4
<1>6. y \in AnySubscription
  BY <1>3, <1>5 DEF AnySubscription, SubscriptionsOf, Ev
<1>7. subs' = [subs EXCEPT ![sid] = y]
  BY <1>1, <1>4 DEF SubscriptionLost, Sids
<1>8. /\ subs' \in Seq(AnySubscription) /\ DOMAIN subs' = DOMAIN subs /\ subs'[sid] = y
      /\ \A i \in Sids : i # sid => subs'[i] = subs[i]
  BY <1>6, <1>7 DEF CtrlInv, ListTypes, Sids
<1>9. UNCHANGED <<table, renewed, missed, stray, GlobalDeviceList>>
  BY DEF SubscriptionLost
<1>10. ListTypes'
  BY <1>8, <1>9 DEF CtrlInv, ListTypes, Sids
<1>11. \A i \in Sids :
          /\ subs'[i].tv = subs[i].tv /\ subs'[i].service = subs[i].service
          /\ subs'[i].client => subs[i].client
          /\ Followed(i)' => Followed(i) /\ OnTheWay(i)' = OnTheWay(i)
  <2> SUFFICES ASSUME NEW i \in Sids
               PROVE  /\ subs'[i].tv = subs[i].tv /\ subs'[i].service = subs[i].service
                      /\ subs'[i].client => subs[i].client
                      /\ Followed(i)' => Followed(i) /\ OnTheWay(i)' = OnTheWay(i)
    OBVIOUS
  <2>1. CASE i = sid
    BY <1>1, <1>5, <1>8, <2>1 DEF Followed
  <2>2. CASE i # sid
    BY <1>8, <1>9, <2>2 DEF Followed, OnTheWay
  <2> QED
    BY <2>1, <2>2
<1> QED
  BY <1>2, <1>8, <1>9, <1>10, <1>11, ListStays

(* A television that ends forgets its subscriptions and its table. *)
LEMMA ExitStep ==
    ASSUME TvAssumption, CtrlInv, NEW tv \in Tvs, DeviceExits(tv),
           news' \subseteq [type : {"alive", "byebye"}, tv : Tvs],
           UNCHANGED <<GlobalDeviceList, failed, renewed, missed, stray>>
    PROVE  CtrlInv'
<1>1. table' \in [Tvs -> [Vars -> Int]] /\ \A u \in Tvs : u # tv => table'[u] = table[u]
  <2>1. TvDeviceStateTableInit \in [Vars -> Int]
    BY Variables DEF TvDeviceStateTableInit
  <2> QED
    BY <2>1 DEF DeviceExits, CtrlInv, TvTypes
<1>2. TvTypes'
  BY <1>1 DEF DeviceExits, CtrlInv, TvTypes
<1>3. \A i \in Sids : subs[i] \in AnySubscription
  BY DEF CtrlInv, ListTypes, Sids
<1>4. subs' = [i \in Sids |->
                 IF subs[i].tv = tv THEN [subs[i] EXCEPT !.device = FALSE, !.queue = <<>>]
                 ELSE subs[i]]
  BY DEF DeviceExits
<1>5. \A i \in Sids :
        /\ subs'[i] \in AnySubscription
        /\ subs'[i].tv = subs[i].tv /\ subs'[i].service = subs[i].service
        /\ subs'[i].client = subs[i].client
        /\ subs'[i].device => subs'[i] = subs[i] /\ subs[i].tv # tv
  <2> SUFFICES ASSUME NEW i \in Sids
               PROVE  /\ subs'[i] \in AnySubscription
                      /\ subs'[i].tv = subs[i].tv /\ subs'[i].service = subs[i].service
                      /\ subs'[i].client = subs[i].client
                      /\ subs'[i].device => subs'[i] = subs[i] /\ subs[i].tv # tv
    OBVIOUS
  <2>1. CASE subs[i].tv # tv
    BY <1>3, <1>4, <2>1
  <2>2. CASE subs[i].tv = tv
    <3>1. PICK x : x = subs[i] /\ x \in AnySubscription
      BY <1>3
    <3> DEFINE Ev == EventsOf(x.service)
    <3> HIDE DEF Ev
    <3>2. /\ x \in [tv : Tvs, service : {x.service}, device : BOOLEAN, client : BOOLEAN,
                    queue : Seq(Ev), called : Seq(Ev)]
          /\ x.service \in Services
      BY <3>1, SubscriptionParts DEF SubscriptionsOf, Ev
    <3>3. PICK y : y = [x EXCEPT !.device = FALSE, !.queue = <<>>]
      OBVIOUS
    <3>4. /\ y \in [tv : Tvs, service : {x.service}, device : BOOLEAN, client : BOOLEAN,
                    queue : Seq(Ev), called : Seq(Ev)]
          /\ y.tv = x.tv /\ y.service = x.service /\ y.device = FALSE /\ y.client = x.client
      <4>1. <<>> \in Seq(Ev)
        OBVIOUS
      <4> QED
        BY <3>2, <3>3, <4>1
    <3>5. y \in AnySubscription
      BY <3>2, <3>4 DEF AnySubscription, SubscriptionsOf, Ev
    <3>6. subs'[i] = y
      BY <1>4, <2>2, <3>1, <3>3
    <3> QED
      BY <3>1, <3>4, <3>5, <3>6
  <2> QED
    BY <2>1, <2>2
<1>6. subs' \in [DOMAIN subs -> AnySubscription]
  BY <1>4, <1>5 DEF Sids
<1>7. subs' \in Seq(AnySubscription) /\ DOMAIN subs' = DOMAIN subs
  BY <1>6, Changed DEF CtrlInv, ListTypes
<1>8. ListTypes'
  BY <1>7 DEF CtrlInv, ListTypes, Sids
<1>9. \A i \in Sids : Followed(i)' => /\ Followed(i) /\ OnTheWay(i)' = OnTheWay(i)
                                      /\ table'[subs[i].tv] = table[subs[i].tv]
  <2>1. \A i \in Sids : subs[i].tv \in Tvs
    BY <1>3, SubscriptionParts
  <2> QED
    BY <1>1, <1>5, <2>1 DEF Followed, OnTheWay
<1> QED
  BY <1>2, <1>5, <1>7, <1>8, <1>9, ListStays

LEMMA MainStep ==
    ASSUME TvAssumption, CtrlInv, NEW tv \in Tvs, TvDeviceMain(tv)
    PROVE  CtrlInv'
<1>1. news' \subseteq [type : {"alive", "byebye"}, tv : Tvs]
  BY DEF TvDeviceMain, Announce, Receive, CtrlInv, TvTypes
<1>2. UNCHANGED <<GlobalDeviceList, failed, renewed, missed, stray>>
  BY DEF TvDeviceMain
<1>3. CASE DeviceExits(tv)
  BY <1>1, <1>2, <1>3, ExitStep
<1>4. CASE DeviceStarts(tv)
  <2>1. TvTypes'
    BY <1>1, <1>2, <1>4 DEF DeviceStarts, CtrlInv, TvTypes
  <2>2. UNCHANGED <<table, subs>>
    BY <1>4 DEF DeviceStarts
  <2> QED
    BY <1>2, <2>1, <2>2, NothingChanges
<1> QED
  BY <1>3, <1>4 DEF TvDeviceMain

(* The command loop and the timer loop. *)
LEMMA RefreshStep ==
    ASSUME CtrlInv, TvCtrlPointRefresh, UNCHANGED <<table, requests, incrs>>
    PROVE  CtrlInv'
<1>1. TvTypes'
  BY DEF TvCtrlPointRefresh, Receive, CtrlInv, TvTypes
<1>2. ListTypes
  BY DEF CtrlInv
<1>3. /\ subs' \in Seq(AnySubscription) /\ DOMAIN subs' = DOMAIN subs
      /\ \A sid \in Sids :
            /\ subs'[sid].tv = subs[sid].tv /\ subs'[sid].service = subs[sid].service
            /\ subs'[sid].client => subs'[sid] = subs[sid]
      /\ \A i \in DOMAIN GlobalDeviceList, s \in Services : GlobalDeviceList[i].SID[s] \in Sids =>
               ~subs'[GlobalDeviceList[i].SID[s]].client
  BY <1>2, GiveBack DEF TvCtrlPointRefresh, TvCtrlPointRemoveAll
<1>4. GlobalDeviceList' = <<>> /\ UNCHANGED <<table, renewed, missed, stray>>
  BY DEF TvCtrlPointRefresh, TvCtrlPointRemoveAll
<1>5. DOMAIN GlobalDeviceList' = {} /\ GlobalDeviceList' \in Seq(AnyNode)
  BY <1>4
<1>6. ListTypes'
  BY <1>2, <1>3, <1>4, <1>5 DEF ListTypes, Sids
<1>7. \A sid \in Sids : Followed(sid)' => Followed(sid) /\ OnTheWay(sid)' = OnTheWay(sid)
  BY <1>3, <1>4 DEF Followed, OnTheWay
<1>8. \A sid \in Sids : subs'[sid].client => subs[sid].client
  BY <1>3
<1> DEFINE at == [k \in DOMAIN GlobalDeviceList' |-> k]
<1>9. at \in [DOMAIN GlobalDeviceList' -> DOMAIN GlobalDeviceList]
  BY <1>5
<1> HIDE DEF at
<1> QED
  BY <1>1, <1>3, <1>4, <1>5, <1>6, <1>7, <1>8, <1>9, NodesStay

LEMMA TimeoutStep ==
    ASSUME CtrlInv, TvCtrlPointVerifyTimeouts
    PROVE  CtrlInv'
<1>1. TvTypes'
  <2>1. \E S \in SUBSET up : Receive(S, "alive")
    BY DEF TvCtrlPointVerifyTimeouts
  <2> QED
    BY <2>1 DEF TvCtrlPointVerifyTimeouts, Receive, CtrlInv, TvTypes
<1> DEFINE list == GlobalDeviceList
<1>2. PICK aged : aged = [i \in DOMAIN list |-> [list[i] EXCEPT !.AdvrTimeOut = @ - 1]]
  OBVIOUS
<1>3. PICK gone : gone = {i \in DOMAIN aged : aged[i].AdvrTimeOut <= 0}
  OBVIOUS
<1>4. list' = Without(aged, gone) /\ TvCtrlPointDeleteNode(gone)
  BY <1>2, <1>3 DEF TvCtrlPointVerifyTimeouts
<1>5. list \in Seq(AnyNode) /\ \A i \in DOMAIN list : list[i] \in AnyNode
  BY DEF CtrlInv, ListTypes
<1>6. \A i \in DOMAIN list :
         /\ aged[i] \in AnyNode
         /\ aged[i].UDN = list[i].UDN /\ aged[i].SID = list[i].SID
         /\ aged[i].VariableStrVal = list[i].VariableStrVal
  BY <1>2, <1>5 DEF AnyNode
<1>7. aged \in [DOMAIN list -> AnyNode]
  BY <1>2, <1>6
<1>8. aged \in Seq(AnyNode) /\ DOMAIN aged = DOMAIN list
  BY <1>5, <1>7, Changed
<1>9. gone \in SUBSET DOMAIN list
  BY <1>3, <1>8
<1>10. UNCHANGED <<table, renewed, missed, stray>>
  BY DEF TvCtrlPointVerifyTimeouts
<1> QED
  BY <1>1, <1>4, <1>6, <1>8, <1>9, <1>10, NodesGone

LEMMA SendStep ==
    ASSUME TvAssumption, CtrlInv, NEW devnum, NEW op \in {"Set", "Incr"}, NEW v \in Vars,
           NEW arg \in Int, TvCtrlPointSendAction(devnum, op, v, arg)
    PROVE  CtrlInv'
<1>1. GlobalDeviceList[devnum].UDN \in Tvs
  <2>1. GlobalDeviceList[devnum] \in AnyNode
    BY DEF CtrlInv, ListTypes, TvCtrlPointSendAction, TvCtrlPointGetDevice
  <2> QED
    BY <2>1 DEF AnyNode
<1>2. TvTypes'
  BY <1>1 DEF TvCtrlPointSendAction, CtrlInv, TvTypes, ctrlVars
<1>3. UNCHANGED <<table, subs, GlobalDeviceList, renewed, missed, stray>>
  BY DEF TvCtrlPointSendAction, ctrlVars
<1> QED
  BY <1>2, <1>3, NothingChanges

LEMMA CommandStep ==
    ASSUME TvAssumption, CtrlInv, TvCtrlPointCommandLoop
    PROVE  CtrlInv'
<1>1. CASE TvCtrlPointRefresh
  BY <1>1, RefreshStep DEF TvCtrlPointRefresh
<1>2. ASSUME NEW devnum, NEW v \in Vars, TvCtrlPointSendSet(devnum, v)
      PROVE  CtrlInv'
  <2>1. TvVar[v].lo - 1 \in Int /\ TvVar[v].hi \in Int
    BY Variables
  <2> QED
    BY <1>2, <2>1, SendStep DEF TvCtrlPointSendSet
<1>3. ASSUME NEW devnum, NEW v \in Vars, NEW d \in {-1, 1},
             TvCtrlPointSendAction(devnum, "Incr", v, d)
      PROVE  CtrlInv'
  <2>1. d \in Int
    OBVIOUS
  <2> QED
    BY <1>3, <2>1, SendStep
<1> QED
  BY <1>1, <1>2, <1>3 DEF TvCtrlPointCommandLoop

-----------------------------------------------------------------------------
(* A value that is stored, and sent to those who have subscribed. *)

LEMMA ValueSet ==
    ASSUME TvAssumption, CtrlInv, TvTypes', NEW tv \in Tvs, NEW v \in Vars, NEW value \in Int,
           TvDeviceSetServiceTableVar(tv, v, value),
           UNCHANGED <<GlobalDeviceList, renewed, missed, stray>>
    PROVE  CtrlInv'
<1> DEFINE service == TvVar[v].service
           Sent(i) == subs[i].device /\ subs[i].tv = tv /\ subs[i].service = service
<1>1. PICK x : x = [w \in {v} |-> value]
  OBVIOUS
<1>2. /\ subs' = [i \in Sids |-> IF Sent(i) THEN [subs[i] EXCEPT !.queue = Append(@, x)]
                                 ELSE subs[i]]
      /\ table' = [table EXCEPT ![tv][v] = value]
  BY <1>1 DEF TvDeviceSetServiceTableVar
<1>3. service \in Services /\ v \in VarsOf(service) /\ \A s \in Services : VarsOf(s) \subseteq Vars
  BY Variables
<1>4. DOMAIN x = {v} /\ x[v] = value /\ x \in EventsOf(service)
  <2>1. x \in [{v} -> Int] /\ {v} \in SUBSET VarsOf(service)
    BY <1>1, <1>3
  <2> QED
    BY <1>1, <2>1 DEF EventsOf
<1>5. \A i \in Sids : subs[i] \in AnySubscription
  BY DEF CtrlInv, ListTypes, Sids
<1>6. ASSUME NEW i \in Sids, Sent(i)
      PROVE  /\ subs'[i] \in AnySubscription
             /\ subs'[i].tv = tv /\ subs'[i].service = service
             /\ subs'[i].client = subs[i].client /\ subs'[i].device
             /\ OnTheWay(i) \in Seq(EventsOf(service))
             /\ OnTheWay(i)' = Append(OnTheWay(i), x)
  <2>1. PICK z : z = subs[i] /\ z \in AnySubscription
    BY <1>5
  <2>2. z.device /\ z.tv = tv /\ z.service = service
    BY <1>6, <2>1
  <2> DEFINE Ev == EventsOf(service)
  <2>3. /\ z \in [tv : Tvs, service : {service}, device : BOOLEAN, client : BOOLEAN,
                  queue : Seq(Ev), called : Seq(Ev)]
    BY <2>1, <2>2, SubscriptionParts DEF SubscriptionsOf
  <2>4. x \in Ev
    BY <1>4
  <2> HIDE DEF Ev, service
  <2>5. Append(z.queue, x) \in Seq(Ev) /\ z.called \o z.queue \in Seq(Ev)
        /\ z.called \o Append(z.queue, x) = Append(z.called \o z.queue, x)
    BY <2>3, <2>4, JobAdded, EventAnnounced
  <2>6. PICK y : y = [z EXCEPT !.queue = Append(z.queue, x)]
    OBVIOUS
  <2>7. /\ y \in [tv : Tvs, service : {service}, device : BOOLEAN, client : BOOLEAN,
                  queue : Seq(Ev), called : Seq(Ev)]
        /\ y.tv = z.tv /\ y.service = z.service /\ y.device = z.device /\ y.client = z.client
        /\ y.called = z.called /\ y.queue = Append(z.queue, x)
    BY <2>3, <2>5, <2>6
  <2>8. y \in AnySubscription
    BY <1>3, <2>7 DEF AnySubscription, SubscriptionsOf, Ev
  <2>9. subs'[i] = y
    <3> USE DEF service
    <3> QED
      BY <1>2, <1>6, <2>1, <2>6
  <2>10. OnTheWay(i)' = Append(OnTheWay(i), x) /\ OnTheWay(i) \in Seq(Ev)
    BY <2>1, <2>5, <2>7, <2>9 DEF OnTheWay
  <2> QED
    BY <2>1, <2>2, <2>7, <2>8, <2>9, <2>10 DEF Ev
<1> HIDE DEF service
<1>7. ASSUME NEW i \in Sids, ~Sent(i)
      PROVE  subs'[i] = subs[i] /\ OnTheWay(i)' = OnTheWay(i)
  BY <1>2, <1>7 DEF OnTheWay
<1>8. /\ DOMAIN subs' = DOMAIN subs /\ subs' \in Seq(AnySubscription)
      /\ \A i \in Sids : /\ subs'[i].tv = subs[i].tv /\ subs'[i].service = subs[i].service
                         /\ subs'[i].client = subs[i].client /\ subs'[i].device = subs[i].device
  <2>1. \A i \in Sids : subs'[i] \in AnySubscription
    BY <1>5, <1>6, <1>7
  <2> HIDE DEF Sent
  <2>2. subs' \in [DOMAIN subs -> AnySubscription]
    BY <1>2, <2>1 DEF Sids
  <2>3. subs' \in Seq(AnySubscription) /\ DOMAIN subs' = DOMAIN subs
    BY <2>2, Changed DEF CtrlInv, ListTypes
  <2>4. \A i \in Sids : subs[i].device \in BOOLEAN /\ subs'[i].device \in BOOLEAN
    BY <1>5, <2>1, SubscriptionParts
  <2> QED
    BY <1>6, <1>7, <2>3, <2>4 DEF Sent
<1>9. \A i \in Sids : Followed(i)' <=> Followed(i)
  BY <1>8 DEF Followed
<1>10. \A u \in Tvs, w \in Vars :
          table'[u][w] = IF u = tv /\ w = v THEN value ELSE table[u][w]
  BY <1>2 DEF CtrlInv, TvTypes
(* What the events on their way say, and that none is taken away. *)
<1>11. ASSUME NEW i \in Sids, Followed(i), NEW w \in VarsOf(subs[i].service)
       PROVE  /\ LastSays(OnTheWay(i)', w, table'[subs[i].tv][w])
              /\ Shows(OnTheWay(i), w) => Shows(OnTheWay(i)', w)
              /\ table'[subs[i].tv][w] # table[subs[i].tv][w] => Shows(OnTheWay(i)', w)
  <2>1. subs[i].tv \in Tvs /\ subs[i].service \in Services /\ w \in Vars /\ subs[i].device
    BY <1>3, <1>5, <1>11, SubscriptionParts DEF Followed
  <2>2. LastSays(OnTheWay(i), w, table[subs[i].tv][w])
    BY <1>11 DEF CtrlInv, EventsInv
  <2>3. CASE Sent(i)
    <3>1. OnTheWay(i) \in Seq(EventsOf(service)) /\ OnTheWay(i)' = Append(OnTheWay(i), x)
      BY <1>6, <2>3
    <3>2. w \notin DOMAIN x => LastSays(OnTheWay(i), w, table'[subs[i].tv][w])
      BY <1>4, <1>10, <2>1, <2>2
    <3>3. w \in DOMAIN x => x[w] = table'[subs[i].tv][w]
      BY <1>4, <1>10, <2>1, <2>3
    <3>4. /\ LastSays(Append(OnTheWay(i), x), w, table'[subs[i].tv][w])
          /\ Shows(OnTheWay(i), w) \/ w \in DOMAIN x => Shows(Append(OnTheWay(i), x), w)
      BY <1>4, <3>1, <3>2, <3>3, EventSent
    <3>5. table'[subs[i].tv][w] # table[subs[i].tv][w] => w \in DOMAIN x
      BY <1>4, <1>10, <2>1
    <3> QED
      BY <3>1, <3>4, <3>5
  <2>4. CASE ~Sent(i)
    <3>1. ~(subs[i].tv = tv /\ w = v)
      BY <1>3, <2>1, <2>4 DEF VarsOf, service
    <3>2. table'[subs[i].tv][w] = table[subs[i].tv][w]
      BY <1>10, <2>1, <3>1
    <3> QED
      BY <1>7, <2>2, <2>4, <3>2
  <2> QED
    BY <2>3, <2>4
<1> HIDE DEF Sent
<1>12. ListTypes'
  BY <1>8 DEF CtrlInv, ListTypes, Sids
<1>13. NodesInv' /\ DevicesInv'
  BY <1>8 DEF CtrlInv, NodesInv, NodeInv, DevicesInv, Sids
<1>14. OwnersInv'
  BY <1>8 DEF CtrlInv, OwnersInv, InList, Sids
<1>15. EventsInv'
  <2> SUFFICES ASSUME NEW sid \in Sids, Followed(sid)', NEW w \in VarsOf(subs'[sid].service)
               PROVE  LastSays(OnTheWay(sid)', w, table'[subs'[sid].tv][w])
    BY <1>8 DEF EventsInv, Sids
  <2>1. Followed(sid) /\ w \in VarsOf(subs[sid].service) /\ subs'[sid].tv = subs[sid].tv
    BY <1>8, <1>9
  <2> QED
    BY <1>11, <2>1
<1>16. RenewedInv'
  <2> SUFFICES ASSUME NEW sid \in renewed, Followed(sid)', NEW w \in VarsOf(subs'[sid].service)
               PROVE  Shows(OnTheWay(sid)', w)
    BY DEF RenewedInv
  <2>1. sid \in Sids
    BY DEF CtrlInv, ListTypes
  <2>2. Followed(sid) /\ w \in VarsOf(subs[sid].service)
    BY <1>8, <1>9, <2>1
  <2>3. Shows(OnTheWay(sid), w)
    BY <2>2 DEF CtrlInv, RenewedInv
  <2> QED
    BY <1>11, <2>1, <2>2, <2>3
<1>17. ShownInv'
  <2> SUFFICES ASSUME NEW i \in DOMAIN GlobalDeviceList, NEW s \in Services, NEW sid,
                      sid = GlobalDeviceList[i].SID[s], sid # NoSid, Followed(sid)',
                      NEW w \in VarsOf(s)
               PROVE  \/ Shows(OnTheWay(sid)', w)
                      \/ GlobalDeviceList[i].VariableStrVal[w]
                           = table'[GlobalDeviceList[i].UDN][w]
    BY DEF ShownInv
  <2>1. /\ sid \in Sids /\ subs[sid].tv = GlobalDeviceList[i].UDN /\ subs[sid].service = s
    BY DEF CtrlInv, NodesInv, NodeInv
  <2>2. Followed(sid)
    BY <1>9, <2>1
  <2>3. \/ Shows(OnTheWay(sid), w)
        \/ GlobalDeviceList[i].VariableStrVal[w] = table[GlobalDeviceList[i].UDN][w]
    BY <2>2 DEF CtrlInv, ShownInv
  <2> QED
    BY <1>11, <2>1, <2>2, <2>3
<1> QED
  BY <1>12, <1>13, <1>14, <1>15, <1>16, <1>17 DEF CtrlInv

(* The requests a television serves. *)
LEMMA SetStep ==
    ASSUME TvAssumption, CtrlInv, TvTypes', NEW tv \in Tvs, NEW v \in Vars, NEW value \in Int,
           TvDeviceSet(tv, v, value), UNCHANGED <<GlobalDeviceList, renewed, missed, stray>>
    PROVE  CtrlInv'
<1>1. CASE TvDeviceSetServiceTableVar(tv, v, value)
  BY <1>1, ValueSet
<1>2. CASE UNCHANGED <<table, subs>>
  BY <1>2, NothingChanges
<1> QED
  BY <1>1, <1>2 DEF TvDeviceSet

LEMMA SetTypes ==
    ASSUME CtrlInv, NEW tv \in Tvs, NEW v \in Vars, NEW value \in Int,
           TvDeviceSet(tv, v, value)
    PROVE  table' \in [Tvs -> [Vars -> Int]]
<1>1. \/ UNCHANGED table
      \/ table' = [table EXCEPT ![tv][v] = value]
  BY DEF TvDeviceSet, TvDeviceSetServiceTableVar
<1> QED
  BY <1>1 DEF CtrlInv, TvTypes

LEMMA RequestStep ==
    ASSUME TvAssumption, CtrlInv, NEW r \in requests, TvDeviceHandleActionRequest(r),
           UNCHANGED ctrlVars
    PROVE  CtrlInv'
<1>1. r.tv \in Tvs /\ r.var \in Vars /\ r.arg \in Int
  BY DEF CtrlInv, TvTypes
<1>2. UNCHANGED <<GlobalDeviceList, news, failed, renewed, missed, stray>>
  BY DEF ctrlVars
<1>3. UNCHANGED up /\ requests' \subseteq requests
  BY DEF TvDeviceHandleActionRequest
<1>4. CASE TvDeviceSet(r.tv, r.var, r.arg) /\ UNCHANGED incrs
  <2>1. TvTypes'
    <3>1. table' \in [Tvs -> [Vars -> Int]]
      BY <1>1, <1>4, SetTypes
    <3> QED
      BY <1>2, <1>3, <1>4, <3>1 DEF CtrlInv, TvTypes
  <2> QED
    BY <1>1, <1>2, <1>4, <2>1, SetStep
<1>5. CASE /\ incrs' = incrs \cup {[tv |-> r.tv, var |-> r.var,
                                    new |-> table[r.tv][r.var] + r.arg]}
           /\ UNCHANGED <<table, subs>>
  <2>1. table[r.tv][r.var] + r.arg \in Int
    <3>1. table[r.tv][r.var] \in Int
      BY <1>1 DEF CtrlInv, TvTypes
    <3> QED
      BY <1>1, <3>1
  <2>2. incrs' \subseteq [tv : Tvs, var : Vars, new : Int]
    BY <1>1, <1>5, <2>1 DEF CtrlInv, TvTypes
  <2>3. TvTypes'
    BY <1>2, <1>3, <1>5, <2>2 DEF CtrlInv, TvTypes
  <2> QED
    BY <1>2, <1>5, <2>3, NothingChanges
<1> QED
  BY <1>4, <1>5 DEF TvDeviceHandleActionRequest

LEMMA IncrStep ==
    ASSUME TvAssumption, CtrlInv, NEW i \in incrs, TvDeviceIncr(i), UNCHANGED ctrlVars
    PROVE  CtrlInv'
<1>1. i.tv \in Tvs /\ i.var \in Vars /\ i.new \in Int
  BY DEF CtrlInv, TvTypes
<1>2. UNCHANGED <<GlobalDeviceList, news, failed, renewed, missed, stray>>
  BY DEF ctrlVars
<1>3. UNCHANGED <<up, requests>> /\ incrs' \subseteq incrs /\ TvDeviceSet(i.tv, i.var, i.new)
  BY DEF TvDeviceIncr
<1>4. table' \in [Tvs -> [Vars -> Int]]
  BY <1>1, <1>3, SetTypes
<1>5. TvTypes'
  BY <1>2, <1>3, <1>4 DEF CtrlInv, TvTypes
<1> QED
  BY <1>1, <1>2, <1>3, <1>5, SetStep

-----------------------------------------------------------------------------
(* The control point's callback for an event.  If it is the first of those on
   their way, the nodes with its SID show what it says. *)
LEMMA EventStep ==
    ASSUME TvAssumption, CtrlInv, NEW sid \in Sids, NEW k \in DOMAIN subs[sid].called,
           TvCtrlPointHandleEvent(sid, k)
    PROVE  CtrlInv'
<1> DEFINE list == GlobalDeviceList
           Mine(i) == \E s \in Services : list[i].SID[s] = sid
<1>1. TvTypes'
  BY DEF TvCtrlPointHandleEvent, CtrlInv, TvTypes
<1>2. UNCHANGED <<table, renewed, stray>>
  BY DEF TvCtrlPointHandleEvent
<1>3. PICK x : x = subs[sid] /\ x \in AnySubscription
  BY DEF CtrlInv, ListTypes, Sids
<1> DEFINE Ev == EventsOf(x.service)
<1>4. PICK event : event = x.called[k]
  OBVIOUS
<1>5. /\ x \in [tv : Tvs, service : {x.service}, device : BOOLEAN, client : BOOLEAN,
                queue : Seq(Ev), called : Seq(Ev)]
      /\ x.service \in Services /\ event \in Ev /\ k \in DOMAIN x.called
  <2>1. x \in SubscriptionsOf(x.service) /\ x.service \in Services /\ k \in DOMAIN x.called
    BY <1>3, SubscriptionParts
  <2>2. x.called \in Seq(Ev)
    BY <1>3, SubscriptionParts
  <2> HIDE DEF Ev
  <2>3. event \in Ev
    BY <1>4, <2>1, <2>2
  <2> QED
    BY <2>1, <2>3 DEF SubscriptionsOf, Ev
<1>6. DOMAIN event \subseteq VarsOf(x.service) /\ \A v \in DOMAIN event : event[v] \in Int
  <2>1. PICK V \in SUBSET VarsOf(x.service) : event \in [V -> Int]
    BY <1>5 DEF EventsOf
  <2> QED
    BY <2>1
<1> HIDE DEF Ev
(* The subscription. *)
<1>7. RemoveAt(x.called, k) \in Seq(Ev)
  BY <1>5, Removed
<1>8. PICK y : y = [x EXCEPT !.called = RemoveAt(x.called, k)]
  OBVIOUS
<1>9. /\ y \in [tv : Tvs, service : {x.service}, device : BOOLEAN, client : BOOLEAN,
                queue : Seq(Ev), called : Seq(Ev)]
      /\ y.tv = x.tv /\ y.service = x.service /\ y.device = x.device /\ y.client = x.client
      /\ y.queue = x.queue /\ y.called = RemoveAt(x.called, k)
  BY <1>5, <1>7, <1>8
<1>10. y \in AnySubscription
  BY <1>5, <1>9 DEF AnySubscription, SubscriptionsOf, Ev
<1>11. subs' = [subs EXCEPT ![sid] = y]
  BY <1>3, <1>8 DEF TvCtrlPointHandleEvent, Sids
<1>12. /\ subs' \in Seq(AnySubscription) /\ DOMAIN subs' = DOMAIN subs /\ subs'[sid] = y
       /\ \A i \in Sids : i # sid => subs'[i] = subs[i]
       /\ \A i \in Sids : /\ subs'[i].tv = subs[i].tv /\ subs'[i].service = subs[i].service
                          /\ subs'[i].client = subs[i].client /\ subs'[i].device = subs[i].device
  <2>1. /\ subs' \in Seq(AnySubscription) /\ DOMAIN subs' = DOMAIN subs /\ subs'[sid] = y
        /\ \A i \in Sids : i # sid => subs'[i] = subs[i]
    BY <1>10, <1>11 DEF CtrlInv, ListTypes, Sids
  <2> QED
    BY <1>3, <1>9, <2>1
(* The nodes. *)
<1>13. list' = [i \in DOMAIN list |->
                  IF Mine(i) THEN [list[i] EXCEPT !.VariableStrVal = TvStateUpdate(event, @)]
                  ELSE list[i]]
  BY <1>3, <1>4 DEF TvCtrlPointHandleEvent
<1>14. \A i \in DOMAIN list : list[i] \in AnyNode
  BY DEF CtrlInv, ListTypes
<1> HIDE DEF Mine
<1>15. \A i \in DOMAIN list :
          /\ list'[i] \in AnyNode
          /\ list'[i].UDN = list[i].UDN /\ list'[i].SID = list[i].SID
          /\ \A v \in Vars : list'[i].VariableStrVal[v] =
                IF Mine(i) /\ v \in DOMAIN event THEN event[v] ELSE list[i].VariableStrVal[v]
  <2> SUFFICES ASSUME NEW i \in DOMAIN list
               PROVE  /\ list'[i] \in AnyNode
                      /\ list'[i].UDN = list[i].UDN /\ list'[i].SID = list[i].SID
                      /\ \A v \in Vars : list'[i].VariableStrVal[v] =
                            IF Mine(i) /\ v \in DOMAIN event THEN event[v]
                            ELSE list[i].VariableStrVal[v]
    OBVIOUS
  <2>1. CASE Mine(i)
    <3>1. list[i] \in AnyNode /\ list[i].VariableStrVal \in [Vars -> Int \cup {Empty}]
      BY <1>14 DEF AnyNode
    <3>2. PICK val : val = TvStateUpdate(event, list[i].VariableStrVal)
      OBVIOUS
    <3>3. /\ val \in [Vars -> Int \cup {Empty}]
          /\ \A v \in Vars : val[v] = IF v \in DOMAIN event THEN event[v]
                                      ELSE list[i].VariableStrVal[v]
      BY <1>6, <3>1, <3>2 DEF TvStateUpdate
    <3>4. list'[i] = [list[i] EXCEPT !.VariableStrVal = val]
      BY <1>13, <2>1, <3>2
    <3> QED
      BY <2>1, <3>1, <3>3, <3>4 DEF AnyNode
  <2>2. CASE ~Mine(i)
    BY <1>13, <1>14, <2>2
  <2> QED
    BY <2>1, <2>2
<1>16. list' \in Seq(AnyNode) /\ DOMAIN list' = DOMAIN list
  <2>1. list' \in [DOMAIN list -> AnyNode]
    BY <1>13, <1>15
  <2> QED
    BY <2>1, Changed DEF CtrlInv, ListTypes
(* Who still follows: if the event was its own, it was the first, and some node has it. *)
<1>17. \A i \in Sids : Followed(i)' => Followed(i)
  BY <1>12 DEF Followed, TvCtrlPointHandleEvent
<1>18. Followed(sid)' => k = 1 /\ \E i \in DOMAIN list : Mine(i)
  BY DEF Followed, TvCtrlPointHandleEvent, Mine
<1>19. Followed(sid)' =>
          /\ OnTheWay(sid) \in Seq(Ev) /\ OnTheWay(sid) # <<>> /\ Head(OnTheWay(sid)) = event
          /\ OnTheWay(sid)' = Tail(OnTheWay(sid))
  <2> SUFFICES ASSUME Followed(sid)'
               PROVE  /\ OnTheWay(sid) \in Seq(Ev) /\ OnTheWay(sid) # <<>>
                      /\ Head(OnTheWay(sid)) = event /\ OnTheWay(sid)' = Tail(OnTheWay(sid))
    OBVIOUS
  <2>1. k = 1 /\ x.called \in Seq(Ev) /\ x.queue \in Seq(Ev) /\ 1 \in DOMAIN x.called
    BY <1>5, <1>18
  <2>2. /\ x.called \o x.queue \in Seq(Ev) /\ x.called \o x.queue # <<>>
        /\ Head(x.called \o x.queue) = x.called[1]
        /\ RemoveAt(x.called, 1) \o x.queue = Tail(x.called \o x.queue)
    BY <2>1, FirstHandled
  <2> QED
    BY <1>3, <1>4, <1>9, <1>12, <2>1, <2>2 DEF OnTheWay
<1>20. \A i \in Sids : i # sid => OnTheWay(i)' = OnTheWay(i)
  BY <1>12 DEF OnTheWay
<1>21. ListTypes'
  BY <1>2, <1>12, <1>16 DEF CtrlInv, ListTypes, Sids
<1>22. NodesInv'
  <2> SUFFICES ASSUME NEW i \in DOMAIN GlobalDeviceList, NEW s \in Services, NEW j,
                      j = GlobalDeviceList[i].SID[s], j # NoSid
               PROVE  /\ j \in Sids' /\ j \notin renewed
                      /\ subs'[j].tv = GlobalDeviceList[i].UDN /\ subs'[j].service = s
    BY <1>2, <1>15, <1>16 DEF NodesInv, NodeInv
  <2> QED
    BY <1>12 DEF CtrlInv, NodesInv, NodeInv, Sids
<1>23. DevicesInv' /\ OwnersInv'
  <2>1. \A i \in DOMAIN GlobalDeviceList :
           /\ GlobalDeviceList'[i].UDN = GlobalDeviceList[i].UDN
           /\ GlobalDeviceList'[i].SID = GlobalDeviceList[i].SID
    BY <1>15
  <2>2. DOMAIN GlobalDeviceList' = DOMAIN GlobalDeviceList
    BY <1>16
  <2>3. DevicesInv'
    BY <2>1, <2>2 DEF CtrlInv, DevicesInv
  <2>4. InList' = InList
    BY <2>1, <2>2 DEF InList
  <2> QED
    BY <1>2, <1>12, <2>3, <2>4 DEF CtrlInv, OwnersInv, Sids
<1>24. ASSUME Followed(sid)', NEW v \in VarsOf(x.service)
       PROVE  /\ LastSays(OnTheWay(sid)', v, table[x.tv][v])
              /\ Shows(OnTheWay(sid), v) => Shows(OnTheWay(sid)', v) \/ v \in DOMAIN event
              /\ v \in DOMAIN event => Shows(OnTheWay(sid)', v) \/ event[v] = table[x.tv][v]
  <2>1. LastSays(OnTheWay(sid), v, table[x.tv][v])
    BY <1>3, <1>17, <1>24 DEF CtrlInv, EventsInv
  <2>2. PICK E : E = OnTheWay(sid) /\ E \in Seq(Ev) /\ E # <<>> /\ Head(E) = event
                 /\ OnTheWay(sid)' = Tail(E)
    BY <1>19, <1>24
  <2> QED
    BY <2>1, <2>2, EventHandled
<1>25. EventsInv'
  <2> SUFFICES ASSUME NEW i \in Sids, Followed(i)', NEW v \in VarsOf(subs[i].service)
               PROVE  LastSays(OnTheWay(i)', v, table[subs[i].tv][v])
    BY <1>2, <1>12 DEF EventsInv, Sids
  <2>1. CASE i = sid
    BY <1>3, <1>24, <2>1
  <2>2. CASE i # sid
    BY <1>17, <1>20, <2>2 DEF CtrlInv, EventsInv
  <2> QED
    BY <2>1, <2>2
<1>26. RenewedInv'
  <2> SUFFICES ASSUME NEW i \in renewed, Followed(i)', NEW v \in VarsOf(subs'[i].service)
               PROVE  Shows(OnTheWay(i)', v)
    BY <1>2 DEF RenewedInv
  <2>1. i \in Sids
    BY DEF CtrlInv, ListTypes
  <2>2. i # sid
    <3> SUFFICES ASSUME i = sid PROVE FALSE
      OBVIOUS
    <3>1. PICK j \in DOMAIN list, s \in Services : list[j].SID[s] = sid
      BY <1>18 DEF Mine
    <3>2. sid # NoSid
      BY DEF CtrlInv, ListTypes, Sids, NoSid
    <3> QED
      BY <3>1, <3>2 DEF CtrlInv, NodesInv, NodeInv
  <2> QED
    BY <1>12, <1>17, <1>20, <2>1, <2>2 DEF CtrlInv, RenewedInv
<1>27. ShownInv'
  <2> SUFFICES ASSUME NEW i \in DOMAIN list, NEW s \in Services, NEW j,
                      j = list[i].SID[s], j # NoSid, Followed(j)', NEW v \in VarsOf(s)
               PROVE  \/ Shows(OnTheWay(j)', v)
                      \/ list'[i].VariableStrVal[v] = table[list[i].UDN][v]
    BY <1>2, <1>15, <1>16 DEF ShownInv
  <2>1. j \in Sids /\ subs[j].tv = list[i].UDN /\ subs[j].service = s
    BY DEF CtrlInv, NodesInv, NodeInv
  <2>2. v \in Vars
    BY Variables
  <2>3. Followed(j)
    BY <1>17, <2>1
  <2>4. Shows(OnTheWay(j), v) \/ list[i].VariableStrVal[v] = table[list[i].UDN][v]
    BY <2>3 DEF CtrlInv, ShownInv
  <2>5. CASE j = sid
    <3>1. Mine(i)
      BY <2>5 DEF Mine
    <3>2. x.service = s /\ x.tv = list[i].UDN
      BY <1>3, <2>1, <2>5
    <3>3. /\ Shows(OnTheWay(sid), v) => Shows(OnTheWay(sid)', v) \/ v \in DOMAIN event
          /\ v \in DOMAIN event => Shows(OnTheWay(sid)', v) \/ event[v] = table[x.tv][v]
      BY <1>24, <2>5, <3>2
    <3>4. list'[i].VariableStrVal[v] = IF v \in DOMAIN event THEN event[v]
                                       ELSE list[i].VariableStrVal[v]
      BY <1>15, <2>2, <3>1
    <3> QED
      BY <2>4, <2>5, <3>2, <3>3, <3>4
  <2>6. CASE j # sid
    <3>1. Mine(i) => v \notin DOMAIN event
      <4> SUFFICES ASSUME NEW s1 \in Services, list[i].SID[s1] = sid PROVE v \notin DOMAIN event
        BY DEF Mine
      <4>1. sid # NoSid
        BY DEF CtrlInv, ListTypes, Sids, NoSid
      <4>2. x.service = s1
        BY <1>3, <4>1 DEF CtrlInv, NodesInv, NodeInv
      <4>3. s1 # s
        BY <2>6
      <4> QED
        BY <1>6, <4>2, <4>3 DEF VarsOf
    <3> QED
      BY <1>15, <1>20, <2>1, <2>2, <2>4, <2>6, <3>1
  <2> QED
    BY <2>5, <2>6
<1> QED
  BY <1>1, <1>21, <1>22, <1>23, <1>25, <1>26, <1>27 DEF CtrlInv

-----------------------------------------------------------------------------
(* A new subscription: its first event shows all variables of the service. *)
LEMMA NewSubscription ==
    ASSUME TvAssumption, TvTypes, NEW tv \in Tvs, NEW s \in Services,
           NEW x, x = TvDeviceHandleSubscriptionRequest(tv, s)
    PROVE  /\ x \in AnySubscription /\ x.tv = tv /\ x.service = s /\ x.client
           /\ \A v \in VarsOf(s) : /\ LastSays(x.called \o x.queue, v, table[tv][v])
                                   /\ Shows(x.called \o x.queue, v)
<1>1. PICK event : event = [v \in VarsOf(s) |-> table[tv][v]]
  OBVIOUS
<1>2. DOMAIN event = VarsOf(s) /\ \A v \in VarsOf(s) : event[v] = table[tv][v]
  BY <1>1
<1>3. event \in EventsOf(s)
  <2>1. event \in [VarsOf(s) -> Int]
    BY <1>1, Variables DEF TvTypes
  <2> QED
    BY <2>1 DEF EventsOf
<1>4. x = [tv |-> tv, service |-> s, device |-> TRUE, client |-> TRUE,
           queue |-> <<event>>, called |-> <<>>]
  BY <1>1 DEF TvDeviceHandleSubscriptionRequest, Subscription
<1> DEFINE Ev == EventsOf(s)
<1>5. event \in Ev
  BY <1>3
<1> HIDE DEF Ev
<1>6. <<event>> \in Seq(Ev) /\ <<>> \in Seq(Ev) /\ <<>> \o <<event>> = <<event>>
  BY <1>5
<1>7. x \in SubscriptionsOf(s)
  BY <1>4, <1>6 DEF SubscriptionsOf, Ev
<1>8. x \in AnySubscription
  BY <1>7 DEF AnySubscription
<1>9. x.called \o x.queue = <<event>>
  BY <1>4, <1>6
<1>10. \A v \in VarsOf(s) : /\ LastSays(<<event>>, v, table[tv][v])
                            /\ Shows(<<event>>, v)
  <2> DEFINE E == <<event>>
  <2>1. DOMAIN E = {1} /\ E[1] = event
    OBVIOUS
  <2> HIDE DEF E
  <2>2. \A v \in VarsOf(s) : LastSays(E, v, table[tv][v]) /\ Shows(E, v)
    BY <1>2, <2>1 DEF LastSays, Shows
  <2> QED
    BY <2>2 DEF E
<1> QED
  BY <1>4, <1>8, <1>9, <1>10

(* New subscriptions, after all there are. *)
LEMMA SubscriptionsMade ==
    ASSUME CtrlInv, TvTypes', NEW r \in Seq(AnySubscription), subs' = subs \o r,
           \A k \in DOMAIN r : \A v \in VarsOf(r[k].service) :
              /\ LastSays(r[k].called \o r[k].queue, v, table[r[k].tv][v])
              /\ Shows(r[k].called \o r[k].queue, v),
           UNCHANGED <<table, missed>>
    PROVE  /\ subs' \in Seq(AnySubscription)
           /\ \A sid \in Sids : /\ sid \in Sids' /\ subs'[sid] = subs[sid]
                                /\ (Followed(sid)' <=> Followed(sid))
                                /\ OnTheWay(sid)' = OnTheWay(sid)
           /\ \A sid \in Sids' \ Sids : /\ sid - Len(subs) \in DOMAIN r
                                        /\ subs'[sid] = r[sid - Len(subs)]
                                        /\ \A v \in VarsOf(subs'[sid].service) :
                                              Shows(OnTheWay(sid)', v)
           /\ EventsInv'
<1>1. /\ subs' \in Seq(AnySubscription)
      /\ \A i \in DOMAIN subs : i \in DOMAIN subs' /\ subs'[i] = subs[i]
      /\ \A i \in DOMAIN subs' :
            \/ i \in DOMAIN subs
            \/ i - Len(subs) \in DOMAIN r /\ subs'[i] = r[i - Len(subs)]
  BY JobsAdded DEF CtrlInv, ListTypes
<1>2. \A sid \in Sids : /\ sid \in Sids' /\ subs'[sid] = subs[sid]
                        /\ (Followed(sid)' <=> Followed(sid))
                        /\ OnTheWay(sid)' = OnTheWay(sid)
  BY <1>1 DEF Followed, OnTheWay, Sids
<1>3. ASSUME NEW sid \in Sids', sid \notin Sids
      PROVE  /\ sid - Len(subs) \in DOMAIN r /\ subs'[sid] = r[sid - Len(subs)]
             /\ \A v \in VarsOf(subs'[sid].service) :
                   /\ Shows(OnTheWay(sid)', v)
                   /\ LastSays(OnTheWay(sid)', v, table'[subs'[sid].tv][v])
  <2>1. PICK k \in DOMAIN r : k = sid - Len(subs) /\ subs'[sid] = r[k]
    BY <1>1, <1>3 DEF Sids
  <2>2. OnTheWay(sid)' = r[k].called \o r[k].queue
    BY <2>1 DEF OnTheWay
  <2> QED
    BY <2>1, <2>2
<1>4. EventsInv'
  <2> SUFFICES ASSUME NEW sid \in Sids', Followed(sid)', NEW v \in VarsOf(subs'[sid].service)
               PROVE  LastSays(OnTheWay(sid)', v, table'[subs'[sid].tv][v])
    BY DEF EventsInv
  <2>1. CASE sid \in Sids
    BY <1>2, <2>1 DEF CtrlInv, EventsInv
  <2> QED
    BY <1>3, <2>1
<1> QED
  BY <1>1, <1>2, <1>3, <1>4

(* A device that is not known, and the subscriptions to its services. *)
LEMMA DeviceAdded ==
    ASSUME TvAssumption, CtrlAssumption, CtrlInv, TvTypes', NEW tv \in Tvs, ~Known(tv),
           NEW ok \in SUBSET Services, Added(tv, ok),
           UNCHANGED <<table, renewed, missed, stray>>
    PROVE  CtrlInv'
<1> DEFINE list == GlobalDeviceList
<1>1. PICK new : new = SetToSeq(ok)
  OBVIOUS
<1>2. /\ new \in Seq(ok)
      /\ \A s \in ok : \E i \in DOMAIN new : new[i] = s
      /\ \A i, j \in DOMAIN new : new[i] = new[j] => i = j
  <2>1. IsFiniteSet(ok)
    BY Variables, FS_Subset
  <2> QED
    BY <1>1, <2>1, Counted
<1>3. PICK r : r = [i \in DOMAIN new |-> TvDeviceHandleSubscriptionRequest(tv, new[i])]
  OBVIOUS
<1>4. PICK sid : sid = [s \in Services |->
                          IF s \in ok THEN Len(subs) + CHOOSE i \in DOMAIN new : new[i] = s
                          ELSE NoSid]
  OBVIOUS
<1>5. subs' = subs \o r /\ list' = Append(list, Node(tv, sid))
  BY <1>1, <1>3, <1>4 DEF Added
<1>6. \A i \in DOMAIN new :
         /\ new[i] \in ok /\ r[i] \in AnySubscription
         /\ r[i].tv = tv /\ r[i].service = new[i]
         /\ \A v \in VarsOf(new[i]) : /\ LastSays(r[i].called \o r[i].queue, v, table[tv][v])
                                      /\ Shows(r[i].called \o r[i].queue, v)
  <2> SUFFICES ASSUME NEW i \in DOMAIN new
               PROVE  /\ new[i] \in ok /\ r[i] \in AnySubscription
                      /\ r[i].tv = tv /\ r[i].service = new[i]
                      /\ \A v \in VarsOf(new[i]) :
                            /\ LastSays(r[i].called \o r[i].queue, v, table[tv][v])
                            /\ Shows(r[i].called \o r[i].queue, v)
    OBVIOUS
  <2>1. PICK s \in Services : s = new[i] /\ s \in ok
    BY <1>2
  <2>2. PICK x : x = r[i] /\ x = TvDeviceHandleSubscriptionRequest(tv, s)
    BY <1>3, <2>1
  <2>3. TvTypes
    BY DEF CtrlInv
  <2> QED
    BY <2>1, <2>2, <2>3, NewSubscription
<1>7. r \in Seq(AnySubscription) /\ DOMAIN r = DOMAIN new
  <2>1. r \in [DOMAIN new -> AnySubscription]
    BY <1>3, <1>6
  <2> QED
    BY <1>2, <2>1, Changed
<1>8. /\ subs' \in Seq(AnySubscription)
      /\ \A i \in Sids : /\ i \in Sids' /\ subs'[i] = subs[i]
                         /\ (Followed(i)' <=> Followed(i))
                         /\ OnTheWay(i)' = OnTheWay(i)
      /\ \A i \in Sids' \ Sids : /\ i - Len(subs) \in DOMAIN r
                                 /\ subs'[i] = r[i - Len(subs)]
                                 /\ \A v \in VarsOf(subs'[i].service) : Shows(OnTheWay(i)', v)
      /\ EventsInv'
  BY <1>5, <1>6, <1>7, SubscriptionsMade
<1>9. Len(subs) \in Nat /\ Sids = 1 .. Len(subs)
  BY DEF CtrlInv, ListTypes, Sids
<1>10. \A k \in DOMAIN r : Len(subs) + k \in Sids' \ Sids /\ k \in Nat
  <2>1. Len(subs') = Len(subs) + Len(r) /\ Sids' = 1 .. Len(subs')
    BY <1>5, <1>7, <1>8, ConcatProperties DEF CtrlInv, ListTypes, Sids
  <2>2. DOMAIN r = 1 .. Len(r) /\ Len(r) \in Nat
    BY <1>7
  <2> QED
    BY <1>9, <2>1, <2>2
(* The new node has a new subscription for each service that succeeded. *)
<1>11. \A s \in Services :
          /\ sid[s] \in Nat
          /\ s \notin ok => sid[s] = NoSid
          /\ s \in ok => /\ sid[s] \in Sids' \ Sids
                         /\ subs'[sid[s]].tv = tv /\ subs'[sid[s]].service = s
  <2> SUFFICES ASSUME NEW s \in Services
               PROVE  /\ sid[s] \in Nat
                      /\ s \notin ok => sid[s] = NoSid
                      /\ s \in ok => /\ sid[s] \in Sids' \ Sids
                                     /\ subs'[sid[s]].tv = tv /\ subs'[sid[s]].service = s
    OBVIOUS
  <2>1. CASE s \notin ok
    BY <1>4, <2>1 DEF NoSid
  <2>2. CASE s \in ok
    <3>1. PICK k \in DOMAIN new : k = (CHOOSE i \in DOMAIN new : new[i] = s) /\ new[k] = s
      BY <1>2, <2>2
    <3>2. sid[s] = Len(subs) + k
      BY <1>4, <2>2, <3>1
    <3>3. k \in DOMAIN r /\ k \in Nat /\ sid[s] \in Sids' \ Sids
      BY <1>7, <1>10, <3>2
    <3>4. sid[s] \in Nat /\ sid[s] - Len(subs) = k
      BY <1>9, <3>2, <3>3
    <3>5. subs'[sid[s]] = r[k]
      BY <1>8, <3>3, <3>4
    <3> QED
      BY <1>6, <2>2, <3>1, <3>3, <3>4, <3>5
  <2> QED
    BY <2>1, <2>2
<1>12. \A i \in Sids' \ Sids : \E s \in Services : sid[s] = i
  <2> SUFFICES ASSUME NEW i \in Sids' \ Sids PROVE \E s \in Services : sid[s] = i
    OBVIOUS
  <2>1. PICK k \in DOMAIN new : k = i - Len(subs)
    BY <1>7, <1>8
  <2>2. PICK s \in ok : s = new[k]
    BY <1>6
  <2>3. (CHOOSE m \in DOMAIN new : new[m] = s) = k
    BY <1>2, <2>2
  <2>4. sid[s] = Len(subs) + k
    BY <1>4, <2>3
  <2>5. i \in Int
    BY <1>8 DEF Sids
  <2> QED
    BY <1>9, <2>1, <2>4, <2>5
(* The list. *)
<1>13. PICK node : /\ node = Node(tv, sid) /\ node \in AnyNode
                   /\ node.UDN = tv /\ node.SID = sid
  <2>1. sid \in [Services -> Nat] /\ MaxAge \in Int
    BY <1>4, <1>11 DEF CtrlAssumption
  <2>2. PICK val : val = [v \in Vars |-> Empty]
    OBVIOUS
  <2>3. val \in [Vars -> Int \cup {Empty}]
    BY <2>2
  <2>4. Node(tv, sid) = [UDN |-> tv, AdvrTimeOut |-> MaxAge, SID |-> sid,
                         VariableStrVal |-> val]
    BY <2>2 DEF Node
  <2> QED
    BY <2>1, <2>3, <2>4 DEF AnyNode
<1>14. PICK n \in Nat :
          /\ list' \in Seq(AnyNode)
          /\ DOMAIN list = 1 .. n /\ DOMAIN list' = 1 .. n + 1
          /\ \A i \in DOMAIN list : list'[i] = list[i]
          /\ list'[n + 1] = node
  BY <1>5, <1>13, JobAdded DEF CtrlInv, ListTypes
<1>15. \A i \in DOMAIN list' : i \in DOMAIN list \/ i = n + 1
  BY <1>14
<1>16. \A i \in DOMAIN list : i \in DOMAIN list' /\ i # n + 1
  BY <1>14
<1>17. ListTypes'
  BY <1>8, <1>14 DEF CtrlInv, ListTypes
<1>18. NodesInv'
  <2> SUFFICES ASSUME NEW i \in DOMAIN list', NEW s \in Services, NEW j,
                      j = list'[i].SID[s], j # NoSid
               PROVE  /\ j \in Sids' /\ j \notin renewed
                      /\ subs'[j].tv = list'[i].UDN /\ subs'[j].service = s
    BY DEF NodesInv, NodeInv
  <2>1. CASE i \in DOMAIN list
    BY <1>8, <1>14, <2>1 DEF CtrlInv, NodesInv, NodeInv
  <2>2. CASE i = n + 1
    <3>1. j = sid[s] /\ list'[i].UDN = tv
      BY <1>13, <1>14, <2>2
    <3>2. s \in ok
      BY <1>11, <3>1
    <3> QED
      BY <1>11, <3>1, <3>2 DEF CtrlInv, ListTypes
  <2> QED
    BY <1>15, <2>1, <2>2
<1>19. DevicesInv'
  <2>1. \A i \in DOMAIN list : list'[i].UDN # tv
    BY <1>14 DEF Known
  <2>2. list'[n + 1].UDN = tv
    BY <1>13, <1>14
  <2> QED
    BY <1>14, <1>15, <2>1, <2>2 DEF CtrlInv, DevicesInv
<1>20. OwnersInv'
  <2> SUFFICES ASSUME NEW i \in Sids', subs'[i].client
               PROVE  i \in InList' \cup renewed \cup stray
    BY DEF OwnersInv
  <2>1. CASE i \in Sids
    <3>1. i \in InList \cup renewed \cup stray
      BY <1>8, <2>1 DEF CtrlInv, OwnersInv
    <3>2. i \in InList => i \in InList'
      BY <1>14, <1>16 DEF InList
    <3> QED
      BY <3>1, <3>2
  <2>2. CASE i \notin Sids
    <3>1. PICK s \in Services : sid[s] = i
      BY <1>12, <2>2
    <3>2. n + 1 \in DOMAIN list' /\ list'[n + 1].SID[s] = i
      BY <1>13, <1>14, <3>1
    <3> QED
      BY <3>2 DEF InList
  <2> QED
    BY <2>1, <2>2
<1>21. RenewedInv'
  BY <1>8 DEF CtrlInv, RenewedInv, ListTypes
<1>22. ShownInv'
  <2> SUFFICES ASSUME NEW i \in DOMAIN list', NEW s \in Services, NEW j,
                      j = list'[i].SID[s], j # NoSid, Followed(j)', NEW v \in VarsOf(s)
               PROVE  \/ Shows(OnTheWay(j)', v)
                      \/ list'[i].VariableStrVal[v] = table[list'[i].UDN][v]
    BY DEF ShownInv
  <2>1. CASE i \in DOMAIN list
    <3>1. j = list[i].SID[s] /\ list'[i] = list[i]
      BY <1>14, <2>1
    <3>2. j \in Sids
      BY <2>1, <3>1 DEF CtrlInv, NodesInv, NodeInv
    <3>3. Shows(OnTheWay(j), v) \/ list[i].VariableStrVal[v] = table[list[i].UDN][v]
      BY <1>8, <2>1, <3>1, <3>2 DEF CtrlInv, ShownInv
    <3> QED
      BY <1>8, <3>1, <3>2, <3>3
  <2>2. CASE i = n + 1
    <3>1. j = sid[s]
      BY <1>13, <1>14, <2>2
    <3>2. j \in Sids' \ Sids /\ subs'[j].service = s
      BY <1>11, <3>1
    <3> QED
      BY <1>8, <3>2
  <2> QED
    BY <1>15, <2>1, <2>2
<1> QED
  BY <1>8, <1>17, <1>18, <1>19, <1>20, <1>21, <1>22 DEF CtrlInv

LEMMA DiscoveryStep ==
    ASSUME TvAssumption, CtrlAssumption, CtrlInv, NEW e, HandleDiscovery(e)
    PROVE  CtrlInv'
<1>1. /\ e.tv \in Tvs /\ news' \subseteq news
      /\ UNCHANGED <<up, table, requests, incrs, failed, renewed, missed, stray>>
  BY DEF HandleDiscovery, CtrlInv, TvTypes
<1>2. TvTypes'
  BY <1>1 DEF CtrlInv, TvTypes
<1>3. CASE TvCtrlPointAddDevice(e.tv)
  <2>1. CASE ~Known(e.tv)
    <3>1. PICK ok \in SUBSET Services : Added(e.tv, ok)
      BY <1>3, <2>1 DEF TvCtrlPointAddDevice
    <3> QED
      BY <1>1, <1>2, <2>1, <3>1, DeviceAdded
  <2>2. CASE Known(e.tv)
    <3>1. /\ GlobalDeviceList' = [i \in DOMAIN GlobalDeviceList |->
                IF GlobalDeviceList[i].UDN = e.tv
                THEN [GlobalDeviceList[i] EXCEPT !.AdvrTimeOut = MaxAge]
                ELSE GlobalDeviceList[i]]
          /\ UNCHANGED subs
      BY <1>3, <2>2 DEF TvCtrlPointAddDevice
    <3> QED
      BY <1>1, <1>2, <3>1, DeviceKnown
  <2> QED
    BY <2>1, <2>2
<1>4. CASE UNCHANGED <<GlobalDeviceList, subs>>
  BY <1>1, <1>2, <1>4, NothingChanges
<1>5. CASE TvCtrlPointRemoveDevice(e.tv)
  <2>1. CASE Known(e.tv)
    <3>1. PICK gone : gone = {Min({i \in DOMAIN GlobalDeviceList :
                                      GlobalDeviceList[i].UDN = e.tv})}
      OBVIOUS
    <3>2. GlobalDeviceList' = Without(GlobalDeviceList, gone) /\ TvCtrlPointDeleteNode(gone)
      BY <1>5, <2>1, <3>1 DEF TvCtrlPointRemoveDevice
    <3>3. gone \in SUBSET DOMAIN GlobalDeviceList
      BY <2>1, <3>1, FirstNode DEF CtrlInv
    <3>4. GlobalDeviceList \in Seq(AnyNode)
      BY DEF CtrlInv, ListTypes
    <3>5. PICK aged : aged = GlobalDeviceList
      OBVIOUS
    <3> QED
      BY <1>1, <1>2, <3>2, <3>3, <3>4, <3>5, NodesGone
  <2>2. CASE ~Known(e.tv)
    BY <1>4, <1>5, <2>2 DEF TvCtrlPointRemoveDevice
  <2> QED
    BY <2>1, <2>2
<1> QED
  BY <1>3, <1>4, <1>5 DEF HandleDiscovery

(* A renewal that failed ends in a new subscription, whose SID is noted later. *)
LEMMA ResubscribeStep ==
    ASSUME TvAssumption, CtrlInv, NEW f \in failed, Resubscribe(f)
    PROVE  CtrlInv'
<1>1. /\ f.tv \in Tvs /\ f.service \in Services /\ failed' \subseteq failed
      /\ UNCHANGED <<up, table, requests, incrs, GlobalDeviceList, news, missed, stray>>
  BY DEF Resubscribe, CtrlInv, TvTypes
<1>2. TvTypes'
  BY <1>1 DEF CtrlInv, TvTypes
<1>3. CASE UNCHANGED <<subs, renewed>>
  BY <1>1, <1>2, <1>3, NothingChanges
<1>4. CASE /\ subs' = Append(subs, TvDeviceHandleSubscriptionRequest(f.tv, f.service))
           /\ renewed' = renewed \cup {Len(subs) + 1}
  <2>1. PICK x : x = TvDeviceHandleSubscriptionRequest(f.tv, f.service)
    OBVIOUS
  <2>2. /\ x \in AnySubscription /\ x.tv = f.tv /\ x.service = f.service
        /\ \A v \in VarsOf(f.service) : /\ LastSays(x.called \o x.queue, v, table[f.tv][v])
                                        /\ Shows(x.called \o x.queue, v)
    BY <1>1, <2>1, NewSubscription DEF CtrlInv
  <2>3. subs \in Seq(AnySubscription)
    BY DEF CtrlInv, ListTypes
  <2>4. PICK r : r = <<x>>
    OBVIOUS
  <2>5. /\ r \in Seq(AnySubscription) /\ DOMAIN r = {1} /\ r[1] = x /\ subs' = subs \o r
    <3>1. subs' = Append(subs, x)
      BY <1>4, <2>1
    <3> QED
      BY <2>2, <2>3, <2>4, <3>1, AppendIsConcat
  <2>6. \A k \in DOMAIN r : \A v \in VarsOf(r[k].service) :
           /\ LastSays(r[k].called \o r[k].queue, v, table[r[k].tv][v])
           /\ Shows(r[k].called \o r[k].queue, v)
    BY <2>2, <2>5
  <2>7. /\ subs' \in Seq(AnySubscription)
        /\ \A sid \in Sids : /\ sid \in Sids' /\ subs'[sid] = subs[sid]
                             /\ (Followed(sid)' <=> Followed(sid))
                             /\ OnTheWay(sid)' = OnTheWay(sid)
        /\ \A sid \in Sids' \ Sids : /\ sid - Len(subs) \in DOMAIN r
                                     /\ subs'[sid] = r[sid - Len(subs)]
                                     /\ \A v \in VarsOf(subs'[sid].service) :
                                           Shows(OnTheWay(sid)', v)
        /\ EventsInv'
    BY <1>1, <1>2, <2>5, <2>6, SubscriptionsMade
  <2>8. /\ Len(subs) + 1 \in Sids' \ Sids
        /\ \A sid \in Sids' \ Sids : sid = Len(subs) + 1
    <3>1. PICK z : z = TvDeviceHandleSubscriptionRequest(f.tv, f.service) /\ z \in AnySubscription
      BY <2>1, <2>2
    <3>2. subs' = Append(subs, z)
      BY <1>4, <3>1
    <3>3. /\ Len(subs) \in Nat /\ DOMAIN subs = 1 .. Len(subs)
          /\ DOMAIN subs' = 1 .. Len(subs) + 1
      BY <2>3, <3>1, <3>2, JobAdded
    <3> QED
      BY <3>3 DEF Sids
  <2>9. ListTypes'
    BY <1>1, <1>4, <2>7, <2>8 DEF CtrlInv, ListTypes
  <2>10. NodesInv'
    <3> SUFFICES ASSUME NEW i \in DOMAIN GlobalDeviceList, NEW s \in Services, NEW j,
                        j = GlobalDeviceList[i].SID[s], j # NoSid
                 PROVE  /\ j \in Sids' /\ j \notin renewed'
                        /\ subs'[j].tv = GlobalDeviceList[i].UDN /\ subs'[j].service = s
      BY <1>1 DEF NodesInv, NodeInv
    <3>1. /\ j \in Sids /\ j \notin renewed
          /\ subs[j].tv = GlobalDeviceList[i].UDN /\ subs[j].service = s
      BY DEF CtrlInv, NodesInv, NodeInv
    <3> QED
      BY <1>4, <2>7, <2>8, <3>1
  <2>11. DevicesInv'
    BY <1>1 DEF CtrlInv, DevicesInv
  <2>12. OwnersInv'
    <3>1. InList' = InList
      BY <1>1 DEF InList
    <3> QED
      BY <1>1, <1>4, <2>7, <2>8, <3>1 DEF CtrlInv, OwnersInv
  <2>13. RenewedInv'
    <3> SUFFICES ASSUME NEW sid \in renewed', Followed(sid)', NEW v \in VarsOf(subs'[sid].service)
                 PROVE  Shows(OnTheWay(sid)', v)
      BY DEF RenewedInv
    <3>1. CASE sid \in renewed
      BY <2>7, <3>1 DEF CtrlInv, RenewedInv, ListTypes
    <3>2. CASE sid = Len(subs) + 1
      BY <2>7, <2>8, <3>2
    <3> QED
      BY <1>4, <3>1, <3>2
  <2>14. ShownInv'
    <3> SUFFICES ASSUME NEW i \in DOMAIN GlobalDeviceList, NEW s \in Services, NEW j,
                        j = GlobalDeviceList[i].SID[s], j # NoSid, Followed(j)',
                        NEW v \in VarsOf(s)
                 PROVE  \/ Shows(OnTheWay(j)', v)
                        \/ GlobalDeviceList[i].VariableStrVal[v]
                             = table[GlobalDeviceList[i].UDN][v]
      BY <1>1 DEF ShownInv
    <3>1. j \in Sids
      BY DEF CtrlInv, NodesInv, NodeInv
    <3>2. \/ Shows(OnTheWay(j), v)
          \/ GlobalDeviceList[i].VariableStrVal[v] = table[GlobalDeviceList[i].UDN][v]
      BY <2>7, <3>1 DEF CtrlInv, ShownInv
    <3> QED
      BY <2>7, <3>1, <3>2
  <2> QED
    BY <1>2, <2>7, <2>9, <2>10, <2>11, <2>12, <2>13, <2>14 DEF CtrlInv
<1> QED
  BY <1>3, <1>4 DEF Resubscribe

LEMMA UpdateStep ==
    ASSUME CtrlInv, NEW sid \in Sids, TvCtrlPointHandleSubscribeUpdate(sid)
    PROVE  CtrlInv'
<1> DEFINE list == GlobalDeviceList
<1>1. PICK x : x = subs[sid] /\ x \in AnySubscription
  BY DEF CtrlInv, ListTypes, Sids
<1>2. PICK s : s = x.service /\ s \in Services
  BY <1>1, SubscriptionParts
<1>3. PICK mine : mine = {i \in DOMAIN list : list[i].UDN = x.tv}
  OBVIOUS
<1>4. /\ sid \in renewed /\ renewed' = renewed \ {sid}
      /\ list' = [i \in DOMAIN list |->
                    IF i \in mine THEN [list[i] EXCEPT !.SID[s] = sid] ELSE list[i]]
      /\ stray' = stray \cup (IF mine = {} THEN {sid} ELSE {list[i].SID[s] : i \in mine})
      /\ UNCHANGED <<up, table, requests, incrs, subs, news, failed, missed>>
  BY <1>1, <1>2, <1>3 DEF TvCtrlPointHandleSubscribeUpdate, tvVars
<1>5. TvTypes'
  BY <1>4 DEF CtrlInv, TvTypes
<1>6. sid \in Nat /\ sid # NoSid
  BY DEF CtrlInv, ListTypes, Sids, NoSid
<1>7. \A i \in DOMAIN list : list[i] \in AnyNode
  BY DEF CtrlInv, ListTypes
<1>8. \A i \in DOMAIN list :
         /\ list'[i] \in AnyNode
         /\ list'[i].UDN = list[i].UDN
         /\ list'[i].VariableStrVal = list[i].VariableStrVal
         /\ \A t \in Services : list'[i].SID[t] = IF i \in mine /\ t = s THEN sid
                                                  ELSE list[i].SID[t]
  BY <1>2, <1>4, <1>6, <1>7 DEF AnyNode
<1>9. list' \in Seq(AnyNode) /\ DOMAIN list' = DOMAIN list
  <2>1. list' \in [DOMAIN list -> AnyNode]
    BY <1>4, <1>8
  <2> QED
    BY <2>1, Changed DEF CtrlInv, ListTypes
<1>10. ListTypes'
  BY <1>4, <1>9 DEF CtrlInv, ListTypes, Sids
<1>11. \A i \in Sids : /\ (Followed(i)' <=> Followed(i)) /\ OnTheWay(i)' = OnTheWay(i)
  BY <1>4 DEF Followed, OnTheWay
<1>12. NodesInv'
  <2> SUFFICES ASSUME NEW i \in DOMAIN list, NEW t \in Services, NEW j,
                      j = list'[i].SID[t], j # NoSid
               PROVE  /\ j \in Sids /\ j \notin renewed'
                      /\ subs[j].tv = list[i].UDN /\ subs[j].service = t
    BY <1>4, <1>8, <1>9 DEF NodesInv, NodeInv, Sids
  <2>1. CASE i \in mine /\ t = s
    <3>1. j = sid
      BY <1>8, <2>1
    <3>2. list[i].UDN = x.tv
      BY <1>3, <2>1
    <3>3. sid \notin renewed'
      BY <1>4
    <3> QED
      BY <1>1, <1>2, <2>1, <3>1, <3>2, <3>3
  <2>2. CASE ~(i \in mine /\ t = s)
    <3>1. j = list[i].SID[t]
      BY <1>8, <2>2
    <3> QED
      BY <1>4, <3>1 DEF CtrlInv, NodesInv, NodeInv
  <2> QED
    BY <2>1, <2>2
<1>13. DevicesInv'
  BY <1>8, <1>9 DEF CtrlInv, DevicesInv
<1>14. OwnersInv'
  <2> SUFFICES ASSUME NEW j \in Sids, subs[j].client
               PROVE  j \in InList' \cup renewed' \cup stray'
    BY <1>4 DEF OwnersInv, Sids
  <2>1. j \in InList \cup renewed \cup stray
    BY DEF CtrlInv, OwnersInv
  <2>2. CASE j \in InList
    <3>1. PICK i \in DOMAIN list, t \in Services : j = list[i].SID[t]
      BY <2>2 DEF InList
    <3>2. CASE i \in mine /\ t = s
      BY <1>4, <3>1, <3>2
    <3>3. CASE ~(i \in mine /\ t = s)
      BY <1>8, <1>9, <3>1, <3>3 DEF InList
    <3> QED
      BY <3>2, <3>3
  <2>3. CASE j = sid
    <3>1. CASE mine = {}
      BY <1>4, <2>3, <3>1
    <3>2. CASE mine # {}
      <4>1. PICK i \in DOMAIN list : i \in mine
        BY <1>3, <3>2
      <4>2. list'[i].SID[s] = sid /\ i \in DOMAIN list'
        BY <1>2, <1>8, <1>9, <4>1
      <4> QED
        BY <1>2, <2>3, <4>2 DEF InList
    <3> QED
      BY <3>1, <3>2
  <2> QED
    BY <1>4, <2>1, <2>2, <2>3
<1>15. EventsInv'
  BY <1>4, <1>11 DEF CtrlInv, EventsInv, Sids
<1>16. RenewedInv'
  BY <1>4, <1>11 DEF CtrlInv, RenewedInv, ListTypes
<1>17. ShownInv'
  <2> SUFFICES ASSUME NEW i \in DOMAIN list, NEW t \in Services, NEW j,
                      j = list'[i].SID[t], j # NoSid, Followed(j)', NEW v \in VarsOf(t)
               PROVE  \/ Shows(OnTheWay(j)', v)
                      \/ list[i].VariableStrVal[v] = table[list[i].UDN][v]
    BY <1>4, <1>8, <1>9 DEF ShownInv
  <2>1. CASE i \in mine /\ t = s
    <3>1. j = sid /\ v \in VarsOf(subs[sid].service)
      BY <1>1, <1>2, <1>8, <2>1
    <3>2. Followed(sid)
      BY <1>11, <3>1
    <3>3. Shows(OnTheWay(sid), v)
      BY <1>4, <3>1, <3>2 DEF CtrlInv, RenewedInv
    <3> QED
      BY <1>11, <3>1, <3>3
  <2>2. CASE ~(i \in mine /\ t = s)
    <3>1. j = list[i].SID[t]
      BY <1>8, <2>2
    <3>2. j \in Sids
      BY <3>1 DEF CtrlInv, NodesInv, NodeInv
    <3>3. Followed(j)
      BY <1>11, <3>2
    <3>4. Shows(OnTheWay(j), v) \/ list[i].VariableStrVal[v] = table[list[i].UDN][v]
      BY <3>1, <3>3 DEF CtrlInv, ShownInv
    <3> QED
      BY <1>11, <3>2, <3>4
  <2> QED
    BY <2>1, <2>2
<1> QED
  BY <1>5, <1>10, <1>12, <1>13, <1>14, <1>15, <1>16, <1>17 DEF CtrlInv

-----------------------------------------------------------------------------
LEMMA CtrlInitInv ==
    ASSUME TvAssumption, CtrlInit
    PROVE  CtrlInv
<1>1. subs = <<>> /\ GlobalDeviceList = <<>> /\ renewed = {} /\ Sids = {}
  BY DEF CtrlInit, TvInit, Sids
<1>2. TvTypes
  <2>1. TvDeviceStateTableInit \in [Vars -> Int]
    BY Variables DEF TvDeviceStateTableInit
  <2>2. table \in [Tvs -> [Vars -> Int]]
    BY <2>1 DEF CtrlInit, TvInit
  <2>3. news \subseteq [type : {"alive", "byebye"}, tv : Tvs]
    BY DEF CtrlInit
  <2> QED
    BY <2>2, <2>3 DEF CtrlInit, TvInit, TvTypes
<1>3. ListTypes
  BY <1>1 DEF ListTypes
<1> QED
  BY <1>1, <1>2, <1>3
     DEF CtrlInv, NodesInv, DevicesInv, OwnersInv, EventsInv, RenewedInv, ShownInv

LEMMA CtrlNextInv ==
    ASSUME TvAssumption, CtrlAssumption, CtrlInv, [CtrlNext]_vars
    PROVE  CtrlInv'
<1>1. CASE UNCHANGED vars
  <2>1. UNCHANGED <<up, table, requests, incrs, subs, GlobalDeviceList, news, failed,
                    renewed, missed, stray>>
    BY <1>1 DEF vars, tvVars, ctrlVars
  <2>2. TvTypes'
    BY <2>1 DEF CtrlInv, TvTypes
  <2> QED
    BY <2>1, <2>2, NothingChanges
<1>2. ASSUME NEW e \in news, HandleDiscovery(e) PROVE CtrlInv'
  BY <1>2, DiscoveryStep
<1>3. ASSUME NEW sid \in Sids, Announced(sid) PROVE CtrlInv'
  BY <1>3, AnnouncedStep
<1>4. ASSUME NEW sid \in Sids, SubscriptionLost(sid) PROVE CtrlInv'
  BY <1>4, LostStep
<1>5. ASSUME NEW sid \in Sids, TvCtrlPointHandleSubscribeUpdate(sid) PROVE CtrlInv'
  BY <1>5, UpdateStep
<1>6. ASSUME NEW sid \in Sids, NEW k \in DOMAIN subs[sid].called, TvCtrlPointHandleEvent(sid, k)
      PROVE  CtrlInv'
  BY <1>6, EventStep
<1>7. ASSUME NEW f \in failed, Resubscribe(f) PROVE CtrlInv'
  BY <1>7, ResubscribeStep
<1>8. CASE TvCtrlPointCommandLoop
  BY <1>8, CommandStep
<1>9. CASE TvCtrlPointVerifyTimeouts
  BY <1>9, TimeoutStep
<1>10. ASSUME NEW r \in requests, TvDeviceHandleActionRequest(r), UNCHANGED ctrlVars
       PROVE  CtrlInv'
  BY <1>10, RequestStep
<1>11. ASSUME NEW i \in incrs, TvDeviceIncr(i), UNCHANGED ctrlVars PROVE CtrlInv'
  BY <1>11, IncrStep
<1>12. ASSUME NEW tv \in Tvs, TvDeviceMain(tv) PROVE CtrlInv'
  BY <1>12, MainStep
<1> QED
  BY <1>1, <1>2, <1>3, <1>4, <1>5, <1>6, <1>7, <1>8, <1>9, <1>10, <1>11, <1>12 DEF CtrlNext

(* The control point's list holds a device once, and every subscription it
   has is that of a node, is about to be noted, or came from a renewal that
   failed (TvCtrlPointAddDevice to TvCtrlPointVerifyTimeouts). *)
THEOREM DevicesAreListed ==
    ASSUME TvAssumption, CtrlAssumption
    PROVE  CtrlSpec => []ListSound
<1>1. CtrlInit => CtrlInv
  BY CtrlInitInv
<1>2. CtrlInv /\ [CtrlNext]_vars => CtrlInv'
  BY CtrlNextInv
<1>3. CtrlInv => ListSound
  BY DEF CtrlInv, DevicesInv, OwnersInv, ListSound
<1> QED
  BY <1>1, <1>2, <1>3, PTL DEF CtrlSpec

(* What a node shows is the state table of its television, once the events of
   its subscription are handled, if each was handled in its turn
   (TvCtrlPointHandleEvent, TvDeviceSetServiceTableVar). *)
THEOREM TablesAreCurrent ==
    ASSUME TvAssumption, CtrlAssumption
    PROVE  CtrlSpec => []TableCurrent
<1>1. CtrlInit => CtrlInv
  BY CtrlInitInv
<1>2. CtrlInv /\ [CtrlNext]_vars => CtrlInv'
  BY CtrlNextInv
<1>3. ASSUME CtrlInv PROVE TableCurrent
  <2> SUFFICES ASSUME NEW i \in DOMAIN GlobalDeviceList, NEW s \in Services, NEW sid,
                      sid = GlobalDeviceList[i].SID[s],
                      sid # NoSid, sid \notin missed, subs[sid].device, subs[sid].client,
                      subs[sid].queue = <<>>, subs[sid].called = <<>>,
                      NEW v \in VarsOf(s)
               PROVE  GlobalDeviceList[i].VariableStrVal[v] = table[GlobalDeviceList[i].UDN][v]
    BY DEF TableCurrent
  <2>1. Followed(sid)
    BY DEF Followed
  <2>2. ~Shows(OnTheWay(sid), v)
    <3>1. OnTheWay(sid) = <<>>
      BY DEF OnTheWay
    <3> QED
      BY <3>1 DEF Shows
  <2> QED
    BY <1>3, <2>1, <2>2 DEF CtrlInv, ShownInv
<1> QED
  BY <1>1, <1>2, <1>3, PTL DEF CtrlSpec
-----------------------------------------------------------------------------
(* Control: the fields of a call, and what they are at each step of the
   control point (pc) and of the device (at). *)
WholeCall(call) ==
    call = [pc |-> call.pc, at |-> call.at, request |-> call.request, service |-> call.service,
            outcome |-> call.outcome, answer |-> call.answer, ret |-> call.ret, got |-> call.got,
            asked |-> call.asked, called |-> call.called]
Steps(call) ==
    /\ call.pc \in {"idle", "queued", "forgotten", "waiting", "done"}
    /\ call.at \in {"none", "coming", "calling", "answered"}
    /\ call.at = "none" <=> call.pc \in {"idle", "queued", "forgotten"}
    /\ call.pc # "idle" => call.request \in Invocations
    /\ call.asked \in 0..serial

(* A lookup that fails is answered without a callback, any other with what
   the callback set. *)
AnswerInv(call) ==
    /\ call.at \in {"none", "coming"} => call.service = NoService
    /\ call.at = "calling" => call.service # NoService
    /\ call.at # "answered" => call.called = 0
    /\ call.at # "answered" => call.outcome = NoAnswer
    /\ call.at = "answered" =>
          \/ /\ call.service = NoService /\ call.outcome = NoAnswer
             /\ \E code \in {UPNP_E_INVALID_URL, UPNP_E_INVALID_ACTION} :
                   call.answer = CreateControlFailure(code)
          \/ /\ call.service # NoService
             /\ call.answer = Answer(call.request, call.outcome)

(* A call returns without an answer, or with the one that stays. *)
Returned(call) ==
    IF call.request.kind = "action" THEN ActionReturn(call.request.name, call.answer)
    ELSE VariableReturn(call.answer)
ReturnInv(call) ==
    /\ call.pc # "done" => call.got = NoText
    /\ call.pc = "done" =>
          \/ call.got = NoText /\ call.ret = UPNP_E_INVALID_URL
          \/ /\ call.at = "answered"
             /\ call.ret = Returned(call).ret /\ call.got = Returned(call).got

CallInv(call) ==
    /\ WholeCall(call) /\ Steps(call) /\ AnswerInv(call) /\ ReturnInv(call)
    /\ PassedRight(call) /\ FoundRight(call)

(* A registered device is the last one registered, with the table it got. *)
DeviceInv ==
    /\ serial \in Nat /\ DOMAIN tables = 1..serial
    /\ \/ device = NoDevice
       \/ serial # 0 /\ device.serial = serial /\ device.list = tables[serial]
ControlInv ==
    /\ DeviceInv
    /\ DOMAIN calls = Calls
    /\ \A c \in Calls : CallInv(calls[c])

(* GetActionName takes the whole of a name of letters and digits. *)
LEMMA RegularName ==
    ASSUME ControlAssumption, NEW r \in Invocations, Regular(r), NEW name \in GetActionName(r.name)
    PROVE  name = r.name
<1>1. r.name \in Seq(Range(r.name)) /\ \A i \in DOMAIN r.name : r.name[i] \in Alnum
  BY DEF ControlAssumption, Regular
<1> DEFINE n0 == r.name
           ends == {i \in DOMAIN n0 : n0[i] \notin Alnum}
<1>2. ends = {}
  BY <1>1
<1>3. PICK n \in 0..Len(n0) : (n = Len(n0) \/ n + 1 \in ends) /\ name = SubSeq(n0, 1, n)
  BY DEF GetActionName
<1>4. name = SubSeq(n0, 1, Len(n0))
  BY <1>2, <1>3
<1> DEFINE T == Range(n0)
<1>5. n0 \in Seq(T)
  BY <1>1
<1> HIDE DEF n0, T
<1>6. SubSeq(n0, 1, Len(n0)) = n0
  BY <1>5
<1> QED
  BY <1>4, <1>6 DEF n0

(* One call moves, and keeps its part of the invariant. *)
LEMMA CallMoves ==
    ASSUME ControlInv, NEW c \in Calls, NEW record, CallInv(record),
           calls' = [calls EXCEPT ![c] = record], UNCHANGED deviceVars
    PROVE  ControlInv'
<1>1. DOMAIN calls' = Calls /\ calls'[c] = record /\ \A d \in Calls : d # c => calls'[d] = calls[d]
  BY DEF ControlInv
<1>2. \A d \in Calls : CallInv(calls'[d])
  BY <1>1 DEF ControlInv
<1>3. DeviceInv'
  BY DEF ControlInv, DeviceInv, deviceVars
<1>4. \A x : CallInv(x) => CallInv(x)'
  BY DEF CallInv, WholeCall, Steps, AnswerInv, ReturnInv, Returned, PassedRight, FoundRight,
         deviceVars
<1> QED
  BY <1>1, <1>2, <1>3, <1>4 DEF ControlInv

(* A call is sent: to the device, or to a job of the pool. *)
LEMMA CallSent ==
    ASSUME NEW x, CallInv(x), x.at = "none", NEW r \in Invocations,
           NEW p \in {"queued", "forgotten", "waiting"}, NEW a \in 0..serial, NEW y,
           y = [x EXCEPT !.pc = p, !.at = IF p = "waiting" THEN "coming" ELSE x.at,
                         !.request = r, !.asked = a]
    PROVE  CallInv(y)
<1>1. y = [pc |-> p, at |-> IF p = "waiting" THEN "coming" ELSE "none", request |-> r,
           service |-> x.service, outcome |-> x.outcome, answer |-> x.answer,
           ret |-> x.ret, got |-> x.got, asked |-> a, called |-> x.called]
  BY DEF CallInv, WholeCall
<1>2. x.service = NoService /\ x.outcome = NoAnswer /\ x.got = NoText /\ x.called = 0
  BY DEF CallInv, AnswerInv, ReturnInv, Steps
<1>3. WholeCall(y) /\ Steps(y)
  BY <1>1 DEF WholeCall, Steps
<1>4. AnswerInv(y) /\ PassedRight(y) /\ FoundRight(y) /\ ReturnInv(y)
  BY <1>1, <1>2 DEF AnswerInv, PassedRight, FoundRight, ReturnInv
<1> QED
  BY <1>3, <1>4 DEF CallInv

(* The device answers, or is about to call its application. *)
LEMMA CallServed ==
    ASSUME NEW x, CallInv(x), x.at \in {"coming", "calling"}, NEW y,
           WholeCall(y), y.pc = x.pc, y.request = x.request, y.ret = x.ret, y.got = x.got,
           y.asked = x.asked, y.at \in {"calling", "answered"}, AnswerInv(y),
           PassedRight(y), FoundRight(y)
    PROVE  CallInv(y)
<1>1. Steps(y)
  BY DEF CallInv, Steps
<1>2. ReturnInv(y)
  BY DEF CallInv, ReturnInv, Steps
<1> QED
  BY <1>1, <1>2 DEF CallInv

LEMMA ServiceFound ==
    ASSUME ControlInv, NEW path, NEW info \in GetDeviceInfo(path)
    PROVE  /\ info.Fun = serial /\ serial # 0
           /\ \E i \in FindServiceControlURLPath(tables[serial], path) :
                info.DevUDN = tables[serial][i].UDN /\ info.ServiceID = tables[serial][i].serviceId
<1>1. PICK i \in FindServiceControlURLPath(device.list, path) :
         info = [Fun |-> device.serial, DevUDN |-> device.list[i].UDN,
                 ServiceID |-> device.list[i].serviceId]
  BY DEF GetDeviceInfo
<1>2. i \in DOMAIN device.list
  BY <1>1 DEF FindServiceControlURLPath
<1>3. device # NoDevice
  BY <1>2 DEF NoDevice
<1>4. serial # 0 /\ device.serial = serial /\ device.list = tables[serial]
  BY <1>3 DEF ControlInv, DeviceInv
<1> QED
  BY <1>1, <1>4

LEMMA ControlStarts == ASSUME ControlInit PROVE ControlInv
<1>1. DOMAIN calls = Calls /\ \A c \in Calls : calls[c] = NoCall
  BY DEF ControlInit
<1>2. WholeCall(NoCall) /\ Steps(NoCall) /\ AnswerInv(NoCall) /\ PassedRight(NoCall)
      /\ FoundRight(NoCall) /\ ReturnInv(NoCall)
  BY DEF NoCall, WholeCall, Steps, AnswerInv, PassedRight, FoundRight, ReturnInv, ControlInit
<1>3. DeviceInv
  BY DEF ControlInit, DeviceInv
<1> QED
  BY <1>1, <1>2, <1>3 DEF ControlInv, CallInv

(* UpnpRegisterRootDevice, UpnpUnRegisterRootDevice *)
LEMMA DeviceComesAndGoes ==
    ASSUME ControlInv,
           UpnpUnRegisterRootDevice \/ \E d \in Descriptions : UpnpRegisterRootDevice(d)
    PROVE  ControlInv'
<1>1. calls' = calls
  BY DEF UpnpUnRegisterRootDevice, UpnpRegisterRootDevice
<1>2. /\ DeviceInv'
      /\ serial' \in Nat /\ serial <= serial'
      /\ \A n \in 1..serial : tables'[n] = tables[n]
      /\ device'.serial = 0 \/ device'.serial > serial
  <2>1. CASE UpnpUnRegisterRootDevice
    <3>1. serial \in Nat /\ DOMAIN tables = 1..serial
      BY DEF ControlInv, DeviceInv
    <3>2. device' = NoDevice /\ serial' = serial /\ tables' = tables
      BY <2>1 DEF UpnpUnRegisterRootDevice
    <3> QED
      BY <3>1, <3>2 DEF DeviceInv, NoDevice
  <2>2. ASSUME NEW d \in Descriptions, UpnpRegisterRootDevice(d)
        PROVE  /\ DeviceInv'
               /\ serial' \in Nat /\ serial <= serial'
               /\ \A n \in 1..serial : tables'[n] = tables[n]
               /\ device'.serial > serial
    <3>1. PICK built \in {getServiceTable(d)} :
             /\ device' = [list |-> built.list, serial |-> serial + 1,
                           description |-> d, corrupt |-> built.corrupt]
             /\ tables' = [n \in 1..(serial + 1) |->
                              IF n <= serial THEN tables[n] ELSE built.list]
      BY <2>2 DEF UpnpRegisterRootDevice
    <3>2. serial \in Nat /\ serial' = serial + 1
      BY <2>2 DEF UpnpRegisterRootDevice, ControlInv, DeviceInv
    <3>3. device'.serial = serial + 1 /\ device'.list = built.list
      BY <3>1
    <3>4. DOMAIN tables' = 1..serial' /\ tables'[serial'] = built.list
      BY <3>1, <3>2
    <3>5. \A n \in 1..serial : tables'[n] = tables[n]
      BY <3>1, <3>2
    <3>6. DeviceInv'
      BY <3>2, <3>3, <3>4 DEF DeviceInv
    <3> QED
      BY <3>2, <3>3, <3>5, <3>6
  <2> QED
    BY <2>1, <2>2
<1>3. ASSUME NEW x, CallInv(x) PROVE CallInv(x)'
  <2>1. serial \in Nat
    BY DEF ControlInv, DeviceInv
  <2>2. x.asked \in 0..serial /\ x.asked \in 0..serial'
    BY <1>2, <1>3, <2>1 DEF CallInv, Steps
  <2>3. PassedRight(x)'
    <3>1. CASE x.service = NoService
      BY <3>1 DEF PassedRight
    <3>2. CASE x.service # NoService
      <4>1. PassedRight(x)
        BY <1>3 DEF CallInv
      <4>2. x.service.Fun \in 1..serial /\ x.service.Fun \in 1..serial'
        BY <1>2, <2>1, <3>2, <4>1 DEF PassedRight
      <4>3. tables'[x.service.Fun] = tables[x.service.Fun]
        BY <1>2, <4>2
      <4> QED
        BY <3>2, <4>1, <4>2, <4>3, Zenon DEF PassedRight
    <3> QED
      BY <3>1, <3>2
  <2>4. FoundRight(x)'
    <3>1. x.asked = device'.serial => x.asked = 0
      BY <1>2, <2>1, <2>2
    <3> QED
      BY <3>1, Zenon DEF FoundRight
  <2>5. WholeCall(x) /\ Steps(x)' /\ AnswerInv(x) /\ ReturnInv(x)
    BY <1>3, <2>2, Zenon DEF CallInv, Steps
  <2> QED
    BY <2>3, <2>4, <2>5, Zenon DEF CallInv, WholeCall, AnswerInv, ReturnInv, Returned
<1> QED
  BY <1>1, <1>2, <1>3 DEF ControlInv

(* SoapSend, SendAsync, UpnpThreadDistribution *)
LEMMA ControlPointSends ==
    ASSUME ControlInv, NEW c \in Calls,
           SoapSend(c) \/ SendAsync(c) \/ UpnpThreadDistribution(c)
    PROVE  ControlInv'
<1> DEFINE x == calls[c]
<1>1. CallInv(x)
  BY DEF ControlInv
<1>2. x.pc \in {"idle", "queued"} => x.at = "none"
  BY <1>1 DEF CallInv, Steps
<1>a. device.serial \in 0..serial /\ x.asked \in 0..serial
  BY <1>1 DEF ControlInv, DeviceInv, NoDevice, CallInv, Steps
<1>3. CASE SoapSend(c)
  <2>1. PICK r \in Invocations :
           ClientMoves(c, "idle", [x EXCEPT !.pc = "waiting", !.at = "coming", !.request = r,
                                            !.asked = device.serial])
    BY <1>3 DEF SoapSend
  <2> DEFINE y == [x EXCEPT !.pc = "waiting", !.at = "coming", !.request = r,
                            !.asked = device.serial]
  <2>2. x.at = "none" /\ calls' = [calls EXCEPT ![c] = y] /\ UNCHANGED deviceVars
    BY <1>2, <2>1 DEF ClientMoves
  <2>3. CallInv(y)
    BY <1>1, <1>a, <2>2, CallSent
  <2> HIDE DEF y
  <2> QED
    BY <2>2, <2>3, CallMoves
<1>4. CASE SendAsync(c)
  <2>1. PICK r \in Invocations, refused \in BOOLEAN :
           ClientMoves(c, "idle",
              [x EXCEPT !.pc = IF refused THEN "forgotten" ELSE "queued", !.request = r])
    BY <1>4 DEF SendAsync
  <2> DEFINE p == IF refused THEN "forgotten" ELSE "queued"
             y == [x EXCEPT !.pc = p, !.request = r]
  <2>2. x.at = "none" /\ calls' = [calls EXCEPT ![c] = y] /\ UNCHANGED deviceVars
    BY <1>2, <2>1 DEF ClientMoves
  <2>3. p \in {"queued", "forgotten"}
    OBVIOUS
  <2>4. y = [x EXCEPT !.pc = p, !.at = IF p = "waiting" THEN "coming" ELSE x.at, !.request = r,
                      !.asked = x.asked]
    <3>1. x = [pc |-> x.pc, at |-> x.at, request |-> x.request, service |-> x.service,
               outcome |-> x.outcome, answer |-> x.answer, ret |-> x.ret, got |-> x.got,
               asked |-> x.asked, called |-> x.called]
      BY <1>1 DEF CallInv, WholeCall
    <3> HIDE DEF p, x
    <3> QED
      BY <2>3, <3>1
  <2> HIDE DEF p, x, y
  <2>5. CallInv(y)
    BY <1>1, <1>a, <2>2, <2>3, <2>4, CallSent
  <2> QED
    BY <2>2, <2>5, CallMoves
<1>5. CASE UpnpThreadDistribution(c)
  <2> DEFINE y == [x EXCEPT !.pc = "waiting", !.at = "coming", !.asked = device.serial]
  <2>1. x.pc = "queued" /\ calls' = [calls EXCEPT ![c] = y] /\ UNCHANGED deviceVars
    BY <1>5 DEF UpnpThreadDistribution, ClientMoves
  <2>2. x.at = "none" /\ x.request \in Invocations
    BY <1>1, <1>2, <2>1 DEF CallInv, Steps
  <2>3. y = [x EXCEPT !.pc = "waiting", !.at = "coming", !.request = x.request,
                      !.asked = device.serial]
    <3>1. x = [pc |-> x.pc, at |-> x.at, request |-> x.request, service |-> x.service,
               outcome |-> x.outcome, answer |-> x.answer, ret |-> x.ret, got |-> x.got,
               asked |-> x.asked, called |-> x.called]
      BY <1>1 DEF CallInv, WholeCall
    <3> HIDE DEF x
    <3> QED
      BY <3>1
  <2>4. CallInv(y)
    BY <1>1, <1>a, <2>2, <2>3, CallSent
  <2> HIDE DEF y
  <2> QED
    BY <2>1, <2>4, CallMoves
<1> QED
  BY <1>3, <1>4, <1>5

(* NothingReceived, SoapReturns *)
LEMMA ControlPointReturns ==
    ASSUME ControlInv, NEW c \in Calls, NothingReceived(c) \/ SoapReturns(c)
    PROVE  ControlInv'
<1> DEFINE x == calls[c]
<1>1. CallInv(x)
  BY DEF ControlInv
<1>2. ASSUME NEW rt, NEW g, NEW y, y = [x EXCEPT !.pc = "done", !.ret = rt, !.got = g],
             x.pc = "waiting",
             \/ g = NoText /\ rt = UPNP_E_INVALID_URL
             \/ x.at = "answered" /\ rt = Returned(x).ret /\ g = Returned(x).got
      PROVE  CallInv(y)
  <2>1. y = [pc |-> "done", at |-> x.at, request |-> x.request, service |-> x.service,
             outcome |-> x.outcome, answer |-> x.answer, ret |-> rt, got |-> g,
             asked |-> x.asked, called |-> x.called]
    <3>1. x = [pc |-> x.pc, at |-> x.at, request |-> x.request, service |-> x.service,
               outcome |-> x.outcome, answer |-> x.answer, ret |-> x.ret, got |-> x.got,
               asked |-> x.asked, called |-> x.called]
      BY <1>1 DEF CallInv, WholeCall
    <3> HIDE DEF x
    <3> QED
      BY <1>2, <3>1
  <2> HIDE DEF x
  <2>2. WholeCall(y) /\ Steps(y)
    BY <1>1, <1>2, <2>1 DEF CallInv, WholeCall, Steps
  <2>3. AnswerInv(y) /\ PassedRight(y) /\ FoundRight(y)
    BY <1>1, <2>1 DEF CallInv, AnswerInv, PassedRight, FoundRight
  <2>4. Returned(y) = Returned(x)
    BY <2>1 DEF Returned
  <2>5. ReturnInv(y)
    BY <1>2, <2>1, <2>4 DEF ReturnInv
  <2> QED
    BY <2>2, <2>3, <2>5 DEF CallInv
<1>3. CASE NothingReceived(c)
  <2> DEFINE y == [x EXCEPT !.pc = "done", !.ret = UPNP_E_INVALID_URL]
  <2>1. x.pc = "waiting" /\ calls' = [calls EXCEPT ![c] = y] /\ UNCHANGED deviceVars
    BY <1>3 DEF NothingReceived, ClientMoves
  <2>2. x.got = NoText
    BY <1>1, <2>1 DEF CallInv, ReturnInv
  <2>3. y = [x EXCEPT !.pc = "done", !.ret = UPNP_E_INVALID_URL, !.got = NoText]
    <3>1. x = [pc |-> x.pc, at |-> x.at, request |-> x.request, service |-> x.service,
               outcome |-> x.outcome, answer |-> x.answer, ret |-> x.ret, got |-> x.got,
               asked |-> x.asked, called |-> x.called]
      BY <1>1 DEF CallInv, WholeCall
    <3> HIDE DEF x
    <3> QED
      BY <2>2, <3>1
  <2> HIDE DEF y, x
  <2>4. CallInv(y)
    BY <1>2, <2>1, <2>3
  <2> QED
    BY <2>1, <2>4, CallMoves DEF x
<1>4. CASE SoapReturns(c)
  <2> DEFINE y == [x EXCEPT !.pc = "done", !.ret = Returned(x).ret, !.got = Returned(x).got]
  <2>1. x.at = "answered" /\ x.pc = "waiting" /\ calls' = [calls EXCEPT ![c] = y]
        /\ UNCHANGED deviceVars
    BY <1>4 DEF SoapReturns, ClientMoves, Returned
  <2> HIDE DEF x
  <2>2. CallInv(y)
    BY <1>2, <2>1
  <2> HIDE DEF y
  <2> QED
    BY <2>1, <2>2, CallMoves DEF x
<1> QED
  BY <1>3, <1>4

(* The calls with a step of the device in their fields. *)
LEMMA ServedFields ==
    ASSUME NEW x, WholeCall(x), NEW a, NEW v, NEW w, NEW y
    PROVE  /\ y = [x EXCEPT !.at = a, !.service = v] =>
                 y = [pc |-> x.pc, at |-> a, request |-> x.request, service |-> v,
                      outcome |-> x.outcome, answer |-> x.answer, ret |-> x.ret, got |-> x.got,
                      asked |-> x.asked, called |-> x.called]
           /\ y = [x EXCEPT !.at = a, !.answer = w] =>
                 y = [pc |-> x.pc, at |-> a, request |-> x.request, service |-> x.service,
                      outcome |-> x.outcome, answer |-> w, ret |-> x.ret, got |-> x.got,
                      asked |-> x.asked, called |-> x.called]
BY DEF WholeCall

(* ProcessSoapEventPacket *)
LEMMA RequestIsServed ==
    ASSUME ControlAssumption, ControlInv, NEW c \in Calls, ProcessSoapEventPacket(c)
    PROVE  ControlInv'
<1> DEFINE x == calls[c]
<1>1. CallInv(x)
  BY DEF ControlInv
<1>3. ASSUME NEW code \in {UPNP_E_INVALID_URL, UPNP_E_INVALID_ACTION}, Fails(c, code),
             \/ ~Regular(x.request)
             \/ FindServiceControlURLPath(device.list, x.request.url.path) = {}
      PROVE  ControlInv'
  <2> DEFINE y == [x EXCEPT !.at = "answered", !.answer = CreateControlFailure(code)]
  <2>1. x.at = "coming" /\ calls' = [calls EXCEPT ![c] = y] /\ UNCHANGED deviceVars
    BY <1>3 DEF Fails, DeviceMoves
  <2>2. y = [pc |-> x.pc, at |-> "answered", request |-> x.request, service |-> x.service,
             outcome |-> x.outcome, answer |-> CreateControlFailure(code),
             ret |-> x.ret, got |-> x.got, asked |-> x.asked, called |-> x.called]
    BY <1>1, ServedFields DEF CallInv
  <2> HIDE DEF x, y
  <2>3. WholeCall(y) /\ y.pc = x.pc /\ y.request = x.request /\ y.ret = x.ret /\ y.got = x.got
        /\ y.asked = x.asked /\ y.at = "answered"
    BY <2>2 DEF WholeCall
  <2>4. x.service = NoService /\ x.outcome = NoAnswer
    BY <1>1, <2>1 DEF CallInv, AnswerInv
  <2>5. AnswerInv(y) /\ PassedRight(y) /\ FoundRight(y)
    BY <1>3, <2>2, <2>4 DEF AnswerInv, PassedRight, FoundRight
  <2>6. CallInv(y)
    BY <1>1, <2>1, <2>3, <2>5, CallServed
  <2> QED
    BY <2>1, <2>6, CallMoves DEF x
<1>4. ASSUME IsQuery(x.request) => x.request.kind = "query", FoundService(c) PROVE ControlInv'
  <2>1. PICK info \in GetDeviceInfo(x.request.url.path) :
             \E name \in IF IsQuery(x.request) THEN {x.request.name}
                         ELSE GetActionName(x.request.name) :
                DeviceMoves(c, "coming",
                  [x EXCEPT !.at = "calling",
                            !.service = [Fun |-> info.Fun, DevUDN |-> info.DevUDN,
                                         ServiceID |-> info.ServiceID, name |-> name]])
    BY <1>4 DEF FoundService
  <2>2. PICK name \in IF IsQuery(x.request) THEN {x.request.name}
                      ELSE GetActionName(x.request.name) :
                DeviceMoves(c, "coming",
                  [x EXCEPT !.at = "calling",
                            !.service = [Fun |-> info.Fun, DevUDN |-> info.DevUDN,
                                         ServiceID |-> info.ServiceID, name |-> name]])
    BY <2>1
  <2> DEFINE s == [Fun |-> info.Fun, DevUDN |-> info.DevUDN, ServiceID |-> info.ServiceID,
                   name |-> name]
             y == [x EXCEPT !.at = "calling", !.service = s]
  <2>3. x.at = "coming" /\ calls' = [calls EXCEPT ![c] = y] /\ UNCHANGED deviceVars
    BY <2>2 DEF DeviceMoves
  <2>4. s # NoService /\ s.name = name
    <3>1. info.Fun # 0
      BY ServiceFound
    <3>2. s.Fun # NoService.Fun
      BY <3>1 DEF NoService
    <3> QED
      BY <3>2
  <2>5. Regular(x.request) => s.name = x.request.name
    <3>1. x.request \in Invocations
      BY <1>1, <2>3 DEF CallInv, Steps
    <3> QED
      BY <2>2, <2>4, <3>1, RegularName
  <2>a. /\ s.Fun = serial /\ serial # 0
        /\ \E i \in FindServiceControlURLPath(tables[serial], x.request.url.path) :
             s.DevUDN = tables[serial][i].UDN /\ s.ServiceID = tables[serial][i].serviceId
    <3>1. s.Fun = info.Fun /\ s.DevUDN = info.DevUDN /\ s.ServiceID = info.ServiceID
      OBVIOUS
    <3> HIDE DEF s, x
    <3> QED
      BY <2>1, <3>1, ServiceFound DEF x
  <2> HIDE DEF s
  <2>6. y = [pc |-> x.pc, at |-> "calling", request |-> x.request, service |-> s,
             outcome |-> x.outcome, answer |-> x.answer, ret |-> x.ret, got |-> x.got,
             asked |-> x.asked, called |-> x.called]
    BY <1>1, ServedFields DEF CallInv
  <2> HIDE DEF x, y
  <2>7. WholeCall(y) /\ y.pc = x.pc /\ y.request = x.request /\ y.ret = x.ret /\ y.got = x.got
        /\ y.asked = x.asked /\ y.at = "calling"
    BY <2>6 DEF WholeCall
  <2>8. x.outcome = NoAnswer /\ x.called = 0 /\ x.asked \in 0..serial /\ serial \in Nat
    BY <1>1, <2>3 DEF CallInv, AnswerInv, Steps, x, ControlInv, DeviceInv
  <2>9. AnswerInv(y) /\ FoundRight(y)
    BY <2>4, <2>6, <2>8 DEF AnswerInv, FoundRight
  <2>b. PassedRight(y)
    <3>1. y.service = s /\ y.request = x.request /\ y.asked = x.asked /\ y.called = 0
      BY <2>6, <2>8
    <3>2. s.Fun \in 1..serial /\ s.Fun >= y.asked /\ y.called \in {0, s.Fun}
      BY <2>a, <2>8, <3>1
    <3> QED
      BY <2>5, <2>a, <3>1, <3>2 DEF PassedRight
  <2>10. CallInv(y)
    BY <1>1, <2>3, <2>7, <2>9, <2>b, CallServed
  <2> QED
    BY <2>3, <2>10, CallMoves DEF x
<1>5. IsQuery(x.request) /\ GetVarNameFails(c)
      => Fails(c, UPNP_E_INVALID_URL) /\ ~Regular(x.request)
  BY DEF GetVarNameFails, IsQuery, Regular
<1>6. NotFound(c)
      => /\ \E code \in {UPNP_E_INVALID_URL, UPNP_E_INVALID_ACTION} : Fails(c, code)
         /\ FindServiceControlURLPath(device.list, x.request.url.path) = {}
  BY DEF NotFound, GetDeviceInfo
<1> QED
  BY <1>3, <1>4, <1>5, <1>6 DEF ProcessSoapEventPacket

(* SoapEventCallback *)
LEMMA OutcomeIsAnswered ==
    ASSUME ControlInv, NEW c \in Calls, SoapEventCallback(c)
    PROVE  ControlInv'
<1> DEFINE x == calls[c]
<1>1. CallInv(x)
  BY DEF ControlInv
<1>3. PICK outcome \in Outcomes :
         DeviceMoves(c, "calling", [x EXCEPT !.at = "answered", !.outcome = outcome,
                                             !.called = Callback(x),
                                             !.answer = Answer(x.request, outcome)])
  BY DEF SoapEventCallback
<1> DEFINE a == Answer(x.request, outcome)
           f == Callback(x)
           y == [x EXCEPT !.at = "answered", !.outcome = outcome, !.called = f, !.answer = a]
<1>4. x.at = "calling" /\ calls' = [calls EXCEPT ![c] = y] /\ UNCHANGED deviceVars
  BY <1>3 DEF DeviceMoves
<1>5. y = [pc |-> x.pc, at |-> "answered", request |-> x.request, service |-> x.service,
           outcome |-> outcome, answer |-> a, ret |-> x.ret, got |-> x.got,
           asked |-> x.asked, called |-> f]
  <2>1. WholeCall(x)
    BY <1>1 DEF CallInv
  <2>2. y = [x EXCEPT !.at = "answered", !.outcome = outcome, !.called = f, !.answer = a]
    OBVIOUS
  <2> HIDE DEF x, a, f, y
  <2> QED
    BY <2>1, <2>2 DEF WholeCall
<1> HIDE DEF y
<1>6. WholeCall(y) /\ y.pc = x.pc /\ y.request = x.request /\ y.ret = x.ret /\ y.got = x.got
      /\ y.at = "answered" /\ y.service = x.service /\ y.outcome = outcome /\ y.answer = a
      /\ y.asked = x.asked /\ y.called = x.service.Fun
  BY <1>5 DEF WholeCall, Callback
<1>7. x.service # NoService /\ PassedRight(x)
  BY <1>1, <1>4 DEF CallInv, AnswerInv
<1>8. y.answer = Answer(y.request, y.outcome)
  BY <1>6
<1>9. AnswerInv(y) /\ PassedRight(y) /\ FoundRight(y)
  BY <1>6, <1>7, <1>8 DEF AnswerInv, PassedRight, FoundRight
<1>10. CallInv(y)
  BY <1>1, <1>4, <1>6, <1>9, CallServed
<1> HIDE DEF x
<1> QED
  BY <1>4, <1>10, CallMoves DEF x

LEMMA ControlInductive ==
    ASSUME ControlAssumption, ControlInv, [ControlNext]_controlVars PROVE ControlInv'
<1>1. CASE UNCHANGED controlVars
  <2>1. UNCHANGED <<device, serial, tables, calls>>
    BY <1>1 DEF controlVars
  <2>2. ASSUME NEW c \in Calls PROVE CallInv(calls[c])'
    BY <2>1 DEF ControlInv, CallInv, WholeCall, Steps, AnswerInv, ReturnInv, Returned,
                PassedRight, FoundRight
  <2> QED
    BY <2>1, <2>2 DEF ControlInv, DeviceInv
<1>2. CASE UpnpUnRegisterRootDevice \/ \E d \in Descriptions : UpnpRegisterRootDevice(d)
  BY <1>2, DeviceComesAndGoes
<1>3. ASSUME NEW c \in Calls,
             \/ SoapSend(c) \/ SendAsync(c) \/ UpnpThreadDistribution(c)
             \/ NothingReceived(c) \/ SoapReturns(c)
      PROVE  ControlInv'
  BY <1>3, ControlPointSends, ControlPointReturns
<1>4. ASSUME NEW c \in Calls, ProcessSoapEventPacket(c) \/ SoapEventCallback(c)
      PROVE  ControlInv'
  BY <1>4, RequestIsServed, OutcomeIsAnswered
<1> QED
  BY <1>1, <1>2, <1>3, <1>4 DEF ControlNext

(* What a call returns, once the device's answer has been read. *)
LEMMA AnswerIsReturned ==
    ASSUME NEW x, CallInv(x), x.pc = "done" PROVE ReturnedRight(x)
<1> USE DEF UPNP_E_SUCCESS, UPNP_E_INVALID_URL, UPNP_E_INVALID_ACTION
<1>1. AnswerInv(x) /\ ReturnInv(x)
  BY DEF CallInv
<1>2. CASE x.got = NoText /\ x.ret = UPNP_E_INVALID_URL
  BY <1>2 DEF ReturnedRight
<1>3. CASE /\ x.at = "answered"
           /\ x.ret = Returned(x).ret /\ x.got = Returned(x).got
  <2>1. \A code : x.answer = CreateControlFailure(code) =>
            x.ret = code /\ x.got \in {UPnPError, Description}
            /\ (x.request.kind = "action" => x.got = UPnPError)
    BY <1>3 DEF CreateControlFailure, Returned, ActionReturn, VariableReturn
  <2>2. \A body : x.answer = CreateControlResponse(body) =>
            (x.ret = 0 /\ x.got = body) \/ (x.ret = UPNP_E_INVALID_ACTION /\ x.got = NoText)
    BY <1>3 DEF CreateControlResponse, Returned, ActionReturn, VariableReturn
  <2>3. CASE x.service = NoService
    <3>1. x.outcome = NoAnswer /\ x.ret # 0
      BY <1>1, <1>3, <2>1, <2>3 DEF AnswerInv
    <3> QED
      BY <3>1 DEF ReturnedRight, NoAnswer
  <2>4. CASE x.service # NoService
    <3>1. x.answer = Answer(x.request, x.outcome)
      BY <1>1, <1>3, <2>4 DEF AnswerInv
    <3>2. CASE x.outcome.code # 0
      BY <2>1, <3>1, <3>2 DEF Answer, ReturnedRight
    <3>3. CASE x.outcome.code = 0 /\ x.outcome.body # NoText
      BY <2>2, <2>4, <3>1, <3>3 DEF Answer, ReturnedRight
    <3>4. CASE x.outcome.code = 0 /\ x.outcome.body = NoText /\ x.request.kind = "action"
      BY <2>1, <2>4, <3>1, <3>4 DEF Answer, ReturnedRight
    <3>5. CASE x.outcome.code = 0 /\ x.outcome.body = NoText /\ x.request.kind # "action"
      BY <2>2, <2>4, <3>1, <3>5 DEF Answer, ReturnedRight
    <3> QED
      BY <3>2, <3>3, <3>4, <3>5
  <2> QED
    BY <2>3, <2>4
<1> QED
  BY <1>1, <1>2, <1>3 DEF ReturnInv

(* Whatever devices come and go between its lookup, the callback and its answer,
   a request reaches the application of the device in whose service table its
   path was found, with that service's UDN and id and the name asked for; it is
   found while the device it was sent to stays; and the call returns what that
   application made of it or the error found on the way (GetDeviceInfo,
   ProcessSoapEventPacket, SoapSendAction, SoapGetServiceVarStatus). *)
THEOREM CallsAreAnswered ==
    ASSUME ControlAssumption PROVE ControlSpec => []ControlAnswered
<1>1. ControlInit => ControlInv
  BY ControlStarts
<1>2. ControlInv /\ [ControlNext]_controlVars => ControlInv'
  BY ControlAssumption, ControlInductive
<1>3. ControlInv => ControlAnswered
  BY AnswerIsReturned DEF ControlInv, ControlAnswered, CallInv
<1> QED
  BY <1>1, <1>2, <1>3, PTL DEF ControlSpec
-----------------------------------------------------------------------------
(* Discovery: what control points learn of a description.  FlattenSeq and the
   folds are recursive; what they compute is proved by taking a least
   counterexample (LeastElement). *)
(* AnalyzeCommand handles one header after the other. *)
HeadersStep(e, q, f, s) == IF s = {} THEN e ELSE HandleNext(f[s \ {Max(s)}], q[Max(s)])
Headers(e, q, n, f) == f = [s \in SUBSET (1..n) |-> HeadersStep(e, q, f, s)]

LEMMA HeadersAt ==
    ASSUME NEW e, NEW q, NEW n \in Nat, NEW f, Headers(e, q, n, f)
    PROVE  \A s \in SUBSET (1..n) : f[s] = HeadersStep(e, q, f, s)
  BY DEF Headers

LEMMA HeadersExists ==
    ASSUME NEW e, NEW q, NEW n \in Nat
    PROVE  \E f : Headers(e, q, n, f)
<1> DEFINE Bad == {m \in Nat : ~ \E f : Headers(e, q, m, f)}
<1>1. SUFFICES ASSUME Bad # {} PROVE FALSE
  OBVIOUS
<1>2. PICK m \in Bad : \A k \in Bad : m <= k
  <2> HIDE DEF Bad
  <2>1. Bad \in SUBSET Nat
    BY DEF Bad
  <2> QED
    BY <1>1, <2>1, LeastElement
<1>3. m # 0
  <2> DEFINE f == [s \in SUBSET (1..0) |-> e]
  <2>1. f = [s \in SUBSET (1..0) |-> HeadersStep(e, q, f, s)]
    BY DEF HeadersStep
  <2>2. Headers(e, q, 0, f)
    BY <2>1, Zenon DEF Headers
  <2> QED
    BY <2>2
<1>4. m - 1 \in Nat /\ m - 1 \notin Bad /\ m \in Nat
  BY <1>2, <1>3
<1>5. PICK f : Headers(e, q, m - 1, f)
  BY <1>4
<1>6. \A s \in SUBSET (1..(m-1)) : f[s] = HeadersStep(e, q, f, s)
  BY <1>4, <1>5, HeadersAt
<1> DEFINE g == [s \in SUBSET (1..m) |-> IF m \in s THEN HeadersStep(e, q, f, s) ELSE f[s]]
<1>7. ASSUME NEW s \in SUBSET (1..m) PROVE g[s] = HeadersStep(e, q, g, s)
  <2>1. g[s] = HeadersStep(e, q, f, s)
    BY <1>4, <1>6
  <2>2. CASE s = {}
    BY <2>1, <2>2 DEF HeadersStep
  <2>3. CASE s # {}
    <3>1. Max(s) \in s /\ \A y \in s : y <= Max(s)
      BY <1>4, <2>3, GreatestElement
    <3>2. m \notin s \ {Max(s)} /\ s \ {Max(s)} \in SUBSET (1..m)
      <4> DEFINE x == Max(s)
      <4>1. x \in 1..m /\ \A y \in s : y <= x
        BY <3>1
      <4> HIDE DEF x
      <4>2. m \in s => x = m
        BY <4>1, <1>4
      <4> QED
        BY <4>2 DEF x
    <3>3. g[s \ {Max(s)}] = f[s \ {Max(s)}]
      BY <3>2
    <3> QED
      BY <2>1, <2>3, <3>3, Zenon DEF HeadersStep
  <2> QED
    BY <2>2, <2>3
<1>8. Headers(e, q, m, g)
  <2> DEFINE h == [s \in SUBSET (1..m) |-> HeadersStep(e, q, g, s)]
  <2>1. g = h
    <3> HIDE DEF h, g
    <3>1. \A s \in SUBSET (1..m) : g[s] = h[s]
      BY <1>7 DEF h
    <3>2. /\ g = [s \in SUBSET (1..m) |-> g[s]]
          /\ h = [s \in SUBSET (1..m) |-> h[s]]
      BY DEF g, h
    <3> QED
      BY <3>1, <3>2
  <2> QED
    BY <2>1, Zenon DEF Headers
<1> QED
  BY <1>2, <1>8

LEMMA HeadersIs ==
    ASSUME NEW p, NEW n \in Nat, DOMAIN p.hdrs = 1..n
    PROVE  \E r : /\ r[0] = CheckHdr(p.start, InitEvent)
                  /\ \A i \in 1..n : r[i] = HandleNext(r[i-1], p.hdrs[i])
                  /\ AnalyzeCommand(p) = r[n]
<1> DEFINE e == CheckHdr(p.start, InitEvent)
           q == p.hdrs
<1>0. DOMAIN q = 1..n
  OBVIOUS
<1> HIDE DEF e, q
<1> DEFINE f == CHOOSE f : Headers(e, q, n, f)
<1>1. AnalyzeCommand(p) = f[1..n]
  <2>1. AnalyzeCommand(p)
          = (CHOOSE g : g = [s \in SUBSET DOMAIN q |->
                IF s = {} THEN e ELSE HandleNext(g[s \ {Max(s)}], q[Max(s)])])[DOMAIN q]
    BY Zenon DEF FoldLeft, MapThenFoldSet, AnalyzeCommand, e, q
  <2> QED
    BY <1>0, <2>1, Zenon DEF Headers, HeadersStep
<1>2. Headers(e, q, n, f)
  BY HeadersExists
<1> HIDE DEF f
<1>3. \A s \in SUBSET (1..n) : f[s] = HeadersStep(e, q, f, s)
  BY <1>2, HeadersAt
<1> DEFINE r == [i \in 0..n |-> f[1..i]]
<1>4. r[0] = e
  <2>1. 1..0 = {} /\ {} \in SUBSET (1..n)
    OBVIOUS
  <2>2. f[1..0] = e
    BY <2>1, <1>3, Zenon DEF HeadersStep
  <2> QED
    BY <2>2
<1>5. ASSUME NEW i \in 1..n PROVE r[i] = HandleNext(r[i-1], q[i])
  <2>1. 1..i \in SUBSET (1..n) /\ 1..i # {} /\ i \in Nat /\ i \in 1..i
    <3>1. i \in Nat /\ i \in 1..i
      OBVIOUS
    <3>2. \A y \in 1..i : y \in 1..n
      OBVIOUS
    <3> QED
      BY <3>1, <3>2
  <2>2. Max(1..i) = i
    <3>1. Max(1..i) \in 1..i /\ \A y \in 1..i : y <= Max(1..i)
      BY <2>1, GreatestElement
    <3>2. Max(1..i) <= i /\ i <= Max(1..i) /\ Max(1..i) \in Int
      BY <2>1, <3>1
    <3> QED
      BY <3>2, <2>1
  <2>3. (1..i) \ {i} = 1..(i-1)
    OBVIOUS
  <2>4. f[1..i] = HandleNext(f[1..(i-1)], q[i])
    BY <1>3, <2>1, <2>2, <2>3, Zenon DEF HeadersStep
  <2>5. r[i] = f[1..i] /\ r[i-1] = f[1..(i-1)]
    OBVIOUS
  <2> QED
    BY <2>4, <2>5, Zenon
<1>6. r[n] = f[1..n]
  OBVIOUS
<1> QED
  BY <1>1, <1>4, <1>5, <1>6, Zenon DEF e, q

(* So does Unique_Service_Name with the parts of a USN. *)
PartsStep(e, q, f, s) == IF s = {} THEN e ELSE Part(f[s \ {Max(s)}], q[Max(s)])
Parts(e, q, n, f) == f = [s \in SUBSET (1..n) |-> PartsStep(e, q, f, s)]

LEMMA PartsAt ==
    ASSUME NEW e, NEW q, NEW n \in Nat, NEW f, Parts(e, q, n, f)
    PROVE  \A s \in SUBSET (1..n) : f[s] = PartsStep(e, q, f, s)
  BY DEF Parts

LEMMA PartsExists ==
    ASSUME NEW e, NEW q, NEW n \in Nat
    PROVE  \E f : Parts(e, q, n, f)
<1> DEFINE Bad == {m \in Nat : ~ \E f : Parts(e, q, m, f)}
<1>1. SUFFICES ASSUME Bad # {} PROVE FALSE
  OBVIOUS
<1>2. PICK m \in Bad : \A k \in Bad : m <= k
  <2> HIDE DEF Bad
  <2>1. Bad \in SUBSET Nat
    BY DEF Bad
  <2> QED
    BY <1>1, <2>1, LeastElement
<1>3. m # 0
  <2> DEFINE f == [s \in SUBSET (1..0) |-> e]
  <2>1. f = [s \in SUBSET (1..0) |-> PartsStep(e, q, f, s)]
    BY DEF PartsStep
  <2>2. Parts(e, q, 0, f)
    BY <2>1, Zenon DEF Parts
  <2> QED
    BY <2>2
<1>4. m - 1 \in Nat /\ m - 1 \notin Bad /\ m \in Nat
  BY <1>2, <1>3
<1>5. PICK f : Parts(e, q, m - 1, f)
  BY <1>4
<1>6. \A s \in SUBSET (1..(m-1)) : f[s] = PartsStep(e, q, f, s)
  BY <1>4, <1>5, PartsAt
<1> DEFINE g == [s \in SUBSET (1..m) |-> IF m \in s THEN PartsStep(e, q, f, s) ELSE f[s]]
<1>7. ASSUME NEW s \in SUBSET (1..m) PROVE g[s] = PartsStep(e, q, g, s)
  <2>1. g[s] = PartsStep(e, q, f, s)
    BY <1>4, <1>6
  <2>2. CASE s = {}
    BY <2>1, <2>2 DEF PartsStep
  <2>3. CASE s # {}
    <3>1. Max(s) \in s /\ \A y \in s : y <= Max(s)
      BY <1>4, <2>3, GreatestElement
    <3>2. m \notin s \ {Max(s)} /\ s \ {Max(s)} \in SUBSET (1..m)
      <4> DEFINE x == Max(s)
      <4>1. x \in 1..m /\ \A y \in s : y <= x
        BY <3>1
      <4> HIDE DEF x
      <4>2. m \in s => x = m
        BY <4>1, <1>4
      <4> QED
        BY <4>2 DEF x
    <3>3. g[s \ {Max(s)}] = f[s \ {Max(s)}]
      BY <3>2
    <3> QED
      BY <2>1, <2>3, <3>3, Zenon DEF PartsStep
  <2> QED
    BY <2>2, <2>3
<1>8. Parts(e, q, m, g)
  <2> DEFINE h == [s \in SUBSET (1..m) |-> PartsStep(e, q, g, s)]
  <2>1. g = h
    <3> HIDE DEF h, g
    <3>1. \A s \in SUBSET (1..m) : g[s] = h[s]
      BY <1>7 DEF h
    <3>2. /\ g = [s \in SUBSET (1..m) |-> g[s]]
          /\ h = [s \in SUBSET (1..m) |-> h[s]]
      BY DEF g, h
    <3> QED
      BY <3>1, <3>2
  <2> QED
    BY <2>1, Zenon DEF Parts
<1> QED
  BY <1>2, <1>8

PartsFrom(e, q, n) ==
    LET f == CHOOSE f : Parts(e, q, n, f) IN [i \in 0..n |-> f[1..i]]

LEMMA PartsIs ==
    ASSUME NEW q, NEW n \in Nat, Numbered(q, n), NEW e
    PROVE  /\ PartsFrom(e, q, n)[0] = e
           /\ \A i \in 1..n : PartsFrom(e, q, n)[i] = Part(PartsFrom(e, q, n)[i-1], q[i])
           /\ Unique_Service_Name(q, e) = PartsFrom(e, q, n)[n]
<1> DEFINE f == CHOOSE f : Parts(e, q, n, f)
<1>d. DOMAIN q = 1..n
  BY DEF Numbered
<1>0. PartsFrom(e, q, n) = [i \in 0..n |-> f[1..i]]
  BY Zenon DEF PartsFrom
<1>1. Unique_Service_Name(q, e) = f[1..n]
  <2>1. Unique_Service_Name(q, e)
          = (CHOOSE g : g = [s \in SUBSET DOMAIN q |->
                IF s = {} THEN e ELSE Part(g[s \ {Max(s)}], q[Max(s)])])[DOMAIN q]
    BY Zenon DEF FoldLeft, MapThenFoldSet, Unique_Service_Name
  <2> QED
    BY <1>d, <2>1, Zenon DEF Parts, PartsStep
<1>2. Parts(e, q, n, f)
  BY PartsExists
<1> HIDE DEF f
<1>3. \A s \in SUBSET (1..n) : f[s] = PartsStep(e, q, f, s)
  BY <1>2, PartsAt
<1> DEFINE r == [i \in 0..n |-> f[1..i]]
<1>4. r[0] = e
  <2>1. 1..0 = {} /\ {} \in SUBSET (1..n)
    OBVIOUS
  <2>2. f[1..0] = e
    BY <2>1, <1>3, Zenon DEF PartsStep
  <2> QED
    BY <2>2
<1>5. ASSUME NEW i \in 1..n PROVE r[i] = Part(r[i-1], q[i])
  <2>1. 1..i \in SUBSET (1..n) /\ 1..i # {} /\ i \in Nat /\ i \in 1..i
    OBVIOUS
  <2>2. Max(1..i) = i
    <3>1. Max(1..i) \in 1..i /\ \A y \in 1..i : y <= Max(1..i)
      BY <2>1, GreatestElement
    <3>2. Max(1..i) <= i /\ i <= Max(1..i) /\ Max(1..i) \in Int
      BY <2>1, <3>1
    <3> QED
      BY <3>2, <2>1
  <2>3. (1..i) \ {i} = 1..(i-1)
    OBVIOUS
  <2>4. f[1..i] = Part(f[1..(i-1)], q[i])
    BY <1>3, <2>1, <2>2, <2>3, Zenon DEF PartsStep
  <2>5. r[i] = f[1..i] /\ r[i-1] = f[1..(i-1)]
    OBVIOUS
  <2> QED
    BY <2>4, <2>5, Zenon
<1>6. r[n] = f[1..n]
  OBVIOUS
<1> QED
  BY <1>0, <1>1, <1>4, <1>5, <1>6, Zenon

(* The parts of a USN, and a message's headers, one after the other. *)
LEMMA NameOfOne ==
    ASSUME NEW a, NEW e
    PROVE  Unique_Service_Name(<<a>>, e) = Part(e, a)
<1>1. ASSUME NEW q, q = <<a>> PROVE Unique_Service_Name(q, e) = Part(e, a)
  <2> DEFINE r == PartsFrom(e, q, 1)
  <2>1. 1 \in Nat /\ Numbered(q, 1) /\ q[1] = a
    BY <1>1 DEF Numbered
  <2>2. /\ r[0] = e
        /\ \A i \in 1..1 : r[i] = Part(r[i-1], q[i])
        /\ Unique_Service_Name(q, e) = r[1]
    BY <2>1, PartsIs
  <2> HIDE DEF r
  <2>3. r[1] = Part(r[0], q[1])
    BY <2>2
  <2> QED
    BY <2>1, <2>2, <2>3, Zenon
<1> QED
  BY <1>1, Zenon

LEMMA NameOfTwo ==
    ASSUME NEW a, NEW b, NEW e
    PROVE  Unique_Service_Name(<<a, b>>, e) = Part(Part(e, a), b)
<1>1. ASSUME NEW q, q = <<a, b>> PROVE Unique_Service_Name(q, e) = Part(Part(e, a), b)
  <2> DEFINE r == PartsFrom(e, q, 2)
  <2>1. 2 \in Nat /\ Numbered(q, 2) /\ q[1] = a /\ q[2] = b
    BY <1>1 DEF Numbered
  <2>2. /\ r[0] = e
        /\ \A i \in 1..2 : r[i] = Part(r[i-1], q[i])
        /\ Unique_Service_Name(q, e) = r[2]
    BY <2>1, PartsIs
  <2> HIDE DEF r
  <2>3. r[1] = Part(r[0], q[1]) /\ r[2] = Part(r[1], q[2])
    BY <2>2
  <2> QED
    BY <2>1, <2>2, <2>3, Zenon
<1> QED
  BY <1>1, Zenon

LEMMA CommandOfTwo ==
    ASSUME NEW p, NEW g, NEW h, p.hdrs = <<g, h>>
    PROVE  AnalyzeCommand(p) = HandleNext(HandleNext(CheckHdr(p.start, InitEvent), g), h)
<1>1. 2 \in Nat /\ DOMAIN p.hdrs = 1..2 /\ p.hdrs[1] = g /\ p.hdrs[2] = h
  OBVIOUS
<1>2. PICK r : /\ r[0] = CheckHdr(p.start, InitEvent)
               /\ \A i \in 1..2 : r[i] = HandleNext(r[i-1], p.hdrs[i])
               /\ AnalyzeCommand(p) = r[2]
  BY <1>1, HeadersIs, Zenon
<1>3. r[1] = HandleNext(r[0], p.hdrs[1]) /\ r[2] = HandleNext(r[1], p.hdrs[2])
  BY <1>2
<1> QED
  BY <1>1, <1>2, <1>3, Zenon

HasHeaders(p, g, h, k) == p.hdrs = <<g, h, k>>

LEMMA CommandOfThree ==
    ASSUME NEW p, NEW g, NEW h, NEW k, HasHeaders(p, g, h, k)
    PROVE  AnalyzeCommand(p)
             = HandleNext(HandleNext(HandleNext(CheckHdr(p.start, InitEvent), g), h), k)
<1>1. 3 \in Nat /\ DOMAIN p.hdrs = 1..3 /\ p.hdrs[1] = g /\ p.hdrs[2] = h /\ p.hdrs[3] = k
  BY DEF HasHeaders
<1>2. PICK r : /\ r[0] = CheckHdr(p.start, InitEvent)
               /\ \A i \in 1..3 : r[i] = HandleNext(r[i-1], p.hdrs[i])
               /\ AnalyzeCommand(p) = r[3]
  BY <1>1, HeadersIs, Zenon
<1>3. /\ r[1] = HandleNext(r[0], p.hdrs[1]) /\ r[2] = HandleNext(r[1], p.hdrs[2])
      /\ r[3] = HandleNext(r[2], p.hdrs[3])
  BY <1>2
<1> QED
  BY <1>1, <1>2, <1>3, Zenon

(* An event without an error, and what a target adds to it. *)
Evt(c, m, a, z, r, u, d, s) ==
    [ErrCode |-> 0, Cmd |-> c, RequestType |-> r, Mx |-> m, Man |-> a, UDN |-> u,
     DeviceType |-> d, ServiceType |-> s, stopped |-> z]
UdnIn(t, u) == IF t.kind = "uuid:" THEN t.name ELSE u
DeviceIn(t, d) == IF t.kind = "urn:device:" THEN t.name ELSE d
ServiceIn(t, s) == IF t.kind = "urn:service:" THEN t.name ELSE s

LEMMA PartIs ==
    ASSUME NEW t, NEW c, NEW m, NEW a, NEW z, NEW r, NEW u, NEW d, NEW s
    PROVE  Part(Evt(c, m, a, z, r, u, d, s), t)
             = Evt(c, m, a, z, r, UdnIn(t, u), DeviceIn(t, d), ServiceIn(t, s))
<1>1. CASE t.kind = "uuid:"
  BY <1>1 DEF Part, Evt, UdnIn, DeviceIn, ServiceIn
<1>2. CASE t.kind = "urn:device:"
  BY <1>2 DEF Part, Evt, UdnIn, DeviceIn, ServiceIn
<1>3. CASE t.kind = "urn:service:"
  BY <1>3 DEF Part, Evt, UdnIn, DeviceIn, ServiceIn
<1>4. CASE t.kind \notin {"uuid:", "urn:device:", "urn:service:"}
  BY <1>4 DEF Part, Evt, UdnIn, DeviceIn, ServiceIn
<1> QED
  BY <1>1, <1>2, <1>3, <1>4

LEMMA TypeIs ==
    ASSUME NEW t, t.kind \in DOMAIN RequestTypes,
           NEW c, NEW m, NEW a, NEW z, NEW r, NEW u, NEW d, NEW s
    PROVE  Request_Tpye(t, Evt(c, m, a, z, r, u, d, s))
             = Evt(c, m, a, z, RequestTypes[t.kind], UdnIn(t, u), DeviceIn(t, d), ServiceIn(t, s))
<1> DEFINE rt == RequestTypes[t.kind]
           e == Unique_Service_Name(<<t>>, Evt(c, m, a, z, r, u, d, s))
<1>1. e = Evt(c, m, a, z, r, UdnIn(t, u), DeviceIn(t, d), ServiceIn(t, s))
  BY NameOfOne, PartIs
<1>2. Request_Tpye(t, Evt(c, m, a, z, r, u, d, s)) = [e EXCEPT !.ErrCode = 0, !.RequestType = rt]
  BY Zenon DEF Request_Tpye
<1> HIDE DEF rt, e
<1>3. ASSUME NEW u1, NEW d1, NEW s1
      PROVE  [Evt(c, m, a, z, r, u1, d1, s1) EXCEPT !.ErrCode = 0, !.RequestType = rt]
               = Evt(c, m, a, z, rt, u1, d1, s1)
  <2>1. [Evt(c, m, a, z, r, u1, d1, s1) EXCEPT !.ErrCode = 0] = Evt(c, m, a, z, r, u1, d1, s1)
    BY DEF Evt
  <2>2. [Evt(c, m, a, z, r, u1, d1, s1) EXCEPT !.RequestType = rt]
          = Evt(c, m, a, z, rt, u1, d1, s1)
    BY DEF Evt
  <2>3. ASSUME NEW E, NEW F, F = [E EXCEPT !.ErrCode = 0]
        PROVE  [E EXCEPT !.ErrCode = 0, !.RequestType = rt] = [F EXCEPT !.RequestType = rt]
    BY <2>3
  <2> QED
    BY <2>1, <2>2, <2>3, Zenon
<1> QED
  BY <1>1, <1>2, <1>3, Zenon DEF rt

(* What a header does to an event without an error. *)
Going(E) == E.stopped = FALSE
Off(z) == z = FALSE
Unset(m) == m = -1
On(y) == y = TRUE
Positive(x) == x > 0

LEMMA GoingIs ==
    ASSUME NEW c, NEW m, NEW a, NEW z, Off(z), NEW r, NEW u, NEW d, NEW s
    PROVE  Going(Evt(c, m, a, z, r, u, d, s))
  BY DEF Going, Off, Evt

LEMMA HandledIs ==
    ASSUME NEW E, Going(E), NEW h, Accepted(h)
    PROVE  HandleNext(E, h) = Handle(E, h)
  BY Zenon DEF Going, HandleNext

LEMMA TargetHandled ==
    ASSUME NEW key \in {"ST", "NT"}, NEW t, t.kind \in DOMAIN RequestTypes,
           NEW c, NEW m, NEW a, NEW z, Off(z), NEW r, NEW u, NEW d, NEW s
    PROVE  /\ Accepted(Hdr(key, t))
           /\ HandleNext(Evt(c, m, a, z, r, u, d, s), Hdr(key, t))
                = Evt(c, m, a, z, RequestTypes[t.kind],
                      UdnIn(t, u), DeviceIn(t, d), ServiceIn(t, s))
<1>1. Hdr(key, t).key = key /\ Hdr(key, t).val = t
  BY DEF Hdr
<1>2. Accepted(Hdr(key, t))
  BY <1>1, Zenon DEF Accepted
<1>3. Handle(Evt(c, m, a, z, r, u, d, s), Hdr(key, t))
        = Request_Tpye(t, Evt(c, m, a, z, r, u, d, s))
  BY <1>1, Zenon DEF Handle
<1>4. Going(Evt(c, m, a, z, r, u, d, s))
  BY GoingIs
<1>5. HandleNext(Evt(c, m, a, z, r, u, d, s), Hdr(key, t))
        = Handle(Evt(c, m, a, z, r, u, d, s), Hdr(key, t))
  BY <1>2, <1>4, HandledIs
<1>6. Request_Tpye(t, Evt(c, m, a, z, r, u, d, s))
        = Evt(c, m, a, z, RequestTypes[t.kind], UdnIn(t, u), DeviceIn(t, d), ServiceIn(t, s))
  BY TypeIs
<1> QED
  BY <1>2, <1>3, <1>5, <1>6, Zenon

Proper(t, u) == t.kind \in DOMAIN RequestTypes /\ (t.kind = "uuid:" => t = Uuid(u))
Usn(u, t) == <<Uuid(u)>> \o (IF t = Uuid(u) THEN <<>> ELSE <<t>>)

LEMMA TwoJoined ==
    ASSUME NEW a, NEW b
    PROVE  <<a>> \o <<b>> = <<a, b>>
<1> DEFINE S == {a, b}
           s == <<a>>
           t == <<b>>
           c == s \o t
<1>1. s \in Seq(S) /\ t \in Seq(S) /\ Len(s) = 1 /\ Len(t) = 1 /\ s[1] = a /\ t[1] = b
  OBVIOUS
<1> HIDE DEF s, t, S
<1>2. /\ s \o t \in Seq(S)
      /\ Len(s \o t) = Len(s) + Len(t)
      /\ \A i \in 1 .. Len(s) + Len(t) : (s \o t)[i] = IF i <= Len(s) THEN s[i] ELSE t[i - Len(s)]
  BY <1>1, ConcatProperties
<1> HIDE DEF c
<1>4. c \in Seq(S) /\ Len(c) = 2 /\ c[1] = a /\ c[2] = b
  BY <1>1, <1>2 DEF c
<1>3. c = <<a, b>>
  BY <1>4
<1> QED
  BY <1>3, Zenon DEF c, s, t

LEMMA ThreeJoined ==
    ASSUME NEW a, NEW b, NEW c
    PROVE  <<a>> \o <<b>> \o <<c>> = <<a, b, c>>
<1> DEFINE S == {a, b, c}
           s == <<a, b>>
           t == <<c>>
           x == s \o t
<1>0. <<a>> \o <<b>> \o <<c>> = x
  BY TwoJoined, Zenon
<1>1. /\ s \in Seq(S) /\ t \in Seq(S) /\ Len(s) = 2 /\ Len(t) = 1
      /\ s[1] = a /\ s[2] = b /\ t[1] = c
  OBVIOUS
<1> HIDE DEF s, t, S
<1>2. /\ s \o t \in Seq(S)
      /\ Len(s \o t) = Len(s) + Len(t)
      /\ \A i \in 1 .. Len(s) + Len(t) : (s \o t)[i] = IF i <= Len(s) THEN s[i] ELSE t[i - Len(s)]
  BY <1>1, ConcatProperties
<1> HIDE DEF x
<1>4. x \in Seq(S) /\ Len(x) = 3 /\ x[1] = a /\ x[2] = b /\ x[3] = c
  BY <1>1, <1>2 DEF x
<1>3. x = <<a, b, c>>
  BY <1>4
<1> QED
  BY <1>0, <1>3, Zenon

LEMMA UsnHandled ==
    ASSUME NEW t, NEW u, Proper(t, u),
           NEW c, NEW m, NEW a, NEW z, Off(z), NEW r, NEW v, NEW d, NEW s
    PROVE  /\ Accepted(Hdr("USN", Usn(u, t)))
           /\ HandleNext(Evt(c, m, a, z, r, v, d, s), Hdr("USN", Usn(u, t)))
                = Evt(c, m, a, z, r, u, DeviceIn(t, d), ServiceIn(t, s))
<1> DEFINE h == Hdr("USN", Usn(u, t))
           E == Evt(c, m, a, z, r, v, d, s)
           F == Evt(c, m, a, z, r, u, d, s)
<1>1. h.key = "USN" /\ h.val = Usn(u, t)
  BY DEF Hdr
<1>2. Uuid(u).kind = "uuid:" /\ Uuid(u).name = u
  BY DEF Uuid, Target
<1>3. KnownUsn(Usn(u, t))
  <2>1. 1 \in DOMAIN Usn(u, t) /\ Usn(u, t)[1] = Uuid(u)
    BY DEF Usn
  <2> QED
    BY <1>2, <2>1 DEF KnownUsn
<1>4. Accepted(h)
  BY <1>1, <1>3, Zenon DEF Accepted
<1>5. Handle(E, h) = Unique_Service_Name(Usn(u, t), E)
  BY <1>1, Zenon DEF Handle
<1>6. Part(E, Uuid(u)) = F
  <2>1. UdnIn(Uuid(u), v) = u /\ DeviceIn(Uuid(u), d) = d /\ ServiceIn(Uuid(u), s) = s
    BY <1>2 DEF UdnIn, DeviceIn, ServiceIn
  <2>2. Part(E, Uuid(u)) = Evt(c, m, a, z, r, UdnIn(Uuid(u), v), DeviceIn(Uuid(u), d),
                               ServiceIn(Uuid(u), s))
    BY PartIs
  <2> QED
    BY <2>1, <2>2, Zenon
<1>7. Unique_Service_Name(Usn(u, t), E) = Evt(c, m, a, z, r, u, DeviceIn(t, d), ServiceIn(t, s))
  <2>1. CASE t = Uuid(u)
    <3>1. Usn(u, t) = <<Uuid(u)>>
      BY <2>1 DEF Usn
    <3>2. DeviceIn(t, d) = d /\ ServiceIn(t, s) = s
      BY <1>2, <2>1 DEF DeviceIn, ServiceIn
    <3>3. Unique_Service_Name(<<Uuid(u)>>, E) = F
      BY <1>6, NameOfOne
    <3> QED
      BY <3>1, <3>2, <3>3, Zenon
  <2>2. CASE t # Uuid(u)
    <3>1. Usn(u, t) = <<Uuid(u), t>>
      <4>1. Usn(u, t) = <<Uuid(u)>> \o <<t>>
        BY <2>2, Zenon DEF Usn
      <4> QED
        BY <4>1, TwoJoined, Zenon
    <3>2. UdnIn(t, u) = u
      BY <2>2 DEF Proper, UdnIn
    <3>3. Unique_Service_Name(<<Uuid(u), t>>, E) = Part(F, t)
      BY <1>6, NameOfTwo
    <3>4. Part(F, t) = Evt(c, m, a, z, r, UdnIn(t, u), DeviceIn(t, d), ServiceIn(t, s))
      BY PartIs
    <3> QED
      BY <3>1, <3>2, <3>3, <3>4, Zenon
  <2> QED
    BY <2>1, <2>2
<1>8. HandleNext(E, h) = Handle(E, h)
  BY <1>4, HandledIs, GoingIs
<1> QED
  BY <1>4, <1>5, <1>7, <1>8, Zenon

LEMMA CmdIs ==
    ASSUME NEW c, NEW m, NEW a, NEW z, NEW r, NEW u, NEW d, NEW s, NEW x
    PROVE  [Evt(c, m, a, z, r, u, d, s) EXCEPT !.Cmd = x] = Evt(x, m, a, z, r, u, d, s)
  BY DEF Evt

LEMMA NtsHandled ==
    ASSUME NEW v \in {"alive", "byebye"},
           NEW c, NEW m, NEW a, NEW z, Off(z), NEW r, NEW u, NEW d, NEW s
    PROVE  /\ Accepted(Hdr("NTS", v))
           /\ HandleNext(Evt(c, m, a, z, r, u, d, s), Hdr("NTS", v))
                = Evt(IF v = "alive" THEN "ALIVE" ELSE "BYEBYE", m, a, z, r, u, d, s)
<1> DEFINE h == Hdr("NTS", v)
           E == Evt(c, m, a, z, r, u, d, s)
<1>1. h.key = "NTS" /\ h.val = v
  BY DEF Hdr
<1>2. Accepted(h)
  BY <1>1, Zenon DEF Accepted
<1>3. Handle(E, h) = [E EXCEPT !.Cmd = IF v = "alive" THEN "ALIVE" ELSE "BYEBYE"]
  BY <1>1, Zenon DEF Handle
<1>4. Going(E)
  BY GoingIs
<1>5. HandleNext(E, h) = Handle(E, h)
  BY <1>2, <1>4, HandledIs
<1>6. [E EXCEPT !.Cmd = IF v = "alive" THEN "ALIVE" ELSE "BYEBYE"]
        = Evt(IF v = "alive" THEN "ALIVE" ELSE "BYEBYE", m, a, z, r, u, d, s)
  BY CmdIs
<1> QED
  BY <1>2, <1>3, <1>5, <1>6, Zenon

LEMMA FirstEvent ==
    ASSUME NEW m, Unset(m), NEW z, Off(z)
    PROVE  InitEvent = Evt("SERROR", m, z, z, "ERROR", NoValue, NoValue, NoValue)
<1>1. InitEvent = Evt("SERROR", -1, FALSE, FALSE, "ERROR", NoValue, NoValue, NoValue)
  BY Zenon DEF InitEvent, Evt
<1> QED
  BY <1>1, Zenon DEF Off, Unset

(* What a control point makes of a packet of a device. *)
Cmds(n) == IF n = 2 THEN "OK" ELSE IF n = 1 THEN "ALIVE" ELSE "BYEBYE"
NewsOf(n, u, t) ==
    [type |-> EventTypes[Cmds(n)], DeviceId |-> u,
     DeviceType |-> DeviceIn(t, NoValue), ServiceType |-> ServiceIn(t, NoValue)]

LEMMA AnalyzedTwo ==
    ASSUME NEW p, NEW g, NEW h, p.hdrs = <<g, h>>, Accepted(g), Accepted(h)
    PROVE  Analyzed(p)
  BY DEF Analyzed

LEMMA AnalyzedThree ==
    ASSUME NEW p, NEW g, NEW h, NEW k, p.hdrs = <<g, h, k>>, Accepted(g), Accepted(h), Accepted(k)
    PROVE  Analyzed(p)
  BY DEF Analyzed

LEMMA PacketIs ==
    ASSUME NEW n \in 0..2, NEW u, NEW t, Proper(t, u), NEW m, Unset(m), NEW z, Off(z)
    PROVE  /\ Analyzed(Packet(n, u, t))
           /\ AnalyzeCommand(Packet(n, u, t))
                = Evt(Cmds(n), m, z, z, RequestTypes[t.kind], u,
                      DeviceIn(t, NoValue), ServiceIn(t, NoValue))
<1> DEFINE p == Packet(n, u, t)
           rt == RequestTypes[t.kind]
           d == DeviceIn(t, NoValue)
           s == ServiceIn(t, NoValue)
<1>1. DeviceIn(t, d) = d /\ ServiceIn(t, s) = s
  BY DEF DeviceIn, ServiceIn
<1>2. t.kind \in DOMAIN RequestTypes
  BY DEF Proper
<1>3. CASE n = 2
  <2>1. p = [start |-> "HTTP/1.1 200 OK", hdrs |-> <<Hdr("ST", t), Hdr("USN", Usn(u, t))>>]
    BY <1>3, Zenon DEF Packet, CreateServiceRequestPacket, Usn
  <2> HIDE DEF p, rt, d, s
  <2>2. p.start = "HTTP/1.1 200 OK" /\ p.hdrs = <<Hdr("ST", t), Hdr("USN", Usn(u, t))>>
    BY <2>1
  <2>3. CheckHdr(p.start, InitEvent) = [InitEvent EXCEPT !.Cmd = "OK"]
    BY <2>2, Zenon DEF CheckHdr
  <2>4. [InitEvent EXCEPT !.Cmd = "OK"] = Evt("OK", m, z, z, "ERROR", NoValue, NoValue, NoValue)
    BY FirstEvent, CmdIs
  <2>5. /\ Accepted(Hdr("ST", t))
        /\ HandleNext(Evt("OK", m, z, z, "ERROR", NoValue, NoValue, NoValue), Hdr("ST", t))
             = Evt("OK", m, z, z, rt, UdnIn(t, NoValue), d, s)
    BY <1>2, TargetHandled DEF rt, d, s
  <2>6. /\ Accepted(Hdr("USN", Usn(u, t)))
        /\ HandleNext(Evt("OK", m, z, z, rt, UdnIn(t, NoValue), d, s), Hdr("USN", Usn(u, t)))
             = Evt("OK", m, z, z, rt, u, d, s)
    BY <1>1, UsnHandled
  <2>7. AnalyzeCommand(p) = Evt("OK", m, z, z, rt, u, d, s)
    <3>1. AnalyzeCommand(p)
            = HandleNext(HandleNext(CheckHdr(p.start, InitEvent), Hdr("ST", t)), Hdr("USN", Usn(u, t)))
      BY <2>2, CommandOfTwo
    <3> QED
      BY <2>3, <2>4, <2>5, <2>6, <3>1, Zenon
  <2>8. Analyzed(p)
    BY <2>2, <2>5, <2>6, AnalyzedTwo
  <2>9. Cmds(n) = "OK"
    BY <1>3 DEF Cmds
  <2> QED
    BY <2>7, <2>8, <2>9, Zenon DEF p, rt, d, s
<1>4. CASE n # 2
  <2> DEFINE v == IF n = 1 THEN "alive" ELSE "byebye"
  <2>1. p = [start |-> "NOTIFY * HTTP/1.1",
             hdrs |-> <<Hdr("NT", t), Hdr("NTS", v), Hdr("USN", Usn(u, t))>>]
    BY <1>4, Zenon DEF Packet, CreateServiceRequestPacket, Usn
  <2>9. v \in {"alive", "byebye"} /\ Cmds(n) = IF v = "alive" THEN "ALIVE" ELSE "BYEBYE"
    BY <1>4 DEF Cmds
  <2> HIDE DEF p, rt, d, s, v
  <2>2. /\ p.start = "NOTIFY * HTTP/1.1"
        /\ p.hdrs = <<Hdr("NT", t), Hdr("NTS", v), Hdr("USN", Usn(u, t))>>
    BY <2>1
  <2>3. CheckHdr(p.start, InitEvent) = [InitEvent EXCEPT !.Cmd = "NOTIFY"]
    BY <2>2, Zenon DEF CheckHdr
  <2>4. [InitEvent EXCEPT !.Cmd = "NOTIFY"]
          = Evt("NOTIFY", m, z, z, "ERROR", NoValue, NoValue, NoValue)
    BY FirstEvent, CmdIs
  <2>5. /\ Accepted(Hdr("NT", t))
        /\ HandleNext(Evt("NOTIFY", m, z, z, "ERROR", NoValue, NoValue, NoValue), Hdr("NT", t))
             = Evt("NOTIFY", m, z, z, rt, UdnIn(t, NoValue), d, s)
    BY <1>2, TargetHandled DEF rt, d, s
  <2>6. /\ Accepted(Hdr("NTS", v))
        /\ HandleNext(Evt("NOTIFY", m, z, z, rt, UdnIn(t, NoValue), d, s), Hdr("NTS", v))
             = Evt(Cmds(n), m, z, z, rt, UdnIn(t, NoValue), d, s)
    BY <2>9, NtsHandled
  <2>10. /\ Accepted(Hdr("USN", Usn(u, t)))
         /\ HandleNext(Evt(Cmds(n), m, z, z, rt, UdnIn(t, NoValue), d, s), Hdr("USN", Usn(u, t)))
              = Evt(Cmds(n), m, z, z, rt, u, d, s)
    BY <1>1, UsnHandled
  <2>7. AnalyzeCommand(p) = Evt(Cmds(n), m, z, z, rt, u, d, s)
    <3>1. AnalyzeCommand(p)
            = HandleNext(HandleNext(HandleNext(CheckHdr(p.start, InitEvent), Hdr("NT", t)),
                                    Hdr("NTS", v)), Hdr("USN", Usn(u, t)))
      <4>1. HasHeaders(p, Hdr("NT", t), Hdr("NTS", v), Hdr("USN", Usn(u, t)))
        BY <2>2, Zenon DEF HasHeaders
      <4> QED
        BY <4>1, CommandOfThree
    <3> QED
      BY <2>3, <2>4, <2>5, <2>6, <2>10, <3>1, Zenon
  <2>8. Analyzed(p)
    BY <2>2, <2>5, <2>6, <2>10, AnalyzedThree
  <2> QED
    BY <2>7, <2>8, Zenon DEF p, rt, d, s
<1> QED
  BY <1>3, <1>4

LEMMA PacketTells ==
    ASSUME NEW n \in 0..2, NEW u, NEW t, Proper(t, u)
    PROVE  /\ Reported(Packet(n, u, t))
           /\ Upnp_Discovery(AnalyzeCommand(Packet(n, u, t))) = NewsOf(n, u, t)
<1> DEFINE p == Packet(n, u, t)
<1>1. PICK m, z : Unset(m) /\ Off(z)
  BY DEF Unset, Off
<1>2. /\ Analyzed(p)
      /\ AnalyzeCommand(p) = Evt(Cmds(n), m, z, z, RequestTypes[t.kind], u,
                                 DeviceIn(t, NoValue), ServiceIn(t, NoValue))
  BY <1>1, PacketIs
<1> DEFINE e == AnalyzeCommand(p)
<1> HIDE DEF p
<1>3. /\ e.ErrCode = 0 /\ e.Cmd = Cmds(n) /\ e.UDN = u
      /\ e.DeviceType = DeviceIn(t, NoValue) /\ e.ServiceType = ServiceIn(t, NoValue)
  <2>1. ASSUME NEW c, NEW r, NEW w, NEW d, NEW s, e = Evt(c, m, z, z, r, w, d, s)
        PROVE  /\ e.ErrCode = 0 /\ e.Cmd = c /\ e.UDN = w
               /\ e.DeviceType = d /\ e.ServiceType = s
    BY <2>1 DEF Evt
  <2> QED
    BY <1>2, <2>1
<1>4. Cmds(n) \in DOMAIN EventTypes
  BY DEF Cmds, EventTypes
<1> HIDE DEF e
<1>5. Upnp_Discovery(e) = NewsOf(n, u, t)
  BY <1>3, Zenon DEF Upnp_Discovery, NewsOf
<1>6. Reported(p)
  BY <1>2, <1>3, <1>4, Zenon DEF Reported, e
<1> QED
  BY <1>5, <1>6, Zenon DEF e, p

(* A control point's request, as a device understands it. *)
ReplyTo(t) ==
    [AdFlag |-> 0, RequestType |-> RequestTypes[t.kind], UDN |-> UdnIn(t, NoValue),
     DeviceType |-> DeviceIn(t, NoValue), ServiceType |-> ServiceIn(t, NoValue)]

LEMMA ManIs ==
    ASSUME NEW c, NEW m, NEW a, NEW z, NEW r, NEW u, NEW d, NEW s, NEW x
    PROVE  [Evt(c, m, a, z, r, u, d, s) EXCEPT !.Man = x] = Evt(c, m, x, z, r, u, d, s)
  BY DEF Evt

LEMMA MxIs ==
    ASSUME NEW c, NEW m, NEW a, NEW z, NEW r, NEW u, NEW d, NEW s, NEW x
    PROVE  [Evt(c, m, a, z, r, u, d, s) EXCEPT !.Mx = x] = Evt(c, x, a, z, r, u, d, s)
  BY DEF Evt

LEMMA EvtFields ==
    ASSUME NEW c, NEW m, NEW a, NEW z, NEW r, NEW u, NEW d, NEW s
    PROVE  LET e == Evt(c, m, a, z, r, u, d, s)
           IN  /\ e.ErrCode = 0 /\ e.Cmd = c /\ e.Mx = m /\ e.Man = a /\ e.RequestType = r
               /\ e.UDN = u /\ e.DeviceType = d /\ e.ServiceType = s
  BY DEF Evt

LEMMA ManHandled ==
    ASSUME NoValue # "ssdp:discover",
           NEW c, NEW m, NEW a, NEW z, Off(z), NEW r, NEW u, NEW d, NEW s, NEW y, On(y)
    PROVE  /\ Accepted(Hdr("MAN", "ssdp:discover"))
           /\ HandleNext(Evt(c, m, a, z, r, u, d, s), Hdr("MAN", "ssdp:discover"))
                = Evt(c, m, y, z, r, u, d, s)
<1> DEFINE g == Hdr("MAN", "ssdp:discover")
           E == Evt(c, m, a, z, r, u, d, s)
<1>1. g.key = "MAN" /\ g.val = "ssdp:discover"
  BY DEF Hdr
<1>2. Accepted(g)
  BY <1>1, Zenon DEF Accepted
<1>3. Handle(E, g) = [E EXCEPT !.Man = y]
  BY <1>1, Zenon DEF Handle, On
<1>4. Going(E)
  BY GoingIs
<1>5. HandleNext(E, g) = Handle(E, g)
  BY <1>2, <1>4, HandledIs
<1>6. [E EXCEPT !.Man = y] = Evt(c, m, y, z, r, u, d, s)
  BY ManIs
<1> QED
  BY <1>2, <1>3, <1>5, <1>6, Zenon

LEMMA MxHandled ==
    ASSUME NEW x, Positive(x),
           NEW c, NEW m, NEW a, NEW z, Off(z), NEW r, NEW u, NEW d, NEW s
    PROVE  /\ Accepted(Hdr("MX", x))
           /\ HandleNext(Evt(c, m, a, z, r, u, d, s), Hdr("MX", x))
                = Evt(c, x, a, z, r, u, d, s)
<1> DEFINE g == Hdr("MX", x)
           E == Evt(c, m, a, z, r, u, d, s)
<1>1. g.key = "MX" /\ g.val = x
  BY DEF Hdr
<1>2. Accepted(g)
  BY <1>1, Zenon DEF Accepted, Positive
<1>3. Handle(E, g) = [E EXCEPT !.Mx = x]
  BY <1>1, Zenon DEF Handle
<1>4. Going(E)
  BY GoingIs
<1>5. HandleNext(E, g) = Handle(E, g)
  BY <1>2, <1>4, HandledIs
<1>6. [E EXCEPT !.Mx = x] = Evt(c, x, a, z, r, u, d, s)
  BY MxIs
<1> QED
  BY <1>2, <1>3, <1>5, <1>6, Zenon

LEMMA RequestIs ==
    ASSUME NoValue # "ssdp:discover",
           NEW mx \in Int, mx > 0, NEW t, t.kind \in DOMAIN RequestTypes
    PROVE  LET p == CreateClientRequestPacket(mx, t)
               e == AnalyzeCommand(p)
           IN  /\ Transferred(p)
               /\ e.ErrCode = 0 /\ e.Cmd = "SEARCH" /\ e.RequestType = RequestTypes[t.kind]
               /\ e.UDN = UdnIn(t, NoValue) /\ e.DeviceType = DeviceIn(t, NoValue)
               /\ e.ServiceType = ServiceIn(t, NoValue)
<1> DEFINE p == CreateClientRequestPacket(mx, t)
           e == AnalyzeCommand(p)
           g == Hdr("MAN", "ssdp:discover")
           h == Hdr("MX", mx)
           k == Hdr("ST", t)
           u == UdnIn(t, NoValue)
           d == DeviceIn(t, NoValue)
           s == ServiceIn(t, NoValue)
           rt == RequestTypes[t.kind]
<1>1. PICK m, z, y : Unset(m) /\ Off(z) /\ On(y)
  BY DEF Unset, Off, On
<1>2. p.start = "M-SEARCH * HTTP/1.1" /\ HasHeaders(p, g, h, k)
  <2>1. p = [start |-> "M-SEARCH * HTTP/1.1", hdrs |-> <<g>> \o <<h>> \o <<k>>]
    BY Zenon DEF CreateClientRequestPacket
  <2> HIDE DEF p, g, h, k
  <2>2. <<g>> \o <<h>> \o <<k>> = <<g, h, k>>
    BY ThreeJoined
  <2>3. p.start = "M-SEARCH * HTTP/1.1" /\ p.hdrs = <<g>> \o <<h>> \o <<k>>
    BY <2>1
  <2> QED
    BY <2>2, <2>3, Zenon DEF HasHeaders
<1>3. CheckHdr(p.start, InitEvent) = Evt("SEARCH", m, z, z, "ERROR", NoValue, NoValue, NoValue)
  <2> HIDE DEF p
  <2>1. CheckHdr(p.start, InitEvent) = [InitEvent EXCEPT !.Cmd = "SEARCH"]
    BY <1>2, Zenon DEF CheckHdr
  <2> QED
    BY <1>1, <2>1, FirstEvent, CmdIs
<1>4. /\ Accepted(g)
      /\ HandleNext(Evt("SEARCH", m, z, z, "ERROR", NoValue, NoValue, NoValue), g)
           = Evt("SEARCH", m, y, z, "ERROR", NoValue, NoValue, NoValue)
  BY <1>1, ManHandled
<1>5. /\ Accepted(h)
      /\ HandleNext(Evt("SEARCH", m, y, z, "ERROR", NoValue, NoValue, NoValue), h)
           = Evt("SEARCH", mx, y, z, "ERROR", NoValue, NoValue, NoValue)
  <2>1. Positive(mx)
    BY DEF Positive
  <2> QED
    BY <1>1, <2>1, MxHandled
<1>6. /\ Accepted(k)
      /\ HandleNext(Evt("SEARCH", mx, y, z, "ERROR", NoValue, NoValue, NoValue), k)
           = Evt("SEARCH", mx, y, z, rt, u, d, s)
  BY <1>1, TargetHandled
<1>7. e = Evt("SEARCH", mx, y, z, rt, u, d, s)
  <2> HIDE DEF p, g, h, k, u, d, s, rt
  <2>1. e = HandleNext(HandleNext(HandleNext(CheckHdr(p.start, InitEvent), g), h), k)
    <3> HIDE DEF e
    <3>1. HasHeaders(p, g, h, k)
      BY <1>2
    <3>2. AnalyzeCommand(p) = HandleNext(HandleNext(HandleNext(CheckHdr(p.start, InitEvent), g), h), k)
      BY <3>1, CommandOfThree
    <3> QED
      BY <3>2, Zenon DEF e
  <2> QED
    BY <1>3, <1>4, <1>5, <1>6, <2>1, Zenon
<1>8. Analyzed(p)
  <2> HIDE DEF p, g, h, k
  <2> QED
    BY <1>2, <1>4, <1>5, <1>6, AnalyzedThree DEF HasHeaders
<1> HIDE DEF e, p, u, d, s, rt
<1>9. \A x : e = Evt("SEARCH", x, y, z, rt, u, d, s) =>
         /\ e.ErrCode = 0 /\ e.Cmd = "SEARCH" /\ e.RequestType = rt /\ e.Mx = x /\ e.Man = y
         /\ e.UDN = u /\ e.DeviceType = d /\ e.ServiceType = s
  BY EvtFields
<1>10. /\ e.ErrCode = 0 /\ e.Cmd = "SEARCH" /\ e.RequestType = rt /\ e.Mx = mx /\ e.Man = y
       /\ e.UDN = u /\ e.DeviceType = d /\ e.ServiceType = s
  BY <1>7, <1>9, Zenon
<1>11. e.Mx >= 0 /\ e.Man
  BY <1>1, <1>10 DEF On
<1>12. Transferred(p)
  BY <1>8, <1>11, Zenon DEF Transferred, e
<1> QED
  BY <1>10, <1>12, Zenon DEF e, p, u, d, s, rt

LEMMA RepliesAre ==
    ASSUME NoValue # "ssdp:discover",
           NEW mx \in Int, mx > 0, NEW t, t.kind \in DOMAIN RequestTypes, NEW desc0
    PROVE  Replies(CreateClientRequestPacket(mx, t), desc0) = AdvertiseAndReply(ReplyTo(t), desc0)
<1> DEFINE p == CreateClientRequestPacket(mx, t)
           e == AnalyzeCommand(p)
<1>1. /\ Transferred(p)
      /\ e.ErrCode = 0 /\ e.Cmd = "SEARCH" /\ e.RequestType = RequestTypes[t.kind]
      /\ e.UDN = UdnIn(t, NoValue) /\ e.DeviceType = DeviceIn(t, NoValue)
      /\ e.ServiceType = ServiceIn(t, NoValue)
  BY RequestIs, Zenon
<1> HIDE DEF p
<1>2. Replies(p, desc0)
        = AdvertiseAndReply([AdFlag |-> 0, RequestType |-> e.RequestType, UDN |-> e.UDN,
                             DeviceType |-> e.DeviceType, ServiceType |-> e.ServiceType], desc0)
  BY <1>1, Zenon DEF Replies
<1> HIDE DEF e
<1>3. ReplyTo(t) = [AdFlag |-> 0, RequestType |-> e.RequestType, UDN |-> e.UDN,
                    DeviceType |-> e.DeviceType, ServiceType |-> e.ServiceType]
  BY <1>1, Zenon DEF ReplyTo
<1> QED
  BY <1>2, <1>3, Zenon DEF p, e

(* The targets of the packets of AdvertiseAndReply for a device, and for its
   services. *)
NotfOf(r) == IF r.AdFlag = 1 THEN 1 ELSE IF r.AdFlag = 0 THEN 2 ELSE 0
Wants(r, type) == r.AdFlag # 0 \/ r.RequestType = "ALL" \/ r.RequestType = type
DeviceTargets(r, dev, i) ==
    IF r.AdFlag # 0 \/ r.RequestType = "ALL"
    THEN (IF i = 1 THEN {RootDevice} ELSE {}) \cup {Uuid(dev.udn), DeviceUrn(dev.type)}
    ELSE IF r.RequestType = "ROOTDEVICE" THEN IF i = 1 THEN {RootDevice} ELSE {}
    ELSE IF r.RequestType = "DEVICE"
    THEN IF r.UDN # NoValue THEN IF r.UDN = dev.udn THEN {Uuid(dev.udn)} ELSE {}
         ELSE IF r.DeviceType = dev.type THEN {DeviceUrn(dev.type)} ELSE {}
    ELSE {}
ServiceTargets(r, s) ==
    IF s # NoValue /\ (r.AdFlag # 0 \/ r.RequestType = "ALL"
                       \/ (r.RequestType = "SERVICE" /\ r.ServiceType = s))
    THEN {ServiceUrn(s)} ELSE {}

(* A sequence that consists of the packets with certain targets. *)
Packs(q, n, u, T) ==
    /\ q \in Seq({Packet(n, u, t) : t \in T})
    /\ Range(q) = {Packet(n, u, t) : t \in T}

LEMMA NoPacks ==
    ASSUME NEW n, NEW u
    PROVE  Packs(<<>>, n, u, {})
  BY DEF Packs, Range

LEMMA OnePacks ==
    ASSUME NEW n, NEW u, NEW t
    PROVE  Packs(<<Packet(n, u, t)>>, n, u, {t})
  BY DEF Packs, Range

LEMMA OneTwoJoined ==
    ASSUME NEW a, NEW b, NEW c
    PROVE  <<a>> \o <<b, c>> = <<a, b, c>>
<1> DEFINE S == {a, b, c}
           s == <<a>>
           t == <<b, c>>
           x == s \o t
<1>1. /\ s \in Seq(S) /\ t \in Seq(S) /\ Len(s) = 1 /\ Len(t) = 2
      /\ s[1] = a /\ t[1] = b /\ t[2] = c
  OBVIOUS
<1> HIDE DEF s, t, S
<1>2. /\ s \o t \in Seq(S)
      /\ Len(s \o t) = Len(s) + Len(t)
      /\ \A i \in 1 .. Len(s) + Len(t) : (s \o t)[i] = IF i <= Len(s) THEN s[i] ELSE t[i - Len(s)]
  BY <1>1, ConcatProperties
<1> HIDE DEF x
<1>3. x \in Seq(S) /\ Len(x) = 3 /\ x[1] = a /\ x[2] = b /\ x[3] = c
  BY <1>1, <1>2 DEF x
<1>4. x = <<a, b, c>>
  BY <1>3
<1> QED
  BY <1>4, Zenon DEF x, s, t

LEMMA ManyPacks ==
    ASSUME NEW n, NEW u, NEW d, NEW root \in BOOLEAN
    PROVE  Packs(DevicePackets(n, d, root, u), n, u,
                 (IF root THEN {RootDevice} ELSE {}) \cup {Uuid(u), DeviceUrn(d)})
<1> DEFINE a == Packet(n, u, RootDevice)
           b == Packet(n, u, Uuid(u))
           c == Packet(n, u, DeviceUrn(d))
<1>1. CASE root
  <2>1. DevicePackets(n, d, root, u) = <<a>> \o <<b, c>>
    BY <1>1 DEF DevicePackets
  <2>3. DevicePackets(n, d, root, u) = <<a, b, c>>
    BY <2>1, OneTwoJoined, Zenon
  <2>4. {Packet(n, u, t) : t \in {RootDevice} \cup {Uuid(u), DeviceUrn(d)}} = {a, b, c}
    OBVIOUS
  <2>5. <<a, b, c>> \in Seq({a, b, c}) /\ Range(<<a, b, c>>) = {a, b, c}
    <3> HIDE DEF a, b, c
    <3> QED
      BY DEF Range
  <2> QED
    BY <1>1, <2>3, <2>4, <2>5, Zenon DEF Packs
<1>2. CASE ~root
  <2>1. DevicePackets(n, d, root, u) = <<>> \o <<b, c>>
    BY <1>2 DEF DevicePackets
  <2>2. ASSUME NEW y, NEW z
        PROVE  <<>> \o <<y, z>> = <<y, z>>
    OBVIOUS
  <2>3. DevicePackets(n, d, root, u) = <<b, c>>
    BY <2>1, <2>2, Zenon
  <2>4. {Packet(n, u, t) : t \in {} \cup {Uuid(u), DeviceUrn(d)}} = {b, c}
    OBVIOUS
  <2>5. <<b, c>> \in Seq({b, c}) /\ Range(<<b, c>>) = {b, c}
    <3> HIDE DEF a, b, c
    <3> QED
      BY DEF Range
  <2> QED
    BY <1>2, <2>3, <2>4, <2>5, Zenon DEF Packs
<1> QED
  BY <1>1, <1>2

LEMMA DevicePartIs ==
    ASSUME NEW r, r.AdFlag \in {0, 1, -1}, NEW dev, NEW i
    PROVE  Packs(DevicePart(r, dev, i), NotfOf(r), dev.udn, DeviceTargets(r, dev, i))
<1> DEFINE root == i = 1
<1>0. root \in BOOLEAN
  OBVIOUS
<1>1. CASE r.AdFlag # 0
  <2>1. DevicePart(r, dev, i) = DevicePackets(NotfOf(r), dev.type, root, dev.udn)
    BY <1>1 DEF DevicePart, NotfOf, DeviceAdvertisement, DeviceShutdown
  <2>2. DeviceTargets(r, dev, i)
          = (IF root THEN {RootDevice} ELSE {}) \cup {Uuid(dev.udn), DeviceUrn(dev.type)}
    BY <1>1, Zenon DEF DeviceTargets
  <2> HIDE DEF root
  <2> QED
    BY <1>0, <2>1, <2>2, ManyPacks
<1>2. CASE r.AdFlag = 0
  <2>0. NotfOf(r) = 2 /\ r.AdFlag # 1 /\ r.AdFlag # -1
    BY <1>2 DEF NotfOf
  <2>1. CASE r.RequestType = "ALL"
    <3>1. DevicePart(r, dev, i) = DevicePackets(2, dev.type, root, dev.udn)
      BY <1>2, <2>0, <2>1 DEF DevicePart, DeviceReply
    <3>2. DeviceTargets(r, dev, i)
          = (IF root THEN {RootDevice} ELSE {}) \cup {Uuid(dev.udn), DeviceUrn(dev.type)}
      BY <2>1, Zenon DEF DeviceTargets
    <3> HIDE DEF root
    <3> QED
      BY <1>0, <2>0, <3>1, <3>2, ManyPacks
  <2>2. CASE r.RequestType = "ROOTDEVICE"
    <3>1. DevicePart(r, dev, i) = IF i = 1 THEN <<Packet(2, dev.udn, RootDevice)>> ELSE <<>>
      BY <1>2, <2>0, <2>2 DEF DevicePart, SendReply
    <3>2. DeviceTargets(r, dev, i) = IF i = 1 THEN {RootDevice} ELSE {}
      BY <1>2, <2>2 DEF DeviceTargets
    <3> QED
      BY <2>0, <3>1, <3>2, NoPacks, OnePacks, Zenon
  <2>3. CASE r.RequestType = "DEVICE"
    <3>1. CASE r.UDN # NoValue
      <4>1. DevicePart(r, dev, i)
              = IF r.UDN = dev.udn THEN <<Packet(2, dev.udn, Uuid(dev.udn))>> ELSE <<>>
        BY <1>2, <2>0, <2>3, <3>1 DEF DevicePart, SendReply
      <4>2. DeviceTargets(r, dev, i) = IF r.UDN = dev.udn THEN {Uuid(dev.udn)} ELSE {}
        BY <1>2, <2>3, <3>1 DEF DeviceTargets
      <4> QED
        BY <2>0, <4>1, <4>2, NoPacks, OnePacks, Zenon
    <3>2. CASE r.UDN = NoValue
      <4>1. DevicePart(r, dev, i)
              = IF r.DeviceType = dev.type THEN <<Packet(2, dev.udn, DeviceUrn(dev.type))>> ELSE <<>>
        BY <1>2, <2>0, <2>3, <3>2 DEF DevicePart, SendReply
      <4>2. DeviceTargets(r, dev, i) = IF r.DeviceType = dev.type THEN {DeviceUrn(dev.type)} ELSE {}
        BY <1>2, <2>3, <3>2 DEF DeviceTargets
      <4> QED
        BY <2>0, <4>1, <4>2, NoPacks, OnePacks, Zenon
    <3> QED
      BY <3>1, <3>2
  <2>4. CASE r.RequestType \notin {"ALL", "ROOTDEVICE", "DEVICE"}
    <3>1. DevicePart(r, dev, i) = <<>>
      BY <1>2, <2>0, <2>4 DEF DevicePart
    <3>2. DeviceTargets(r, dev, i) = {}
      BY <1>2, <2>4 DEF DeviceTargets
    <3> QED
      BY <3>1, <3>2, NoPacks
  <2> QED
    BY <2>1, <2>2, <2>3, <2>4
<1> QED
  BY <1>1, <1>2

LEMMA ServicePartIs ==
    ASSUME NEW r, r.AdFlag \in {0, 1, -1}, NEW u, NEW s
    PROVE  Packs(IF s = NoValue THEN <<>> ELSE ServicePart(r, u, s), NotfOf(r), u,
                 ServiceTargets(r, s))
<1>1. CASE s = NoValue
  <2>1. ServiceTargets(r, s) = {}
    BY <1>1 DEF ServiceTargets
  <2> QED
    BY <1>1, <2>1, NoPacks
<1>2. CASE s # NoValue
  <2>1. CASE r.AdFlag # 0 \/ r.RequestType = "ALL" \/ (r.RequestType = "SERVICE" /\ r.ServiceType = s)
    <3>1. ServicePart(r, u, s) = <<Packet(NotfOf(r), u, ServiceUrn(s))>>
      <4>1. CASE r.AdFlag = 0
        BY <2>1, <4>1 DEF ServicePart, NotfOf, ServiceReply
      <4>2. CASE r.AdFlag = 1
        BY <4>2 DEF ServicePart, NotfOf, ServiceAdvertisement
      <4>3. CASE r.AdFlag = -1
        BY <4>3 DEF ServicePart, NotfOf, ServiceShutdown
      <4> QED
        BY <4>1, <4>2, <4>3
    <3>2. ServiceTargets(r, s) = {ServiceUrn(s)}
      BY <1>2, <2>1 DEF ServiceTargets
    <3> QED
      BY <1>2, <3>1, <3>2, OnePacks
  <2>2. CASE ~(r.AdFlag # 0 \/ r.RequestType = "ALL" \/ (r.RequestType = "SERVICE" /\ r.ServiceType = s))
    <3>1. ServicePart(r, u, s) = <<>>
      <4>1. /\ r.AdFlag = 0
            /\ ~(r.RequestType = "ALL" \/ (r.RequestType = "SERVICE" /\ r.ServiceType = s))
        BY <2>2, Zenon
      <4>2. r.AdFlag # 1 /\ r.AdFlag # -1
        BY <4>1
      <4>3. ServicePart(r, u, s)
              = IF r.RequestType = "ALL" \/ (r.RequestType = "SERVICE" /\ r.ServiceType = s)
                THEN ServiceReply(u, s) ELSE <<>>
        BY <4>1, <4>2 DEF ServicePart
      <4> QED
        BY <4>1, <4>3, Zenon
    <3>2. ServiceTargets(r, s) = {}
      BY <2>2, Zenon DEF ServiceTargets
    <3> QED
      BY <1>2, <3>1, <3>2, NoPacks
  <2> QED
    BY <2>1, <2>2
<1> QED
  BY <1>1, <1>2

LEMMA SeqWider ==
    ASSUME NEW A, NEW B, NEW q \in Seq(A), \A i \in DOMAIN q : q[i] \in B
    PROVE  q \in Seq(B)
  OBVIOUS

LEMMA PacksIn ==
    ASSUME NEW q, NEW n, NEW u, NEW T, Packs(q, n, u, T), NEW B,
           \A t \in T : Packet(n, u, t) \in B
    PROVE  q \in Seq(B)
<1> DEFINE A == {Packet(n, u, t) : t \in T}
<1>1. q \in Seq(A) /\ A \subseteq B
  BY DEF Packs
<1> HIDE DEF A
<1>2. \A i \in DOMAIN q : q[i] \in B
  BY <1>1
<1> QED
  BY <1>1, <1>2, SeqWider

LEMMA JoinedRange ==
    ASSUME NEW A, NEW p \in Seq(A), NEW q \in Seq(A)
    PROVE  p \o q \in Seq(A) /\ Range(p \o q) = Range(p) \cup Range(q)
<1>1. /\ p \o q \in Seq(A)
      /\ Len(p \o q) = Len(p) + Len(q)
      /\ \A i \in 1 .. Len(p) + Len(q) : (p \o q)[i] = IF i <= Len(p) THEN p[i] ELSE q[i - Len(p)]
  BY ConcatProperties
<1>2. /\ Len(p) \in Nat /\ Len(q) \in Nat /\ DOMAIN p = 1..Len(p) /\ DOMAIN q = 1..Len(q)
      /\ DOMAIN (p \o q) = 1 .. Len(p) + Len(q)
  BY <1>1
<1> DEFINE s == p \o q
<1> HIDE DEF s
<1>3. /\ DOMAIN s = 1 .. Len(p) + Len(q)
      /\ \A i \in 1 .. Len(p) + Len(q) : s[i] = IF i <= Len(p) THEN p[i] ELSE q[i - Len(p)]
  BY <1>1, <1>2 DEF s
<1>4. ASSUME NEW x \in Range(s) PROVE x \in Range(p) \cup Range(q)
  <2>1. PICK i \in 1 .. Len(p) + Len(q) : x = s[i]
    BY <1>3 DEF Range
  <2>2. CASE i <= Len(p)
    BY <1>2, <1>3, <2>1, <2>2 DEF Range
  <2>3. CASE i > Len(p)
    <3>1. i - Len(p) \in DOMAIN q /\ x = q[i - Len(p)]
      BY <1>2, <1>3, <2>1, <2>3
    <3> QED
      BY <3>1 DEF Range
  <2> QED
    BY <1>2, <2>2, <2>3
<1>5. ASSUME NEW x \in Range(p) PROVE x \in Range(s)
  <2>1. PICK i \in 1..Len(p) : x = p[i]
    BY <1>2 DEF Range
  <2>2. i \in 1 .. Len(p) + Len(q) /\ x = s[i]
    BY <1>2, <1>3, <2>1
  <2> QED
    BY <1>3, <2>2 DEF Range
<1>6. ASSUME NEW x \in Range(q) PROVE x \in Range(s)
  <2>1. PICK i \in 1..Len(q) : x = q[i]
    BY <1>2 DEF Range
  <2> DEFINE k == i + Len(p)
  <2>3. k \in 1 .. Len(p) + Len(q) /\ ~(k <= Len(p)) /\ k - Len(p) = i
    BY <1>2
  <2>2. k \in 1 .. Len(p) + Len(q) /\ x = s[k]
    <3> HIDE DEF k
    <3>1. s[k] = q[k - Len(p)]
      BY <1>3, <2>3
    <3> QED
      BY <2>1, <2>3, <3>1
  <2> QED
    BY <1>3, <2>2 DEF Range
<1>7. Range(s) = Range(p) \cup Range(q)
  BY <1>4, <1>5, <1>6
<1> QED
  BY <1>1, <1>7 DEF s

LEMMA JoinedPacks ==
    ASSUME NEW p, NEW q, NEW n, NEW u, NEW T, NEW V, Packs(p, n, u, T), Packs(q, n, u, V)
    PROVE  Packs(p \o q, n, u, T \cup V)
<1> DEFINE A == {Packet(n, u, t) : t \in T \cup V}
<1>1. p \in Seq(A) /\ q \in Seq(A)
  BY PacksIn
<1>2. Range(p) \cup Range(q) = A
  BY DEF Packs
<1> HIDE DEF A
<1>3. p \o q \in Seq(A) /\ Range(p \o q) = A
  BY <1>1, <1>2, JoinedRange
<1> QED
  BY <1>3 DEF Packs, A

AllPacks(ss, n, u, m, T) ==
    ss = [i \in 1..m |-> ss[i]] /\ \A i \in 1..m : Packs(ss[i], n, u, T[i])
AllOf(m, T) == UNION {T[i] : i \in 1..m}

LEMMA FlattenedPacks ==
    ASSUME NEW n, NEW u, NEW m \in Nat, NEW ss, NEW T, AllPacks(ss, n, u, m, T)
    PROVE  Packs(FlattenSeq(ss), n, u, AllOf(m, T))
<1> DEFINE V == UNION {T[i] : i \in 1..m}
           A == {Packet(n, u, t) : t \in V}
<1>0. /\ ss = [i \in 1..m |-> ss[i]] /\ DOMAIN ss = 1..m
      /\ \A i \in 1..m : Packs(ss[i], n, u, T[i])
  BY DEF AllPacks
<1>1. ASSUME NEW i \in 1..m
      PROVE  ss[i] \in Seq(A) /\ Range(ss[i]) = {Packet(n, u, t) : t \in T[i]}
  <2>1. Packs(ss[i], n, u, T[i])
    BY <1>0
  <2>2. \A t \in T[i] : Packet(n, u, t) \in A
    OBVIOUS
  <2> HIDE DEF A
  <2>3. ss[i] \in Seq(A)
    BY <2>1, <2>2, PacksIn
  <2> QED
    BY <2>1, <2>3 DEF Packs
<1>2. ss \in Seq(Seq(A))
  <2> HIDE DEF A
  <2> QED
    BY <1>0, <1>1
<1>3. /\ FlattenSeq(ss) \in Seq(A)
      /\ \A x : x \in Range(FlattenSeq(ss)) <=> \E i \in DOMAIN ss : x \in Range(ss[i])
  <2> HIDE DEF A
  <2> QED
    BY <1>2, FlattenedRange
<1>4. Range(FlattenSeq(ss)) = A
  <2>1. ASSUME NEW x \in Range(FlattenSeq(ss)) PROVE x \in A
    <3>1. PICK i \in 1..m : x \in Range(ss[i])
      BY <1>0, <1>3
    <3>2. PICK t \in T[i] : x = Packet(n, u, t)
      BY <1>1, <3>1
    <3> QED
      BY <3>2
  <2>2. ASSUME NEW x \in A PROVE x \in Range(FlattenSeq(ss))
    <3>1. PICK i \in 1..m : \E t \in T[i] : x = Packet(n, u, t)
      OBVIOUS
    <3>2. x \in Range(ss[i])
      BY <1>1, <3>1
    <3> QED
      BY <1>0, <1>3, <3>2
  <2> QED
    BY <2>1, <2>2
<1> QED
  BY <1>3, <1>4, Zenon DEF Packs, AllOf
LEMMA ServicesPacks ==
    ASSUME NEW r, r.AdFlag \in {0, 1, -1}, NEW u, NEW S, NEW l \in Seq(S)
    PROVE  Packs(FlattenSeq([j \in DOMAIN l |-> IF l[j] = NoValue THEN <<>>
                                                ELSE ServicePart(r, u, l[j])]),
                 NotfOf(r), u, UNION {ServiceTargets(r, s) : s \in Range(l)})
<1> DEFINE m == Len(l)
           ss == [j \in DOMAIN l |-> IF l[j] = NoValue THEN <<>> ELSE ServicePart(r, u, l[j])]
           T == [j \in 1..m |-> ServiceTargets(r, l[j])]
<1>1. m \in Nat /\ DOMAIN l = 1..m
  OBVIOUS
<1>2. \A j \in 1..m : ss[j] = IF l[j] = NoValue THEN <<>> ELSE ServicePart(r, u, l[j])
  BY <1>1
<1>3. DOMAIN ss = 1..m /\ ss = [j \in 1..m |-> ss[j]]
  BY <1>1, Zenon
<1>4. \A j \in 1..m : T[j] = ServiceTargets(r, l[j])
  OBVIOUS
<1>7. Range(l) = {l[j] : j \in 1..m}
  BY <1>1, Zenon DEF Range
<1> HIDE DEF m, ss, T
<1>5. \A j \in 1..m : Packs(ss[j], NotfOf(r), u, T[j])
  <2> TAKE j \in 1..m
  <2>1. Packs(IF l[j] = NoValue THEN <<>> ELSE ServicePart(r, u, l[j]), NotfOf(r), u,
              ServiceTargets(r, l[j]))
    BY ServicePartIs
  <2> QED
    BY <1>2, <1>4, <2>1, Zenon
<1>9. AllPacks(ss, NotfOf(r), u, m, T)
  BY <1>3, <1>5, Zenon DEF AllPacks
<1>6. Packs(FlattenSeq(ss), NotfOf(r), u, AllOf(m, T))
  BY <1>1, <1>9, FlattenedPacks
<1>8. AllOf(m, T) = UNION {ServiceTargets(r, s) : s \in Range(l)}
  BY <1>4, <1>7 DEF AllOf
<1> QED
  BY <1>6, <1>8, Zenon DEF ss

(* What a well-formed description has. *)
ServicesOf(dev) == dev.serviceLists[1]

LEMMA ListsAre ==
    ASSUME NEW desc0, WellFormed(desc0)
    PROVE  /\ Len(desc0) \in Nat /\ DOMAIN desc0 = 1..Len(desc0) /\ 1 \in DOMAIN desc0
           /\ Len(ServiceLists(desc0)) = Len(desc0)
           /\ \A i \in DOMAIN desc0 :
                 /\ desc0[i].type # NoValue /\ desc0[i].udn # NoValue
                 /\ ServiceLists(desc0)[i] = ServicesOf(desc0[i])
                 /\ ServicesOf(desc0[i]) \in Seq(Range(ServicesOf(desc0[i])))
                 /\ Range(desc0[i].serviceLists) = {ServicesOf(desc0[i])}
<1>1. /\ desc0 \in Seq(Range(desc0)) /\ desc0 # <<>>
      /\ \A i \in DOMAIN desc0 : /\ desc0[i].type # NoValue /\ desc0[i].udn # NoValue
                                 /\ Len(desc0[i].serviceLists) = 1
                                 /\ desc0[i].serviceLists \in Seq(Seq(Range(ServicesOf(desc0[i]))))
  BY Zenon DEF WellFormed, ServicesOf
<1>2. Len(desc0) \in Nat /\ DOMAIN desc0 = 1..Len(desc0) /\ 1 \in DOMAIN desc0
  BY <1>1
<1> DEFINE ss == [i \in DOMAIN desc0 |-> desc0[i].serviceLists]
           S == {ServicesOf(desc0[i]) : i \in DOMAIN desc0}
<1>3. ASSUME NEW l, NEW A, Len(l) = 1, l \in Seq(A)
      PROVE  DOMAIN l = {1} /\ l[1] \in A /\ Range(l) = {l[1]} /\ l \in Seq({l[1]})
  <2>1. DOMAIN l = {1} /\ l[1] \in A /\ \A i \in DOMAIN l : i = 1
    BY <1>3
  <2>2. Range(l) = {l[1]}
    BY <2>1, Zenon DEF Range
  <2>3. \A i \in DOMAIN l : l[i] \in {l[1]}
    BY <2>1
  <2> DEFINE B == {l[1]}
  <2> HIDE DEF B
  <2>4. l \in Seq(B)
    BY <1>3, <2>3, SeqWider DEF B
  <2> QED
    BY <2>1, <2>2, <2>4 DEF B
<1>4. ASSUME NEW i \in DOMAIN desc0
      PROVE  /\ ServicesOf(desc0[i]) \in Seq(Range(ServicesOf(desc0[i])))
             /\ Range(desc0[i].serviceLists) = {ServicesOf(desc0[i])}
             /\ desc0[i].serviceLists \in Seq({ServicesOf(desc0[i])})
  <2>1. /\ Len(desc0[i].serviceLists) = 1
        /\ desc0[i].serviceLists \in Seq(Seq(Range(ServicesOf(desc0[i]))))
    BY <1>1
  <2> QED
    BY <1>3, <2>1, Zenon DEF ServicesOf
<1>5. ss \in Seq(Seq(S)) /\ Len(ss) = Len(desc0) /\ DOMAIN ss = DOMAIN desc0
      /\ \A i \in DOMAIN ss : ss[i] = desc0[i].serviceLists
  <2>1. \A i \in DOMAIN desc0 : desc0[i].serviceLists \in Seq(S)
    <3> TAKE i \in DOMAIN desc0
    <3>1. ServicesOf(desc0[i]) \in S
      OBVIOUS
    <3>2. desc0[i].serviceLists \in Seq({ServicesOf(desc0[i])})
      BY <1>4
    <3> HIDE DEF S
    <3> QED
      BY <3>1, <3>2
  <2> HIDE DEF S
  <2> QED
    BY <1>2, <2>1
<1> HIDE DEF ss, S
<1>6. \A i \in DOMAIN ss : Len(ss[i]) = 1
  BY <1>1, <1>5
<1>7. Len(FlattenSeq(ss)) = Len(ss) /\ \A i \in DOMAIN ss : FlattenSeq(ss)[i] = ss[i][1]
  BY <1>5, <1>6, FlattenedSingles
<1>8. FlattenSeq(ss) = ServiceLists(desc0)
  BY Zenon DEF ss, ServiceLists
<1> QED
  BY <1>1, <1>2, <1>4, <1>5, <1>7, <1>8, Zenon DEF ServicesOf

TargetsOf(r, devs, i) ==
    DeviceTargets(r, devs[i], i) \cup UNION {ServiceTargets(r, s) : s \in Range(ServicesOf(devs[i]))}

LEMMA AdvertiseIs ==
    ASSUME NEW devs, WellFormed(devs), NEW r, r.AdFlag \in {0, 1, -1}
    PROVE  \A x : x \in Range(AdvertiseAndReply(r, devs))
                    <=> \E i \in DOMAIN devs : \E t \in TargetsOf(r, devs, i) :
                           x = Packet(NotfOf(r), devs[i].udn, t)
<1> DEFINE n == NotfOf(r)
           Sv(i) == FlattenSeq([j \in DOMAIN ServicesOf(devs[i]) |->
                        IF ServicesOf(devs[i])[j] = NoValue THEN <<>>
                        ELSE ServicePart(r, devs[i].udn, ServicesOf(devs[i])[j])])
           ss == [i \in DOMAIN devs |-> DevicePart(r, devs[i], i) \o Sv(i)]
           S == UNION {{Packet(n, devs[i].udn, t) : t \in TargetsOf(r, devs, i)} : i \in DOMAIN devs}
<1>1. /\ Len(devs) \in Nat /\ DOMAIN devs = 1..Len(devs)
      /\ Len(ServiceLists(devs)) = Len(devs)
      /\ \A i \in DOMAIN devs :
            /\ devs[i].type # NoValue /\ devs[i].udn # NoValue
            /\ ServiceLists(devs)[i] = ServicesOf(devs[i])
            /\ ServicesOf(devs[i]) \in Seq(Range(ServicesOf(devs[i])))
  BY ListsAre
<1>2. AdvertiseAndReply(r, devs) = FlattenSeq(ss)
  <2>1. \A i \in DOMAIN devs : ~(i > Len(ServiceLists(devs)))
    BY <1>1
  <2>2. ASSUME NEW i \in DOMAIN devs
        PROVE  (IF devs[i].type = NoValue \/ devs[i].udn = NoValue THEN <<>>
                ELSE DevicePart(r, devs[i], i)
                     \o (IF i > Len(ServiceLists(devs)) THEN <<>>
                         ELSE LET services == ServiceLists(devs)[i]
                              IN  FlattenSeq([j \in DOMAIN services |->
                                      IF services[j] = NoValue THEN <<>>
                                      ELSE ServicePart(r, devs[i].udn, services[j])])))
               = DevicePart(r, devs[i], i) \o Sv(i)
    BY <1>1, <2>1, Zenon
  <2> QED
    BY <2>2, Zenon DEF AdvertiseAndReply
<1>3. \A i \in DOMAIN devs : Packs(ss[i], n, devs[i].udn, TargetsOf(r, devs, i))
  <2> TAKE i \in DOMAIN devs
  <2>1. Packs(DevicePart(r, devs[i], i), n, devs[i].udn, DeviceTargets(r, devs[i], i))
    BY DevicePartIs
  <2>2. Packs(Sv(i), n, devs[i].udn, UNION {ServiceTargets(r, s) : s \in Range(ServicesOf(devs[i]))})
    BY <1>1, ServicesPacks
  <2>3. ASSUME NEW p, NEW q, NEW T, NEW V, Packs(p, n, devs[i].udn, T), Packs(q, n, devs[i].udn, V)
        PROVE  Packs(p \o q, n, devs[i].udn, T \cup V)
    BY <2>3, JoinedPacks
  <2>4. ss[i] = DevicePart(r, devs[i], i) \o Sv(i)
    OBVIOUS
  <2> QED
    BY <2>1, <2>2, <2>3, <2>4, Zenon DEF TargetsOf
<1>4. DOMAIN ss = DOMAIN devs /\ ss = [i \in DOMAIN devs |-> ss[i]]
  BY Zenon
<1> HIDE DEF ss, n
<1>5. ASSUME NEW i \in DOMAIN devs
      PROVE  /\ ss[i] \in Seq(S)
             /\ Range(ss[i]) = {Packet(n, devs[i].udn, t) : t \in TargetsOf(r, devs, i)}
  <2>1. Packs(ss[i], n, devs[i].udn, TargetsOf(r, devs, i))
    BY <1>3
  <2>2. \A t \in TargetsOf(r, devs, i) : Packet(n, devs[i].udn, t) \in S
    OBVIOUS
  <2> HIDE DEF S
  <2>3. ss[i] \in Seq(S)
    BY <2>1, <2>2, PacksIn
  <2> QED
    BY <2>1, <2>3 DEF Packs
<1> HIDE DEF S
<1>6. ss \in Seq(Seq(S))
  BY <1>1, <1>4, <1>5
<1>7. \A x : x \in Range(FlattenSeq(ss)) <=> \E i \in DOMAIN ss : x \in Range(ss[i])
  BY <1>6, FlattenedRange
<1>8. TAKE x
<1>9. ASSUME NEW i \in DOMAIN devs
      PROVE  x \in Range(ss[i]) <=> \E t \in TargetsOf(r, devs, i) : x = Packet(n, devs[i].udn, t)
  BY <1>5
<1> QED
  BY <1>2, <1>4, <1>7, <1>9, Zenon DEF n

LEMMA TargetsProper ==
    ASSUME NEW devs, NEW r, NEW i, NEW t \in TargetsOf(r, devs, i)
    PROVE  Proper(t, devs[i].udn)
<1>1. ASSUME NEW u, NEW x
      PROVE  Proper(RootDevice, u) /\ Proper(Uuid(u), u) /\ Proper(DeviceUrn(x), u)
             /\ Proper(ServiceUrn(x), u)
  BY DEF Proper, RootDevice, Uuid, DeviceUrn, ServiceUrn, Target, RequestTypes
<1>2. t \in {RootDevice, Uuid(devs[i].udn), DeviceUrn(devs[i].type)} \/ \E s : t = ServiceUrn(s)
  BY DEF TargetsOf, DeviceTargets, ServiceTargets
<1> QED
  BY <1>1, <1>2

(* What control points learn from AdvertiseAndReply. *)
LEMMA LearntIs ==
    ASSUME NEW devs, WellFormed(devs), NEW r, r.AdFlag \in {0, 1, -1}
    PROVE  \A x : x \in Events(Range(AdvertiseAndReply(r, devs)))
                    <=> \E i \in DOMAIN devs : \E t \in TargetsOf(r, devs, i) :
                           x = NewsOf(NotfOf(r), devs[i].udn, t)
<1> DEFINE n == NotfOf(r)
           R == Range(AdvertiseAndReply(r, devs))
<1>1. n \in 0..2
  BY DEF NotfOf
<1>2. \A x : x \in R <=> \E i \in DOMAIN devs : \E t \in TargetsOf(r, devs, i) :
                           x = Packet(n, devs[i].udn, t)
  BY AdvertiseIs
<1> HIDE DEF n, R
<1>3. ASSUME NEW i \in DOMAIN devs, NEW t \in TargetsOf(r, devs, i)
      PROVE  /\ Reported(Packet(n, devs[i].udn, t))
             /\ Upnp_Discovery(AnalyzeCommand(Packet(n, devs[i].udn, t))) = NewsOf(n, devs[i].udn, t)
  BY <1>1, PacketTells, TargetsProper
<1>4. \A x : x \in Events(R) <=> \E p \in R : Reported(p) /\ x = Upnp_Discovery(AnalyzeCommand(p))
  BY Zenon DEF Events
<1>5. ASSUME NEW x
      PROVE  x \in Events(R) <=> \E i \in DOMAIN devs : \E t \in TargetsOf(r, devs, i) :
                                    x = NewsOf(n, devs[i].udn, t)
  <2>1. ASSUME x \in Events(R)
        PROVE  \E i \in DOMAIN devs : \E t \in TargetsOf(r, devs, i) : x = NewsOf(n, devs[i].udn, t)
    <3>1. PICK p \in R : x = Upnp_Discovery(AnalyzeCommand(p))
      BY <1>4, <2>1, Zenon
    <3>2. PICK i \in DOMAIN devs : \E t \in TargetsOf(r, devs, i) : p = Packet(n, devs[i].udn, t)
      BY <1>2, <3>1, Zenon
    <3>3. PICK t \in TargetsOf(r, devs, i) : p = Packet(n, devs[i].udn, t)
      BY <3>2
    <3> QED
      BY <1>3, <3>1, <3>3, Zenon
  <2>2. ASSUME NEW i \in DOMAIN devs, NEW t \in TargetsOf(r, devs, i), x = NewsOf(n, devs[i].udn, t)
        PROVE  x \in Events(R)
    <3>1. Packet(n, devs[i].udn, t) \in R
      BY <1>2, Zenon
    <3> QED
      BY <1>3, <1>4, <2>2, <3>1, Zenon
  <2> QED
    BY <2>1, <2>2, Zenon
<1> QED
  BY <1>5, Zenon DEF n, R
(* What the events should tell, of one device and of all. *)
Tell(type, u, d, s) == [type |-> type, DeviceId |-> u, DeviceType |-> d, ServiceType |-> s]
Typ(n) == EventTypes[Cmds(n)]

LEMMA NewsTell ==
    ASSUME NEW n, NEW u
    PROVE  /\ NewsOf(n, u, RootDevice) = Tell(Typ(n), u, NoValue, NoValue)
           /\ NewsOf(n, u, Uuid(u)) = Tell(Typ(n), u, NoValue, NoValue)
           /\ \A d : NewsOf(n, u, DeviceUrn(d)) = Tell(Typ(n), u, d, NoValue)
           /\ \A s : NewsOf(n, u, ServiceUrn(s)) = Tell(Typ(n), u, NoValue, s)
<1>1. ASSUME NEW t, NEW d, NEW s, DeviceIn(t, NoValue) = d, ServiceIn(t, NoValue) = s
      PROVE  NewsOf(n, u, t) = Tell(Typ(n), u, d, s)
  BY <1>1, Zenon DEF NewsOf, Tell, Typ
<1>2. /\ DeviceIn(RootDevice, NoValue) = NoValue /\ ServiceIn(RootDevice, NoValue) = NoValue
      /\ DeviceIn(Uuid(u), NoValue) = NoValue /\ ServiceIn(Uuid(u), NoValue) = NoValue
      /\ \A d : DeviceIn(DeviceUrn(d), NoValue) = d /\ ServiceIn(DeviceUrn(d), NoValue) = NoValue
      /\ \A s : DeviceIn(ServiceUrn(s), NoValue) = NoValue /\ ServiceIn(ServiceUrn(s), NoValue) = s
  BY DEF DeviceIn, ServiceIn, RootDevice, Uuid, DeviceUrn, ServiceUrn, Target
<1>3. NewsOf(n, u, RootDevice) = Tell(Typ(n), u, NoValue, NoValue)
  BY <1>1, <1>2
<1>4. NewsOf(n, u, Uuid(u)) = Tell(Typ(n), u, NoValue, NoValue)
  BY <1>1, <1>2
<1>5. ASSUME NEW d PROVE NewsOf(n, u, DeviceUrn(d)) = Tell(Typ(n), u, d, NoValue)
  BY <1>1, <1>2
<1>6. ASSUME NEW s PROVE NewsOf(n, u, ServiceUrn(s)) = Tell(Typ(n), u, NoValue, s)
  BY <1>1, <1>2
<1> QED
  BY <1>3, <1>4, <1>5, <1>6, Zenon

LEMMA ToldIs ==
    ASSUME NEW devs, WellFormed(devs), NEW type, NEW i \in DOMAIN devs
    PROVE  /\ Told(type, i, devs).udn = Tell(type, devs[i].udn, NoValue, NoValue)
           /\ Told(type, i, devs).type = Tell(type, devs[i].udn, devs[i].type, NoValue)
           /\ Told(type, i, devs).services
                = {Tell(type, devs[i].udn, NoValue, s) : s \in Range(ServicesOf(devs[i]))}
<1>1. Range(devs[i].serviceLists) = {ServicesOf(devs[i])}
  BY ListsAre
<1> DEFINE B == UNION {Range(l) : l \in Range(devs[i].serviceLists)}
           V == {Tell(type, devs[i].udn, NoValue, s) : s \in B}
<1>2. B = Range(ServicesOf(devs[i]))
  BY <1>1
<1>3. Told(type, i, devs) = [udn |-> Tell(type, devs[i].udn, NoValue, NoValue),
                             type |-> Tell(type, devs[i].udn, devs[i].type, NoValue),
                             services |-> V]
  BY Zenon DEF Told, Tell
<1>4. V = {Tell(type, devs[i].udn, NoValue, s) : s \in Range(ServicesOf(devs[i]))}
  BY <1>2, Zenon
<1> HIDE DEF V
<1> QED
  BY <1>3, <1>4

(* Where nothing is left out, everything is told. *)
Everything(r) == r.AdFlag # 0 \/ r.RequestType = "ALL"

LEMMA AllLearnt ==
    ASSUME NEW devs, WellFormed(devs), NEW r, r.AdFlag \in {0, 1, -1}, Everything(r)
    PROVE  Events(Range(AdvertiseAndReply(r, devs))) = AllTold(Typ(NotfOf(r)), devs)
<1> DEFINE n == NotfOf(r)
           E == Events(Range(AdvertiseAndReply(r, devs)))
           F(i) == LET told == Told(Typ(n), i, devs) IN {told.udn, told.type} \cup told.services
<1>1. \A x : x \in E <=> \E i \in DOMAIN devs : \E t \in TargetsOf(r, devs, i) :
                           x = NewsOf(n, devs[i].udn, t)
  BY LearntIs
<1> HIDE DEF n, E
<1>2. ASSUME NEW i \in DOMAIN devs, NEW x
      PROVE  (\E t \in TargetsOf(r, devs, i) : x = NewsOf(n, devs[i].udn, t)) <=> x \in F(i)
  <2> DEFINE u == devs[i].udn
             d == devs[i].type
             A == Range(ServicesOf(devs[i]))
  <2>1. F(i) = {Tell(Typ(n), u, NoValue, NoValue), Tell(Typ(n), u, d, NoValue)}
                \cup {Tell(Typ(n), u, NoValue, s) : s \in A}
    <3> DEFINE told == Told(Typ(n), i, devs)
    <3>1. /\ told.udn = Tell(Typ(n), u, NoValue, NoValue)
          /\ told.type = Tell(Typ(n), u, d, NoValue)
          /\ told.services = {Tell(Typ(n), u, NoValue, s) : s \in A}
      BY ToldIs
    <3> QED
      BY <3>1, Zenon
  <2>2. /\ Uuid(u) \in TargetsOf(r, devs, i) /\ DeviceUrn(d) \in TargetsOf(r, devs, i)
        /\ \A s \in A : s # NoValue => ServiceUrn(s) \in TargetsOf(r, devs, i)
    BY DEF TargetsOf, DeviceTargets, ServiceTargets, Everything
  <2>3. \A t \in TargetsOf(r, devs, i) :
           t \in {RootDevice, Uuid(u), DeviceUrn(d)} \/ \E s \in A : t = ServiceUrn(s)
    BY DEF TargetsOf, DeviceTargets, ServiceTargets
  <2>4. /\ NewsOf(n, u, RootDevice) = Tell(Typ(n), u, NoValue, NoValue)
        /\ NewsOf(n, u, Uuid(u)) = Tell(Typ(n), u, NoValue, NoValue)
        /\ \A y : NewsOf(n, u, DeviceUrn(y)) = Tell(Typ(n), u, y, NoValue)
        /\ \A s : NewsOf(n, u, ServiceUrn(s)) = Tell(Typ(n), u, NoValue, s)
    BY NewsTell
  <2> HIDE DEF u, d, A, F
  <2>5. ASSUME NEW t \in TargetsOf(r, devs, i), x = NewsOf(n, u, t) PROVE x \in F(i)
    BY <2>1, <2>3, <2>4, <2>5
  <2>6. ASSUME x \in F(i) PROVE \E t \in TargetsOf(r, devs, i) : x = NewsOf(n, u, t)
    <3>1. CASE x = Tell(Typ(n), u, NoValue, NoValue)
      BY <2>2, <2>4, <3>1
    <3>2. CASE x = Tell(Typ(n), u, d, NoValue)
      BY <2>2, <2>4, <3>2
    <3>3. CASE x \in {Tell(Typ(n), u, NoValue, s) : s \in A}
      <4>1. PICK s \in A : x = Tell(Typ(n), u, NoValue, s)
        BY <3>3
      <4>2. CASE s = NoValue
        BY <3>1, <4>1, <4>2
      <4>3. CASE s # NoValue
        BY <2>2, <2>4, <4>1, <4>3
      <4> QED
        BY <4>2, <4>3
    <3> QED
      BY <2>1, <2>6, <3>1, <3>2, <3>3
  <2> QED
    BY <2>5, <2>6 DEF u
<1>4. AllTold(Typ(n), devs) = UNION {F(i) : i \in DOMAIN devs}
  BY Zenon DEF AllTold
<1> HIDE DEF F
<1>3. ASSUME NEW x PROVE x \in E <=> \E i \in DOMAIN devs : x \in F(i)
  <2>1. x \in E <=> \E i \in DOMAIN devs : \E t \in TargetsOf(r, devs, i) :
                      x = NewsOf(n, devs[i].udn, t)
    BY <1>1
  <2>2. \A i \in DOMAIN devs :
           (\E t \in TargetsOf(r, devs, i) : x = NewsOf(n, devs[i].udn, t)) <=> x \in F(i)
    BY <1>2
  <2> QED
    BY <2>1, <2>2, Zenon
<1>5. E = UNION {F(i) : i \in DOMAIN devs}
  BY <1>3
<1> QED
  BY <1>4, <1>5, Zenon DEF E, n

LEMMA ReplyIs ==
    ASSUME NEW t, Asked(t)
    PROVE  LET r == ReplyTo(t)
           IN  /\ r.AdFlag = 0 /\ r.RequestType = RequestTypes[t.kind] /\ NotfOf(r) = 2
               /\ t.kind = "uuid:" => r.UDN = t.name /\ r.DeviceType = NoValue
               /\ t.kind = "urn:device:" => r.UDN = NoValue /\ r.DeviceType = t.name
               /\ t.kind = "urn:service:" => r.ServiceType = t.name
<1> DEFINE r == ReplyTo(t)
<1>1. /\ r.AdFlag = 0 /\ r.RequestType = RequestTypes[t.kind] /\ r.UDN = UdnIn(t, NoValue)
      /\ r.DeviceType = DeviceIn(t, NoValue) /\ r.ServiceType = ServiceIn(t, NoValue)
  BY DEF ReplyTo
<1>2. NotfOf(r) = 2
  BY <1>1 DEF NotfOf
<1> HIDE DEF r
<1> QED
  BY <1>1, <1>2 DEF UdnIn, DeviceIn, ServiceIn, Asked, r

LEMMA KindsAre ==
    /\ DOMAIN RequestTypes = {"ssdp:all", "upnp:rootdevice", "uuid:", "urn:device:", "urn:service:"}
    /\ RequestTypes["ssdp:all"] = "ALL" /\ RequestTypes["upnp:rootdevice"] = "ROOTDEVICE"
    /\ RequestTypes["uuid:"] = "DEVICE" /\ RequestTypes["urn:device:"] = "DEVICE"
    /\ RequestTypes["urn:service:"] = "SERVICE"
  BY DEF RequestTypes

LEMMA TypIs == Typ(2) = "SEARCH_RESULT" /\ Typ(1) = "ADVERTISEMENT_ALIVE"
               /\ Typ(0) = "ADVERTISEMENT_BYEBYE"
  BY DEF Typ, Cmds, EventTypes

LEMMA MatchLearnt ==
    ASSUME NEW devs, WellFormed(devs), NEW t, Asked(t)
    PROVE  Events(Range(AdvertiseAndReply(ReplyTo(t), devs))) = Matching(t, devs)
<1> DEFINE r == ReplyTo(t)
           E == Events(Range(AdvertiseAndReply(r, devs)))
           D == DOMAIN devs
           N(i, d, s) == Tell("SEARCH_RESULT", devs[i].udn, d, s)
           told(i) == Told("SEARCH_RESULT", i, devs)
<1>0. /\ r.AdFlag = 0 /\ r.RequestType = RequestTypes[t.kind] /\ NotfOf(r) = 2
      /\ t.kind = "uuid:" => r.UDN = t.name /\ r.DeviceType = NoValue
      /\ t.kind = "urn:device:" => r.UDN = NoValue /\ r.DeviceType = t.name
      /\ t.kind = "urn:service:" => r.ServiceType = t.name /\ t.name # NoValue
  BY ReplyIs DEF Asked
<1> HIDE DEF r
<1>1. \A x : x \in E <=> \E i \in D : \E c \in TargetsOf(r, devs, i) : x = NewsOf(2, devs[i].udn, c)
  BY <1>0, LearntIs
<1>2. \A i \in D :
         /\ NewsOf(2, devs[i].udn, RootDevice) = N(i, NoValue, NoValue)
         /\ NewsOf(2, devs[i].udn, Uuid(devs[i].udn)) = N(i, NoValue, NoValue)
         /\ \A d : NewsOf(2, devs[i].udn, DeviceUrn(d)) = N(i, d, NoValue)
         /\ \A s : NewsOf(2, devs[i].udn, ServiceUrn(s)) = N(i, NoValue, s)
  BY NewsTell, TypIs
<1>3. \A i \in D : /\ told(i).udn = N(i, NoValue, NoValue)
                   /\ told(i).type = N(i, devs[i].type, NoValue)
                   /\ told(i).services = {N(i, NoValue, s) : s \in Range(ServicesOf(devs[i]))}
  BY ToldIs
<1>4. 1 \in D
  BY ListsAre
<1>5. CASE t.kind = "ssdp:all"
  <2>1. Everything(r)
    BY <1>0, <1>5, KindsAre DEF Everything
  <2>2. E = AllTold("SEARCH_RESULT", devs)
    BY <1>0, <2>1, AllLearnt, TypIs
  <2>3. Matching(t, devs) = AllTold("SEARCH_RESULT", devs)
    BY <1>5, Zenon DEF Matching
  <2> QED
    BY <2>2, <2>3, Zenon DEF r
<1> HIDE DEF E, N, told
<1>6. CASE t.kind = "upnp:rootdevice"
  <2>1. \A i \in D : TargetsOf(r, devs, i) = IF i = 1 THEN {RootDevice} ELSE {}
    BY <1>0, <1>6, KindsAre DEF TargetsOf, DeviceTargets, ServiceTargets
  <2>2. E = {told(1).udn}
    BY <1>1, <1>2, <1>3, <1>4, <2>1
  <2>3. Matching(t, devs) = {told(1).udn}
    BY <1>6 DEF Matching, told
  <2> QED
    BY <2>2, <2>3, Zenon DEF r, E
<1>7. CASE t.kind = "uuid:"
  <2>1. \A i \in D : TargetsOf(r, devs, i) = IF t.name = devs[i].udn THEN {Uuid(devs[i].udn)} ELSE {}
    <3>1. /\ r.AdFlag = 0 /\ r.RequestType = "DEVICE" /\ r.UDN = t.name
          /\ r.UDN = NoValue => r.DeviceType = NoValue
      BY <1>0, <1>7, KindsAre
    <3>2. \A i \in D : devs[i].udn # NoValue /\ devs[i].type # NoValue
      BY ListsAre
    <3> QED
      BY <3>1, <3>2 DEF TargetsOf, DeviceTargets, ServiceTargets
  <2>2. E = {told(i).udn : i \in {j \in D : devs[j].udn = t.name}}
    BY <1>1, <1>2, <1>3, <2>1
  <2>3. Matching(t, devs) = {told(i).udn : i \in {j \in D : devs[j].udn = t.name}}
    BY <1>7 DEF Matching, told
  <2> QED
    BY <2>2, <2>3, Zenon DEF r, E
<1>8. CASE t.kind = "urn:device:"
  <2>1. \A i \in D : TargetsOf(r, devs, i)
                       = IF t.name = devs[i].type THEN {DeviceUrn(devs[i].type)} ELSE {}
    BY <1>0, <1>8, KindsAre DEF TargetsOf, DeviceTargets, ServiceTargets
  <2>2. E = {told(i).type : i \in {j \in D : devs[j].type = t.name}}
    BY <1>1, <1>2, <1>3, <2>1
  <2>3. Matching(t, devs) = {told(i).type : i \in {j \in D : devs[j].type = t.name}}
    BY <1>8 DEF Matching, told
  <2> QED
    BY <2>2, <2>3, Zenon DEF r, E
<1>9. CASE t.kind = "urn:service:"
  <2>1. \A i \in D : TargetsOf(r, devs, i)
                       = {ServiceUrn(s) : s \in {y \in Range(ServicesOf(devs[i])) : y = t.name}}
    BY <1>0, <1>9, KindsAre DEF TargetsOf, DeviceTargets, ServiceTargets
  <2>2. \A x : x \in E <=> \E i \in D : t.name \in Range(ServicesOf(devs[i])) /\ x = N(i, NoValue, t.name)
    <3>1. ASSUME NEW i \in D, NEW x
          PROVE  (\E c \in TargetsOf(r, devs, i) : x = NewsOf(2, devs[i].udn, c))
                   <=> t.name \in Range(ServicesOf(devs[i])) /\ x = N(i, NoValue, t.name)
      <4>1. \A c : c \in TargetsOf(r, devs, i)
                     <=> t.name \in Range(ServicesOf(devs[i])) /\ c = ServiceUrn(t.name)
        BY <2>1
      <4>2. NewsOf(2, devs[i].udn, ServiceUrn(t.name)) = N(i, NoValue, t.name)
        BY <1>2
      <4> QED
        BY <4>1, <4>2, Zenon
    <3>2. TAKE x
    <3>3. x \in E <=> \E i \in D : \E c \in TargetsOf(r, devs, i) : x = NewsOf(2, devs[i].udn, c)
      BY <1>1
    <3>4. \A i \in D : (\E c \in TargetsOf(r, devs, i) : x = NewsOf(2, devs[i].udn, c))
                       <=> t.name \in Range(ServicesOf(devs[i])) /\ x = N(i, NoValue, t.name)
      BY <3>1
    <3> QED
      BY <3>3, <3>4, Zenon
  <2>3. \A i : \A s : N(i, NoValue, s).ServiceType = s
    BY DEF N, Tell
  <2>4. Matching(t, devs) = {n \in UNION {told(i).services : i \in D} : n.ServiceType = t.name}
    BY <1>9 DEF Matching, told
  <2>5. \A x : x \in Matching(t, devs)
                 <=> \E i \in D : t.name \in Range(ServicesOf(devs[i])) /\ x = N(i, NoValue, t.name)
    BY <1>3, <2>3, <2>4
  <2>6. E = Matching(t, devs)
    BY <2>2, <2>5
  <2> QED
    BY <2>6, Zenon DEF r, E
<1> QED
  BY <1>5, <1>6, <1>7, <1>8, <1>9, KindsAre DEF Asked

LEMMA ToldAre ==
    ASSUME NoValue # "ssdp:discover",
           NEW devs, NEW mx \in Int, mx > 0, NEW t, Asked(t)
    PROVE  ToldCorrectly(devs, mx, t)
<1>1. ASSUME WellFormed(devs)
      PROVE  /\ Events(Range(AdvertiseAndReply(Advertise(1), devs))) = AllTold("ADVERTISEMENT_ALIVE", devs)
             /\ Events(Range(AdvertiseAndReply(Advertise(-1), devs))) = AllTold("ADVERTISEMENT_BYEBYE", devs)
             /\ Events(Range(Replies(CreateClientRequestPacket(mx, t), devs))) = Matching(t, devs)
  <2>1. ASSUME NEW f \in {1, -1}
        PROVE  Events(Range(AdvertiseAndReply(Advertise(f), devs)))
                 = AllTold(Typ(IF f = 1 THEN 1 ELSE 0), devs)
    <3>1. Advertise(f).AdFlag = f
      BY DEF Advertise
    <3>2. Everything(Advertise(f)) /\ Advertise(f).AdFlag \in {0, 1, -1}
          /\ NotfOf(Advertise(f)) = IF f = 1 THEN 1 ELSE 0
      BY <3>1 DEF Everything, NotfOf
    <3> QED
      BY <1>1, <3>2, AllLearnt
  <2>2. Replies(CreateClientRequestPacket(mx, t), devs) = AdvertiseAndReply(ReplyTo(t), devs)
    BY RepliesAre DEF Asked
  <2> QED
    BY <1>1, <2>1, <2>2, MatchLearnt, TypIs
<1> QED
  BY <1>1, Zenon DEF ToldCorrectly

-----------------------------------------------------------------------------
(* Search: the datagrams there are, and what is told of one. *)
Datagrams == Range(Replies(Request, desc)) \cup Junk
News(p) == Upnp_Discovery(AnalyzeCommand(p))

SearchTypes ==
    /\ desc \in Descs /\ Mx \in Int /\ now \in Nat /\ ElapsedTime \in Nat
    /\ buffer \in Seq(Datagrams) /\ intime \subseteq Datagrams
    /\ got \in Seq(Matching(target, desc) \cup {TIMEOUT}) /\ delayed \in BOOLEAN

(* Time: the thread, not delayed, waits with its buffer empty whenever a
   second goes by, and never beyond the deadline. *)
ClockInv ==
    /\ ElapsedTime <= now
    /\ ~delayed => now <= Deadline
    /\ pc = "overdue" => delayed

(* The callbacks: the timeout is the last. *)
EndInv ==
    /\ \A i \in DOMAIN got : got[i] = TIMEOUT <=> pc = "done" /\ i = Len(got) /\ ErrCode = 0
    /\ pc = "done" => now >= Deadline
    /\ pc = "done" /\ ErrCode = 0 => TIMEOUT \in Range(got)

(* A datagram that came in time has been told of, or will be before the
   deadline. *)
HeardInv ==
    ~delayed =>
        \A p \in intime : Reported(p) =>
            News(p) \in Range(got) \/ (p \in Range(buffer) /\ now < Deadline)

(* What a search of this description finds is what matches. *)
FindsMatching == Events(Range(Replies(Request, desc))) = Matching(target, desc)

SearchInv ==
    SearchTypes /\ ClockInv /\ EndInv /\ HeardInv /\ FindsMatching

LEMMA DeadlineIsNat ==
    ASSUME SearchAssumption, Mx \in Int PROVE TimeTillRead \in Nat /\ Deadline \in Nat \ 0..3
BY DEF SearchAssumption, TimeTillRead, Deadline

(* What is told of a datagram is news of the search. *)
LEMMA ReportedIsMatching ==
    ASSUME SearchAssumption, FindsMatching, NEW p \in Datagrams, Reported(p)
    PROVE  News(p) \in Matching(target, desc) /\ News(p) # TIMEOUT
<1>1. p \in Range(Replies(Request, desc))
  BY DEF Datagrams, SearchAssumption
<1>2. News(p) \in Events(Range(Replies(Request, desc)))
  BY <1>1 DEF Events, News
<1>3. News(p) # TIMEOUT
  <2>1. AnalyzeCommand(p).Cmd \in DOMAIN EventTypes
    BY DEF Reported
  <2>2. News(p).type = EventTypes[AnalyzeCommand(p).Cmd]
    BY DEF News, Upnp_Discovery
  <2>3. \A k \in DOMAIN EventTypes : EventTypes[k] # "SEARCH_TIMEOUT"
    BY DEF EventTypes
  <2>4. TIMEOUT.type = "SEARCH_TIMEOUT"
    BY DEF TIMEOUT
  <2> QED
    BY <2>1, <2>2, <2>3, <2>4
<1> QED
  BY <1>2, <1>3 DEF FindsMatching

LEMMA AppendedRange ==
    ASSUME NEW T, NEW s \in Seq(T), NEW e \in T
    PROVE  /\ Append(s, e) \in Seq(T)
           /\ Range(s) \subseteq Range(Append(s, e)) /\ e \in Range(Append(s, e))
           /\ Range(Append(s, e)) \subseteq Range(s) \cup {e}
<1>1. Append(s, e) \in Seq(T) /\ Len(Append(s, e)) = Len(s) + 1
      /\ Append(s, e)[Len(s) + 1] = e /\ \A i \in 1..Len(s) : Append(s, e)[i] = s[i]
  BY AppendProperties
<1>2. DOMAIN s = 1..Len(s) /\ DOMAIN Append(s, e) = 1..(Len(s) + 1) /\ Len(s) \in Nat
  BY <1>1
<1> QED
  BY <1>1, <1>2 DEF Range

(* The request asks for answers within a positive time. *)
MxInv == Mx \in Int /\ Mx > 0

LEMMA MxInductive ==
    ASSUME MxInv, [SearchNext]_searchVars PROVE MxInv'
<1>1. Mx' = Mx
  BY DEF SearchNext, searchVars, SendRequest, Loop, ReceiveDatagram, CallbackReturns,
         SelectTimesOut, Finish, Tick, Arrive
<1> QED
  BY <1>1 DEF MxInv

LEMMA MxStarts ==
    ASSUME SearchAssumption, SearchInit PROVE MxInv
  BY DEF SearchAssumption, SearchInit, UpnpSearchAsync, MxInv

LEMMA EachIsTold ==
    ASSUME SearchAssumption, MxInv, NEW t \in Targets, NEW devs PROVE ToldCorrectly(devs, Mx, t)
<1>1. Asked(t) /\ NoValue # "ssdp:discover"
  BY DEF SearchAssumption
<1>2. Mx \in Int /\ Mx > 0
  BY DEF MxInv
<1> QED
  BY <1>1, <1>2, ToldAre

(* Advertisements, byebye messages and the replies to a search tell of a
   well-formed description what it says, whatever its devices and services
   and however many (AdvertiseAndReply, ssdplib.c, ssdpparser.c). *)
THEOREM DescriptionsAreTold ==
    ASSUME SearchAssumption PROVE SearchSpec => []DescriptionTold
<1>1. SearchInit => MxInv
  BY SearchAssumption, MxStarts
<1>2. MxInv /\ [SearchNext]_searchVars => MxInv'
  BY MxInductive
<1>3. MxInv => DescriptionTold
  BY SearchAssumption, EachIsTold DEF DescriptionTold
<1> QED
  BY <1>1, <1>2, <1>3, PTL DEF SearchSpec

LEMMA SearchStarts ==
    ASSUME SearchAssumption, SearchInit PROVE SearchInv
<1>1. Mx \in Int
  BY DEF SearchInit, UpnpSearchAsync, SearchAssumption
<1>2. SearchTypes
  <2>1. desc \in Descs /\ now = 0 /\ ElapsedTime = 0 /\ intime = {} /\ delayed = FALSE
        /\ buffer = <<>> /\ got = <<>>
    BY DEF SearchInit
  <2> DEFINE T == Datagrams
             U == Matching(target, desc) \cup {TIMEOUT}
  <2>2. <<>> \in Seq(T) /\ <<>> \in Seq(U)
    <3> HIDE DEF T, U
    <3> QED
      OBVIOUS
  <2> QED
    BY <1>1, <2>1, <2>2 DEF SearchTypes
<1>3. ClockInv /\ EndInv /\ HeardInv
  <2>1. now = 0 /\ Deadline \in Nat
    BY <1>1, DeadlineIsNat DEF SearchInit
  <2> QED
    BY <2>1 DEF SearchInit, ClockInv, EndInv, HeardInv
<1>4. FindsMatching
  <2>1. desc \in Descs /\ target \in Targets /\ MxInv
    BY MxStarts DEF SearchInit
  <2>2. WellFormed(desc) /\ ToldCorrectly(desc, Mx, target)
    BY <2>1, EachIsTold DEF SearchAssumption
  <2> QED
    BY <2>2 DEF ToldCorrectly, FindsMatching, Request
<1> QED
  BY <1>2, <1>3, <1>4 DEF SearchInv

(* The search itself does not change. *)
LEMMA SearchStays ==
    ASSUME SearchInv, [SearchNext]_searchVars
    PROVE  /\ UNCHANGED <<desc, target, Mx>>
           /\ Deadline' = Deadline /\ Datagrams' = Datagrams
           /\ Matching(target, desc)' = Matching(target, desc) /\ FindsMatching'
<1>1. UNCHANGED <<desc, target, Mx>>
  BY DEF SearchNext, searchVars, SendRequest, Loop, ReceiveDatagram, CallbackReturns,
         SelectTimesOut, Finish, Tick, Arrive
<1>2. Request' = Request /\ TimeTillRead' = TimeTillRead
  BY <1>1 DEF Request, TimeTillRead
<1> QED
  BY <1>1, <1>2 DEF Deadline, Datagrams, FindsMatching, SearchInv

(* Tick *)
LEMMA SecondGoesBy ==
    ASSUME SearchAssumption, SearchInv, Tick PROVE SearchInv'
<1>1. /\ UNCHANGED <<desc, target, Mx, pc, ElapsedTime, ErrCode, buffer, intime, got>>
      /\ now' = now + 1 /\ pc \in {"loop", "select", "callback"}
      /\ delayed' = (delayed \/ pc # "select" \/ buffer # <<>> \/ now >= Deadline)
  BY DEF Tick
<1>2. /\ Deadline' = Deadline /\ Datagrams' = Datagrams
      /\ Matching(target, desc)' = Matching(target, desc) /\ FindsMatching'
  BY SearchStays DEF SearchNext
<1>3. now \in Nat /\ ElapsedTime \in Nat /\ Deadline \in Nat /\ delayed \in BOOLEAN
  BY DeadlineIsNat DEF SearchInv, SearchTypes
<1>4. SearchTypes'
  BY <1>1, <1>2, <1>3 DEF SearchInv, SearchTypes
<1>5. ~delayed' => ~delayed /\ buffer = <<>> /\ now < Deadline
  <2>1. now >= Deadline \/ now < Deadline
    BY <1>3
  <2>2. ~delayed' => ~delayed /\ buffer = <<>> /\ ~(now >= Deadline)
    BY <1>1, Zenon
  <2> QED
    BY <2>1, <2>2, Zenon
<1>6. ClockInv'
  BY <1>1, <1>2, <1>3, <1>5 DEF SearchInv, ClockInv
<1>7. EndInv'
  BY <1>1, <1>2, <1>3 DEF SearchInv, EndInv
<1>8. HeardInv'
  <2>1. \A p : News(p)' = News(p) /\ Reported(p)' = Reported(p)
    BY DEF News
  <2>2. buffer = <<>> => Range(buffer) = {}
    BY DEF Range
  <2> QED
    BY <1>1, <1>5, <2>1, <2>2 DEF SearchInv, HeardInv
<1> QED
  BY <1>2, <1>4, <1>6, <1>7, <1>8 DEF SearchInv

(* Arrive *)
LEMMA DatagramArrives ==
    ASSUME SearchAssumption, SearchInv, NEW p \in Datagrams, Arrive(p) PROVE SearchInv'
<1>1. /\ UNCHANGED <<desc, target, Mx, pc, now, ElapsedTime, ErrCode, got, delayed>>
      /\ buffer' = Append(buffer, p)
      /\ intime' = IF now < Deadline THEN intime \cup {p} ELSE intime
      /\ pc \in {"loop", "select", "callback"}
  BY DEF Arrive
<1>2. /\ Deadline' = Deadline /\ Datagrams' = Datagrams
      /\ Matching(target, desc)' = Matching(target, desc) /\ FindsMatching'
  BY SearchStays DEF SearchNext, Datagrams
<1>3. buffer \in Seq(Datagrams)
  BY DEF SearchInv, SearchTypes
<1> DEFINE T == Datagrams
<1>4. /\ Append(buffer, p) \in Seq(T)
      /\ Range(buffer) \subseteq Range(Append(buffer, p)) /\ p \in Range(Append(buffer, p))
  <2> buffer \in Seq(T) /\ p \in T
    BY <1>3
  <2> HIDE DEF T
  <2> QED
    BY AppendedRange
<1>5. SearchTypes'
  BY <1>1, <1>2, <1>4 DEF SearchInv, SearchTypes
<1>6. ClockInv' /\ EndInv'
  BY <1>1, <1>2 DEF SearchInv, ClockInv, EndInv
<1>7. HeardInv'
  <2>1. \A q : News(q)' = News(q) /\ Reported(q)' = Reported(q)
    BY DEF News
  <2> QED
    BY <1>1, <1>2, <1>4, <2>1 DEF SearchInv, HeardInv
<1> QED
  BY <1>2, <1>5, <1>6, <1>7 DEF SearchInv

(* SendRequest, Loop, CallbackReturns, SelectTimesOut *)
LEMMA SearchGoesOn ==
    ASSUME SearchAssumption, SearchInv,
           SendRequest \/ Loop \/ CallbackReturns \/ SelectTimesOut
    PROVE  SearchInv'
<1>1. /\ UNCHANGED <<desc, target, Mx, now, ErrCode, buffer, intime, got, delayed>>
      /\ ElapsedTime' \in {ElapsedTime, now}
      /\ pc # "done" /\ pc' # "done"
      /\ pc' = "overdue" => now > Deadline
  BY DEF SendRequest, Loop, CallbackReturns, SelectTimesOut
<1>2. /\ Deadline' = Deadline /\ Datagrams' = Datagrams
      /\ Matching(target, desc)' = Matching(target, desc) /\ FindsMatching'
  BY SearchStays DEF SearchNext
<1>3. now \in Nat /\ ElapsedTime \in Nat /\ Deadline \in Nat
  BY DeadlineIsNat DEF SearchInv, SearchTypes
<1>4. SearchTypes'
  BY <1>1, <1>2 DEF SearchInv, SearchTypes
<1>5. ClockInv' /\ EndInv'
  BY <1>1, <1>2, <1>3 DEF SearchInv, ClockInv, EndInv
<1>6. HeardInv'
  <2>1. \A q : News(q)' = News(q) /\ Reported(q)' = Reported(q)
    BY DEF News
  <2> QED
    BY <1>1, <1>2, <2>1 DEF SearchInv, HeardInv
<1> QED
  BY <1>2, <1>4, <1>5, <1>6 DEF SearchInv

(* Receive *)
LEMMA DatagramIsTold ==
    ASSUME SearchAssumption, SearchInv, ReceiveDatagram PROVE SearchInv'
<1> DEFINE p == Head(buffer)
<1>1. /\ UNCHANGED <<desc, target, Mx, now, ElapsedTime, intime, delayed>>
      /\ buffer # <<>> /\ buffer' = Tail(buffer)
      /\ pc = "select" /\ pc' \in {"callback", "loop"}
      /\ got' = IF Reported(p) THEN Append(got, News(p)) ELSE got
  BY DEF ReceiveDatagram, News
<1>2. /\ Deadline' = Deadline /\ Datagrams' = Datagrams
      /\ Matching(target, desc)' = Matching(target, desc) /\ FindsMatching'
  BY SearchStays DEF SearchNext
<1> DEFINE T == Datagrams
           U == Matching(target, desc) \cup {TIMEOUT}
<1>3. /\ p \in T /\ Tail(buffer) \in Seq(T)
      /\ Range(buffer) \subseteq Range(Tail(buffer)) \cup {p}
  <2> buffer \in Seq(T) /\ buffer # <<>>
    BY <1>1 DEF SearchInv, SearchTypes
  <2> HIDE DEF T
  <2>1. /\ p = buffer[1] /\ p \in T /\ Tail(buffer) \in Seq(T) /\ Len(Tail(buffer)) = Len(buffer) - 1
        /\ \A i \in 1..Len(Tail(buffer)) : Tail(buffer)[i] = buffer[i + 1]
    BY HeadTailProperties, EmptySeq
  <2>2. ASSUME NEW i \in 1..Len(buffer) PROVE buffer[i] \in Range(Tail(buffer)) \cup {p}
    <3>1. CASE i = 1
      BY <2>1, <3>1
    <3>2. CASE i # 1
      <4>1. i - 1 \in DOMAIN Tail(buffer) /\ Tail(buffer)[i - 1] = buffer[i]
        BY <2>1, <3>2
      <4> QED
        BY <4>1 DEF Range
    <3> QED
      BY <3>1, <3>2
  <2> QED
    BY <2>1, <2>2 DEF Range
<1>4. got \in Seq(U) /\ \A i \in DOMAIN got : got[i] # TIMEOUT
  BY <1>1 DEF SearchInv, SearchTypes, EndInv
<1>5. Reported(p) => News(p) \in U /\ News(p) # TIMEOUT
  BY <1>3, ReportedIsMatching DEF SearchInv
<1>6. /\ got' \in Seq(U) /\ Range(got) \subseteq Range(got')
      /\ Reported(p) => News(p) \in Range(got')
      /\ \A i \in DOMAIN got' : got'[i] # TIMEOUT
  <2>1. CASE Reported(p)
    <3>1. Append(got, News(p)) \in Seq(U) /\ Range(got) \subseteq Range(Append(got, News(p)))
          /\ News(p) \in Range(Append(got, News(p)))
          /\ Range(Append(got, News(p))) \subseteq Range(got) \cup {News(p)}
      <4>1. \A e \in U : /\ Append(got, e) \in Seq(U)
                         /\ Range(got) \subseteq Range(Append(got, e)) /\ e \in Range(Append(got, e))
                         /\ Range(Append(got, e)) \subseteq Range(got) \cup {e}
        <5> got \in Seq(U)
          BY <1>4
        <5> HIDE DEF U
        <5> QED
          BY AppendedRange
      <4> QED
        BY <1>5, <2>1, <4>1
    <3>2. TIMEOUT \notin Range(got) /\ TIMEOUT # News(p)
      BY <1>4, <1>5, <2>1 DEF Range
    <3>3. TIMEOUT \notin Range(got')
      BY <1>1, <2>1, <3>1, <3>2
    <3> QED
      BY <1>1, <2>1, <3>1, <3>3 DEF Range
  <2>2. CASE ~Reported(p)
    BY <1>1, <1>4, <2>2
  <2> QED
    BY <2>1, <2>2
<1> HIDE DEF p
<1>7. SearchTypes'
  BY <1>1, <1>2, <1>3, <1>6 DEF SearchInv, SearchTypes
<1>8. ClockInv' /\ EndInv'
  BY <1>1, <1>2, <1>6 DEF SearchInv, ClockInv, EndInv
<1>9. HeardInv'
  <2>1. \A q : News(q)' = News(q) /\ Reported(q)' = Reported(q)
    BY DEF News
  <2> QED
    BY <1>1, <1>2, <1>3, <1>6, <2>1 DEF SearchInv, HeardInv
<1> QED
  BY <1>2, <1>7, <1>8, <1>9 DEF SearchInv

(* Finish *)
LEMMA SearchEnds ==
    ASSUME SearchAssumption, SearchInv, Finish PROVE SearchInv'
<1>1. /\ UNCHANGED <<desc, target, Mx, now, ElapsedTime, ErrCode, buffer, intime, delayed>>
      /\ pc = "loop" /\ pc' = "done" /\ ElapsedTime >= Deadline
      /\ got' = IF ErrCode = 0 THEN Append(got, TIMEOUT) ELSE got
  BY DEF Finish
<1>2. /\ Deadline' = Deadline /\ Datagrams' = Datagrams
      /\ Matching(target, desc)' = Matching(target, desc) /\ FindsMatching'
  BY SearchStays DEF SearchNext
<1> DEFINE U == Matching(target, desc) \cup {TIMEOUT}
<1>3. got \in Seq(U) /\ \A i \in DOMAIN got : got[i] # TIMEOUT
  BY <1>1 DEF SearchInv, SearchTypes, EndInv
<1>4. now \in Nat /\ ElapsedTime \in Nat /\ Deadline \in Nat
  BY DeadlineIsNat DEF SearchInv, SearchTypes
<1>5. now >= Deadline
  BY <1>1, <1>4 DEF SearchInv, ClockInv
<1>6. /\ Append(got, TIMEOUT) \in Seq(U) /\ Len(Append(got, TIMEOUT)) = Len(got) + 1
      /\ Append(got, TIMEOUT)[Len(got) + 1] = TIMEOUT
      /\ \A i \in 1..Len(got) : Append(got, TIMEOUT)[i] = got[i]
      /\ Range(got) \subseteq Range(Append(got, TIMEOUT)) /\ TIMEOUT \in Range(Append(got, TIMEOUT))
  <2> got \in Seq(U) /\ TIMEOUT \in U
    BY <1>3
  <2> HIDE DEF U
  <2> QED
    BY AppendProperties, AppendedRange
<1>7. /\ got' \in Seq(U) /\ Range(got) \subseteq Range(got')
      /\ ErrCode = 0 => TIMEOUT \in Range(got')
  BY <1>1, <1>3, <1>6
<1>8. \A i \in DOMAIN got' : got'[i] = TIMEOUT <=> i = Len(got') /\ ErrCode = 0
  <2>1. DOMAIN got = 1..Len(got) /\ Len(got) \in Nat
    <3> got \in Seq(U)
      BY <1>3
    <3> HIDE DEF U
    <3> QED
      OBVIOUS
  <2>2. CASE ErrCode = 0
    <3>1. got' = Append(got, TIMEOUT) /\ DOMAIN got' = 1..(Len(got) + 1)
      <4> DEFINE a == Append(got, TIMEOUT)
      <4>1. a \in Seq(U) /\ Len(a) = Len(got) + 1
        BY <1>6
      <4>2. DOMAIN a = 1..Len(a)
        <5> HIDE DEF a, U
        <5> QED
          BY <4>1
      <4> QED
        BY <1>1, <2>2, <4>1, <4>2
    <3>2. ASSUME NEW i \in DOMAIN got' PROVE got'[i] = TIMEOUT <=> i = Len(got')
      <4>1. CASE i = Len(got) + 1
        BY <1>6, <3>1, <4>1
      <4>2. CASE i # Len(got) + 1
        <5>1. i \in 1..Len(got)
          BY <2>1, <3>1, <3>2, <4>2
        <5> QED
          BY <1>3, <1>6, <2>1, <3>1, <4>2, <5>1
      <4> QED
        BY <4>1, <4>2
    <3> QED
      BY <2>2, <3>2
  <2>3. CASE ErrCode # 0
    BY <1>1, <1>3, <2>3
  <2> QED
    BY <2>2, <2>3
<1>9. SearchTypes'
  BY <1>1, <1>2, <1>7 DEF SearchInv, SearchTypes
<1>10. ClockInv'
  BY <1>1, <1>2 DEF SearchInv, ClockInv
<1>11. EndInv'
  BY <1>1, <1>2, <1>5, <1>7, <1>8 DEF EndInv
<1>12. HeardInv'
  <2>1. \A q : News(q)' = News(q) /\ Reported(q)' = Reported(q)
    BY DEF News
  <2> QED
    BY <1>1, <1>2, <1>7, <2>1 DEF SearchInv, HeardInv
<1> QED
  BY <1>2, <1>9, <1>10, <1>11, <1>12 DEF SearchInv

LEMMA SearchInductive ==
    ASSUME SearchAssumption, SearchInv, [SearchNext]_searchVars PROVE SearchInv'
<1>1. CASE UNCHANGED searchVars
  <2>1. /\ UNCHANGED <<desc, target, Mx, pc, now, ElapsedTime, ErrCode, buffer, intime, got, delayed>>
        /\ Deadline' = Deadline /\ Datagrams' = Datagrams
        /\ Matching(target, desc)' = Matching(target, desc) /\ FindsMatching'
    BY <1>1, SearchStays DEF searchVars
  <2>2. SearchTypes' /\ ClockInv' /\ EndInv' /\ HeardInv'
    BY <2>1 DEF SearchInv, SearchTypes, ClockInv, EndInv, HeardInv, News
  <2> QED
    BY <2>1, <2>2 DEF SearchInv
<1>2. CASE SendRequest \/ Loop \/ CallbackReturns \/ SelectTimesOut
  BY <1>2, SearchGoesOn
<1>3. CASE ReceiveDatagram \/ Finish \/ Tick
  BY <1>3, DatagramIsTold, SearchEnds, SecondGoesBy
<1>4. CASE \E p \in Range(Replies(Request, desc)) \cup Junk : Arrive(p)
  BY <1>4, DatagramArrives DEF Datagrams
<1> QED
  BY <1>1, <1>2, <1>3, <1>4 DEF SearchNext

LEMMA SearchIsSound ==
    ASSUME SearchAssumption, SearchInv PROVE SearchSound
<1>1. \A i \in DOMAIN got : got[i] # TIMEOUT => got[i] \in Matching(target, desc)
  <2> DEFINE U == Matching(target, desc) \cup {TIMEOUT}
  <2>1. \A i \in DOMAIN got : got[i] \in U
    <3> got \in Seq(U)
      BY DEF SearchInv, SearchTypes
    <3> HIDE DEF U
    <3> QED
      OBVIOUS
  <2> QED
    BY <2>1
<1>2. pc = "done" /\ ~delayed => Events(intime) \subseteq Range(got)
  <2> SUFFICES ASSUME pc = "done", ~delayed PROVE Events(intime) \subseteq Range(got)
    OBVIOUS
  <2>1. ~(now < Deadline)
    BY DeadlineIsNat DEF SearchInv, SearchTypes, EndInv
  <2>2. \A p \in intime : Reported(p) => News(p) \in Range(got)
    BY <2>1 DEF SearchInv, HeardInv
  <2> QED
    BY <2>2 DEF Events, News
<1> QED
  BY <1>1, <1>2 DEF SearchSound, SearchInv, ClockInv, EndInv

(* A search tells the control point of every answer that came in time, of
   nothing that does not match and at last of the timeout, as far as its
   thread is not delayed (RequestHandler). *)
THEOREM SearchesAreSound ==
    ASSUME SearchAssumption PROVE SearchSpec => []SearchSound
<1>1. SearchInit => SearchInv
  BY SearchAssumption, SearchStarts
<1>2. SearchInv /\ [SearchNext]_searchVars => SearchInv'
  BY SearchAssumption, SearchInductive
<1>3. SearchInv => SearchSound
  BY SearchAssumption, SearchIsSound
<1> QED
  BY <1>1, <1>2, <1>3, PTL DEF SearchSpec

-----------------------------------------------------------------------------

(* The table of services, whose recursive definitions are reasoned about like
   those of Discovery.
   The table of the devices q, from the table e. *)
Folded(q, e) == FoldLeft(AddServices, e, q)

(* AddServices folded over the devices q, from the table e, as a function of the
   sets of places. *)
TablesStep(e, q, f, s) == IF s = {} THEN e ELSE AddServices(f[s \ {Max(s)}], q[Max(s)])
Tables(e, q, n, f) == f = [s \in SUBSET (1..n) |-> TablesStep(e, q, f, s)]

LEMMA TablesAt ==
    ASSUME NEW e, NEW q, NEW n \in Nat, NEW f, Tables(e, q, n, f)
    PROVE  \A s \in SUBSET (1..n) : f[s] = TablesStep(e, q, f, s)
  BY DEF Tables

LEMMA TablesExists ==
    ASSUME NEW e, NEW q, NEW n \in Nat
    PROVE  \E f : Tables(e, q, n, f)
<1> DEFINE Bad == {m \in Nat : ~ \E f : Tables(e, q, m, f)}
<1>1. SUFFICES ASSUME Bad # {} PROVE FALSE
  OBVIOUS
<1>2. PICK m \in Bad : \A k \in Bad : m <= k
  <2> HIDE DEF Bad
  <2>1. Bad \in SUBSET Nat
    BY DEF Bad
  <2> QED
    BY <1>1, <2>1, LeastElement
<1>3. m # 0
  <2> DEFINE f == [s \in SUBSET (1..0) |-> e]
  <2>1. f = [s \in SUBSET (1..0) |-> TablesStep(e, q, f, s)]
    BY DEF TablesStep
  <2>2. Tables(e, q, 0, f)
    BY <2>1, Zenon DEF Tables
  <2> QED
    BY <2>2
<1>4. m - 1 \in Nat /\ m - 1 \notin Bad /\ m \in Nat
  BY <1>2, <1>3
<1>5. PICK f : Tables(e, q, m - 1, f)
  BY <1>4
<1>6. \A s \in SUBSET (1..(m-1)) : f[s] = TablesStep(e, q, f, s)
  BY <1>4, <1>5, TablesAt
<1> DEFINE g == [s \in SUBSET (1..m) |-> IF m \in s THEN TablesStep(e, q, f, s) ELSE f[s]]
<1>7. ASSUME NEW s \in SUBSET (1..m) PROVE g[s] = TablesStep(e, q, g, s)
  <2>1. g[s] = TablesStep(e, q, f, s)
    BY <1>4, <1>6
  <2>2. CASE s = {}
    BY <2>1, <2>2 DEF TablesStep
  <2>3. CASE s # {}
    <3>1. Max(s) \in s /\ \A y \in s : y <= Max(s)
      BY <1>4, <2>3, GreatestElement
    <3>2. m \notin s \ {Max(s)} /\ s \ {Max(s)} \in SUBSET (1..m)
      <4> DEFINE x == Max(s)
      <4>1. x \in 1..m /\ \A y \in s : y <= x
        BY <3>1
      <4> HIDE DEF x
      <4>2. m \in s => x = m
        BY <4>1, <1>4
      <4> QED
        BY <4>2 DEF x
    <3>3. g[s \ {Max(s)}] = f[s \ {Max(s)}]
      BY <3>2
    <3> QED
      BY <2>1, <2>3, <3>3, Zenon DEF TablesStep
  <2> QED
    BY <2>2, <2>3
<1>8. Tables(e, q, m, g)
  <2> DEFINE h == [s \in SUBSET (1..m) |-> TablesStep(e, q, g, s)]
  <2>1. g = h
    <3> HIDE DEF h, g
    <3>1. \A s \in SUBSET (1..m) : g[s] = h[s]
      BY <1>7 DEF h
    <3>2. /\ g = [s \in SUBSET (1..m) |-> g[s]]
          /\ h = [s \in SUBSET (1..m) |-> h[s]]
      BY DEF g, h
    <3> QED
      BY <3>1, <3>2
  <2> QED
    BY <2>1, Zenon DEF Tables
<1> QED
  BY <1>2, <1>8

TablesFrom(e, q, n) ==
    LET f == CHOOSE f : Tables(e, q, n, f) IN [i \in 0..n |-> f[1..i]]

LEMMA TablesIs ==
    ASSUME NEW q, NEW n \in Nat, Numbered(q, n), NEW e
    PROVE  /\ TablesFrom(e, q, n)[0] = e
           /\ \A i \in 1..n : TablesFrom(e, q, n)[i] = AddServices(TablesFrom(e, q, n)[i-1], q[i])
           /\ Folded(q, e) = TablesFrom(e, q, n)[n]
<1> DEFINE f == CHOOSE f : Tables(e, q, n, f)
<1>d. DOMAIN q = 1..n
  BY DEF Numbered
<1>0. TablesFrom(e, q, n) = [i \in 0..n |-> f[1..i]]
  BY Zenon DEF TablesFrom
<1>1. Folded(q, e) = f[1..n]
  <2>1. Folded(q, e)
          = (CHOOSE g : g = [s \in SUBSET DOMAIN q |->
                IF s = {} THEN e ELSE AddServices(g[s \ {Max(s)}], q[Max(s)])])[DOMAIN q]
    BY Zenon DEF FoldLeft, MapThenFoldSet, Folded
  <2> QED
    BY <1>d, <2>1, Zenon DEF Tables, TablesStep
<1>2. Tables(e, q, n, f)
  BY TablesExists
<1> HIDE DEF f
<1>3. \A s \in SUBSET (1..n) : f[s] = TablesStep(e, q, f, s)
  BY <1>2, TablesAt
<1> DEFINE r == [i \in 0..n |-> f[1..i]]
<1>4. r[0] = e
  <2>1. 1..0 = {} /\ {} \in SUBSET (1..n)
    OBVIOUS
  <2>2. f[1..0] = e
    BY <2>1, <1>3, Zenon DEF TablesStep
  <2> QED
    BY <2>2
<1>5. ASSUME NEW i \in 1..n PROVE r[i] = AddServices(r[i-1], q[i])
  <2>1. 1..i \in SUBSET (1..n) /\ 1..i # {} /\ i \in Nat /\ i \in 1..i
    OBVIOUS
  <2>2. Max(1..i) = i
    <3>1. Max(1..i) \in 1..i /\ \A y \in 1..i : y <= Max(1..i)
      BY <2>1, GreatestElement
    <3>2. Max(1..i) <= i /\ i <= Max(1..i) /\ Max(1..i) \in Int
      BY <2>1, <3>1
    <3> QED
      BY <3>2, <2>1
  <2>3. (1..i) \ {i} = 1..(i-1)
    OBVIOUS
  <2>4. f[1..i] = AddServices(f[1..(i-1)], q[i])
    BY <1>3, <2>1, <2>2, <2>3, Zenon DEF TablesStep
  <2>5. r[i] = f[1..i] /\ r[i-1] = f[1..(i-1)]
    OBVIOUS
  <2> QED
    BY <2>4, <2>5, Zenon
<1>6. r[n] = f[1..n]
  OBVIOUS
<1> QED
  BY <1>0, <1>1, <1>4, <1>5, <1>6, Zenon

(* The nodes a device may offer. *)
OfferedNodes(dev) == IF dev.serviceList = NoList THEN {}
              ELSE {[dev.serviceList[j] EXCEPT !.UDN = dev.UDN] : j \in DOMAIN dev.serviceList}

LEMMA OffersAre ==
    ASSUME NEW d, Described(d), NEW i \in DOMAIN d
    PROVE  /\ getServiceList(d[i]) \in Seq(OfferedNodes(d[i]))
           /\ d[i].serviceList = NoList => getServiceList(d[i]) = <<>>
<1> DEFINE l == d[i].serviceList
           u == d[i].UDN
           S == OfferedNodes(d[i])
           ss == [j \in DOMAIN l |-> IF Admitted(u, l[j]) THEN <<[l[j] EXCEPT !.UDN = u]>> ELSE <<>>]
<1>1. CASE l = NoList
  <2>1. getServiceList(d[i]) = <<>>
    BY <1>1 DEF getServiceList
  <2> HIDE DEF S, l
  <2>2. <<>> \in Seq(S)
    OBVIOUS
  <2> QED
    BY <2>1, <2>2 DEF S
<1>2. CASE l # NoList
  <2>1. l \in Seq(Range(l))
    BY <1>2 DEF Described
  <2>2. DOMAIN l = 1..Len(l) /\ Len(l) \in Nat
    BY <2>1
  <2>3. \A j \in DOMAIN l : [l[j] EXCEPT !.UDN = u] \in S
    BY <1>2 DEF OfferedNodes
  <2>4. getServiceList(d[i]) = FlattenSeq(ss)
    BY <1>2, Zenon DEF getServiceList
  <2> HIDE DEF S, l, u
  <2>5. \A j \in DOMAIN l : ss[j] \in Seq(S)
    <3> TAKE j \in DOMAIN l
    <3>1. ss[j] = IF Admitted(u, l[j]) THEN <<[l[j] EXCEPT !.UDN = u]>> ELSE <<>>
      OBVIOUS
    <3>2. ASSUME NEW x \in S PROVE <<x>> \in Seq(S) /\ <<>> \in Seq(S)
      OBVIOUS
    <3>3. [l[j] EXCEPT !.UDN = u] \in S
      BY <2>3
    <3> QED
      BY <3>1, <3>2, <3>3, Zenon
  <2>6. ss \in Seq(Seq(S))
    <3>1. ss = [j \in 1..Len(l) |-> ss[j]]
      BY <2>2, Zenon
    <3> HIDE DEF ss
    <3> QED
      BY <2>2, <2>5, <3>1
  <2>7. FlattenSeq(ss) \in Seq(S)
    <3> HIDE DEF ss
    <3> QED
      BY <2>6, FlattenedRange
  <2> QED
    BY <1>2, <2>4, <2>7 DEF S, l
<1> QED
  BY <1>1, <1>2

(* The table after some devices: their services so far, and whether one of
   them had none. *)
TableOf(S, t, l, none) ==
    /\ t \in [list : Seq(S), end : Nat, next_end : Nat, corrupt : BOOLEAN]
    /\ t.corrupt => none
    /\ ~t.corrupt =>
          /\ t.list = l
          /\ l = <<>> => t.end = 0 /\ t.next_end = 0
          /\ l # <<>> => /\ t.end = Len(l) \/ (t.end = 0 /\ none)
                         /\ t.next_end \in {0, t.end}

LEMMA ServicesAreAdded ==
    ASSUME NEW S, NEW l \in Seq(S), NEW t, NEW none \in BOOLEAN, TableOf(S, t, l, none),
           NEW dev, getServiceList(dev) \in Seq(S),
           dev.serviceList = NoList => getServiceList(dev) = <<>>,
           NEW none2 \in BOOLEAN, none2 <=> none \/ getServiceList(dev) = <<>>
    PROVE  TableOf(S, AddServices(t, dev), l \o getServiceList(dev), none2)
<1> DEFINE o == getServiceList(dev)
           u == AddServices(t, dev)
<1>0. /\ t \in [list : Seq(S), end : Nat, next_end : Nat, corrupt : BOOLEAN]
      /\ o \in Seq(S) /\ (dev.serviceList = NoList => o = <<>>) /\ (none2 <=> none \/ o = <<>>)
      /\ Len(o) \in Nat /\ Len(l) \in Nat /\ (Len(o) = 0 <=> o = <<>>) /\ (Len(l) = 0 <=> l = <<>>)
      /\ l \o o \in Seq(S) /\ Len(l \o o) = Len(l) + Len(o)
  BY DEF TableOf
<1>e. ASSUME NEW before \in Nat, NEW old
      PROVE  EndPointer(dev, before, old) = IF dev.serviceList = NoList THEN old
                                            ELSE IF o = <<>> THEN 0 ELSE before + Len(o)
  BY Zenon DEF EndPointer
<1>n. \A q \in Seq(S) : q \o <<>> = q /\ <<>> \o q = q
  OBVIOUS
<1> HIDE DEF o
<1>1. CASE t.corrupt
  <2>1. u = t
    BY <1>1, Zenon DEF AddServices
  <2> QED
    BY <1>0, <1>1, <2>1 DEF TableOf, o
<1>2. CASE ~t.corrupt /\ t.list = <<>>
  <2>0. l = <<>> /\ t.end = 0 /\ t.next_end = 0
    BY <1>2 DEF TableOf
  <2>1. u = [t EXCEPT !.list = o, !.end = EndPointer(dev, 0, t.end)]
    BY <1>2, Zenon DEF AddServices, o
  <2>2. EndPointer(dev, 0, t.end) = Len(o)
    BY <1>0, <1>e, <2>0
  <2>3. /\ u.list = o /\ u.end = Len(o) /\ u.next_end = 0 /\ u.corrupt = FALSE
        /\ u \in [list : Seq(S), end : Nat, next_end : Nat, corrupt : BOOLEAN]
    BY <1>0, <1>2, <2>0, <2>1, <2>2
  <2>4. l \o o = o
    BY <1>0, <1>n, <2>0
  <2> HIDE DEF u
  <2> QED
    BY <1>0, <2>3, <2>4 DEF TableOf, o, u
<1>3. CASE ~t.corrupt /\ t.list # <<>> /\ t.end = 0
  <2>0. none
    BY <1>0, <1>3 DEF TableOf
  <2>1. u = [t EXCEPT !.corrupt = TRUE]
    BY <1>3, Zenon DEF AddServices
  <2>2. u.corrupt = TRUE /\ u \in [list : Seq(S), end : Nat, next_end : Nat, corrupt : BOOLEAN]
    BY <1>0, <2>1
  <2> HIDE DEF u
  <2> QED
    BY <1>0, <2>0, <2>2 DEF TableOf, o, u
<1>4. CASE ~t.corrupt /\ t.list # <<>> /\ t.end # 0
  <2> DEFINE next == EndPointer(dev, t.end, t.next_end)
  <2>0. l # <<>> /\ t.list = l /\ t.end = Len(l) /\ t.next_end \in {0, t.end}
    BY <1>4 DEF TableOf
  <2>1. u = [t EXCEPT !.list = SubSeq(t.list, 1, t.end) \o o, !.next_end = next, !.end = next]
    BY <1>4, Zenon DEF AddServices, o
  <2>2. SubSeq(t.list, 1, t.end) = l
    BY <1>0, <2>0
  <2>3. next = IF dev.serviceList = NoList THEN t.next_end
               ELSE IF o = <<>> THEN 0 ELSE Len(l) + Len(o)
    BY <1>0, <1>e, <2>0
  <2>4. next \in Nat /\ (o = <<>> => next \in {0, Len(l)}) /\ (o # <<>> => next = Len(l) + Len(o))
    BY <1>0, <2>0, <2>3
  <2> HIDE DEF next
  <2>5. /\ u.list = l \o o /\ u.end = next /\ u.next_end = next /\ u.corrupt = FALSE
        /\ u \in [list : Seq(S), end : Nat, next_end : Nat, corrupt : BOOLEAN]
    BY <1>0, <1>4, <2>1, <2>2, <2>4
  <2>6. l \o o # <<>>
    BY <1>0, <2>0
  <2> HIDE DEF u
  <2>7. u.end = Len(l \o o) \/ (u.end = 0 /\ none2)
    BY <1>0, <2>4, <2>5
  <2> QED
    BY <1>0, <2>5, <2>6, <2>7 DEF TableOf, o, u
<1> QED
  BY <1>0, <1>1, <1>2, <1>3, <1>4

LEMMA TableIs ==
    ASSUME NEW d, Described(d)
    PROVE  LET offers == [i \in DOMAIN d |-> getServiceList(d[i])]
               t == getServiceTable(d)
           IN  /\ t.corrupt => \E i \in DOMAIN offers : offers[i] = <<>>
               /\ ~t.corrupt => t.list = FlattenSeq(offers)
<1> DEFINE offers == [i \in DOMAIN d |-> getServiceList(d[i])]
           n == Len(d)
           T == TablesFrom(NoServices, d, n)
           S == UNION {OfferedNodes(d[i]) : i \in DOMAIN d}
           None(i) == \E j \in 1..i : offers[j] = <<>>
<1>1. n \in Nat /\ DOMAIN d = 1..n /\ n = Len(offers) /\ DOMAIN offers = 1..n
  BY DEF Described
<1>2. /\ T[0] = NoServices /\ \A i \in 1..n : T[i] = AddServices(T[i-1], d[i])
      /\ getServiceTable(d) = T[n]
  <2>1. Numbered(d, n)
    BY <1>1 DEF Numbered
  <2>2. Folded(d, NoServices) = getServiceTable(d)
    BY Zenon DEF Folded, getServiceTable
  <2>4. n \in Nat
    BY <1>1
  <2> HIDE DEF n
  <2>3. /\ T[0] = NoServices /\ \A i \in 1..n : T[i] = AddServices(T[i-1], d[i])
        /\ Folded(d, NoServices) = T[n]
    <3>1. TablesFrom(NoServices, d, n)[0] = NoServices
      BY <2>1, <2>4, TablesIs
    <3>2. ASSUME NEW i \in 1..n
          PROVE  TablesFrom(NoServices, d, n)[i] = AddServices(TablesFrom(NoServices, d, n)[i-1], d[i])
      BY <2>1, <2>4, TablesIs
    <3>3. Folded(d, NoServices) = TablesFrom(NoServices, d, n)[n]
      BY <2>1, <2>4, TablesIs
    <3> QED
      BY <3>1, <3>2, <3>3, Zenon
  <2> QED
    BY <2>2, <2>3, Zenon
<1>3. ASSUME NEW i \in 1..n
      PROVE  /\ offers[i] = getServiceList(d[i]) /\ getServiceList(d[i]) \in Seq(S)
             /\ d[i].serviceList = NoList => getServiceList(d[i]) = <<>>
  <2>1. offers[i] = getServiceList(d[i])
    BY <1>1
  <2>2. /\ getServiceList(d[i]) \in Seq(OfferedNodes(d[i]))
        /\ d[i].serviceList = NoList => getServiceList(d[i]) = <<>>
    BY <1>1, OffersAre
  <2> DEFINE o == getServiceList(d[i])
             A == OfferedNodes(d[i])
  <2>3. A \subseteq S
    BY <1>1
  <2> HIDE DEF o, A, S, n
  <2>4. o \in Seq(A)
    BY <2>2 DEF o, A
  <2>5. o \in Seq(S)
    BY <2>3, <2>4
  <2> QED
    BY <2>1, <2>2, <2>5 DEF o
<1>4. offers = [i \in 1..n |-> offers[i]] /\ Len(offers) \in Nat
  BY <1>1, Zenon
<1> HIDE DEF T, S, offers, n
<1>5. TableOf(S, T[0], <<>>, FALSE)
  <2>1. NoServices \in [list : Seq(S), end : Nat, next_end : Nat, corrupt : BOOLEAN]
    BY DEF NoServices
  <2>2. NoServices.corrupt = FALSE /\ NoServices.list = <<>> /\ NoServices.end = 0
        /\ NoServices.next_end = 0
    BY DEF NoServices
  <2> QED
    BY <1>2, <2>1, <2>2 DEF TableOf
<1>6. CASE n = 0
  <2>1. FlattenSeq(offers) = <<>>
    <3>1. offers = <<>>
      BY <1>1, <1>4, <1>6
    <3> QED
      BY <1>1, <1>6, <3>1 DEF FlattenSeq
  <2>2. getServiceTable(d) = NoServices
    BY <1>2, <1>6
  <2>3. NoServices.corrupt = FALSE /\ NoServices.list = <<>>
    BY DEF NoServices
  <2> QED
    BY <2>1, <2>2, <2>3 DEF offers
<1>7. CASE n # 0
  <2>1. PICK f : /\ FlattenSeq(offers) = f[n] /\ f[1] = offers[1]
                 /\ \A i \in 2..n : f[i] = f[i-1] \o offers[i]
    BY <1>1, <1>7, FlattenedIs
  <2> DEFINE L(i) == IF i = 0 THEN <<>> ELSE f[i]
             Good(i) == L(i) \in Seq(S) /\ TableOf(S, T[i], L(i), None(i))
             Bad == {i \in 0..n : ~Good(i)}
  <2>2. Bad = {}
    <3>1. SUFFICES ASSUME Bad # {} PROVE FALSE
      OBVIOUS
    <3>2. PICK m \in Bad : \A k \in Bad : m <= k
      <4> HIDE DEF Good
      <4>1. Bad \in SUBSET Nat
        BY <1>1
      <4> HIDE DEF Bad
      <4> QED
        BY <3>1, <4>1, LeastElement
    <3>3. m # 0
      <4>1. L(0) = <<>> /\ None(0) = FALSE /\ <<>> \in Seq(S)
        OBVIOUS
      <4>2. L(0) \in Seq(S) /\ TableOf(S, T[0], L(0), None(0))
        BY <1>5, <4>1, Zenon
      <4> QED
        BY <4>2
    <3> DEFINE k == m - 1
    <3>4. m \in 1..n /\ k \in 0..n /\ k \notin Bad /\ m \in Nat
      <4> HIDE DEF Good
      <4>1. m \in 0..n /\ \A i \in Bad : m <= i
        BY <3>2
      <4>2. m \in 1..n /\ k \in 0..n /\ ~(m <= k) /\ m \in Nat
        BY <1>1, <3>3, <4>1
      <4> QED
        BY <4>1, <4>2
    <3>5. L(k) \in Seq(S) /\ TableOf(S, T[k], L(k), None(k))
      BY <3>4
    <3>6. L(m) = L(k) \o offers[m]
      <4>1. CASE m = 1
        <5>1. offers[1] \in Seq(S)
          BY <1>3, <3>4, <4>1
        <5>2. \A q \in Seq(S) : <<>> \o q = q
          OBVIOUS
        <5> QED
          BY <2>1, <4>1, <5>1, <5>2
      <4>2. CASE m # 1
        <5>1. m \in 2..n /\ k # 0 /\ m # 0
          BY <1>1, <3>4, <4>2
        <5>2. L(m) = f[m] /\ L(k) = f[k]
          BY <5>1
        <5> HIDE DEF L, Bad, Good
        <5> QED
          BY <2>1, <5>1, <5>2
      <4> QED
        BY <4>1, <4>2
    <3>7. None(m) <=> None(k) \/ offers[m] = <<>>
      BY <3>4
    <3>8. T[m] = AddServices(T[k], d[m])
      BY <1>2, <3>4
    <3>9. /\ offers[m] = getServiceList(d[m]) /\ getServiceList(d[m]) \in Seq(S)
          /\ d[m].serviceList = NoList => getServiceList(d[m]) = <<>>
      BY <1>3, <3>4
    <3>10. ASSUME NEW l \in Seq(S), NEW t, NEW a \in BOOLEAN, TableOf(S, t, l, a), NEW b \in BOOLEAN,
                  b <=> a \/ getServiceList(d[m]) = <<>>
           PROVE  TableOf(S, AddServices(t, d[m]), l \o getServiceList(d[m]), b)
      BY <3>9, <3>10, ServicesAreAdded
    <3>11. None(m) \in BOOLEAN /\ None(k) \in BOOLEAN
      OBVIOUS
    <3>12. L(m) \in Seq(S)
      <4> DEFINE l == L(k)
      <4> HIDE DEF l
      <4>1. l \in Seq(S) /\ offers[m] \in Seq(S)
        BY <3>5, <3>9 DEF l
      <4>2. l \o offers[m] \in Seq(S)
        BY <4>1
      <4> QED
        BY <3>6, <4>2, Zenon DEF l
    <3> HIDE DEF L, None, k
    <3>13. TableOf(S, T[m], L(m), None(m))
      <4>1. TableOf(S, AddServices(T[k], d[m]), L(k) \o getServiceList(d[m]), None(m))
        BY <3>5, <3>7, <3>9, <3>10, <3>11
      <4> QED
        BY <3>6, <3>8, <3>9, <4>1, Zenon
    <3> QED
      BY <3>2, <3>12, <3>13
  <2>3. TableOf(S, T[n], f[n], None(n))
    <3>1. n \in 0..n
      BY <1>1
    <3>2. L(n) = f[n]
      BY <1>7
    <3> QED
      BY <2>2, <3>1, <3>2
  <2> HIDE DEF None
  <2>4. (T[n].corrupt => None(n)) /\ (~T[n].corrupt => T[n].list = f[n])
    BY <2>3 DEF TableOf
  <2> QED
    BY <1>1, <1>2, <2>1, <2>4 DEF None, offers
<1> QED
  BY <1>6, <1>7

LEMMA NothingOffered == FlattenSeq([i \in DOMAIN <<>> |-> getServiceList(<<>>[i])]) = <<>>
<1>1. [i \in DOMAIN <<>> |-> getServiceList(<<>>[i])] = <<>>
  OBVIOUS
<1>2. FlattenSeq(<<>>) = <<>>
  BY DEF FlattenSeq
<1> QED
  BY <1>1, <1>2, Zenon

LEMMA TableStarts ==
    ASSUME ControlInit PROVE TableComplete
<1>1. device = NoDevice
  BY DEF ControlInit
<1>2. device.corrupt = FALSE /\ device.list = <<>> /\ device.description = <<>>
  BY <1>1 DEF NoDevice
<1> QED
  BY <1>2, NothingOffered, Zenon DEF TableComplete

LEMMA TableStays ==
    ASSUME ControlAssumption, TableComplete, [ControlNext]_controlVars PROVE TableComplete'
<1>1. CASE device' = device
  BY <1>1 DEF TableComplete
<1>2. CASE device' = NoDevice
  <2>1. device'.corrupt = FALSE /\ device'.list = <<>> /\ device'.description = <<>>
    BY <1>2 DEF NoDevice
  <2>2. FlattenSeq([i \in DOMAIN <<>> |-> getServiceList(<<>>[i])]) = <<>>
    BY NothingOffered
  <2> QED
    BY <2>1, <2>2, Zenon DEF TableComplete
<1>3. ASSUME NEW d \in Descriptions, UpnpRegisterRootDevice(d)
      PROVE  TableComplete'
  <2>1. Described(d)
    BY DEF ControlAssumption
  <2>2. device' = [list |-> getServiceTable(d).list, serial |-> serial + 1,
                   description |-> d, corrupt |-> getServiceTable(d).corrupt]
    BY <1>3 DEF UpnpRegisterRootDevice
  <2>3. /\ device'.list = getServiceTable(d).list /\ device'.description = d
        /\ device'.corrupt = getServiceTable(d).corrupt
    BY <2>2
  <2>4. LET offers == [i \in DOMAIN d |-> getServiceList(d[i])]
            t == getServiceTable(d)
        IN  /\ t.corrupt => \E i \in DOMAIN offers : offers[i] = <<>>
            /\ ~t.corrupt => t.list = FlattenSeq(offers)
    BY <2>1, TableIs
  <2> QED
    BY <2>3, <2>4, Zenon DEF TableComplete
<1>4. device' = device \/ device' = NoDevice \/ \E d \in Descriptions : UpnpRegisterRootDevice(d)
  BY DEF ControlNext, controlVars, deviceVars, UpnpUnRegisterRootDevice, SoapSend, SendAsync,
         UpnpThreadDistribution, NothingReceived, SoapReturns, ClientMoves,
         ProcessSoapEventPacket, SoapEventCallback, DeviceMoves, NotFound, FoundService,
         GetVarNameFails, Fails
<1> QED
  BY <1>1, <1>2, <1>3, <1>4

(* The table of a registered device holds every admitted service of every
   device of its description, in their order, or breaks down on a device that
   offers none, however many devices and services there are
   (getAllServiceList). *)
THEOREM TablesAreComplete ==
    ASSUME ControlAssumption PROVE ControlSpec => []TableComplete
<1>1. ControlInit => TableComplete
  BY TableStarts
<1>2. TableComplete /\ [ControlNext]_controlVars => TableComplete'
  BY ControlAssumption, TableStays
<1> QED
  BY <1>1, <1>2, PTL DEF ControlSpec
=============================================================================
