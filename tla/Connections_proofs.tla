------------------------- MODULE Connections_proofs -------------------------
(* Proofs about Connections: typing, the pool of session ids, the registry. *)
EXTENDS Connections, TLAPS

Pools == [free : Seq(Ids), used : SUBSET Ids]

\* The stack, taken or pushed, keeps its type and the partition of the ids.
LEMMA ReleaseKeepsPartition ==
  ASSUME NEW p \in Pools, Partition(p), NEW i
  PROVE  ReleaseId(p, i) \in Pools /\ Partition(ReleaseId(p, i))
<1>1. CASE i \notin p.used
  BY <1>1 DEF ReleaseId
<1>2. CASE i \in p.used
  <2> DEFINE q == [free |-> Append(p.free, i), used |-> p.used \ {i}]
  <2>1. ReleaseId(p, i) = q
    BY <1>2 DEF ReleaseId
  <2>2. p.free \in Seq(Ids) /\ p.used \in SUBSET Ids /\ i \in Ids
    BY <1>2 DEF Pools
  <2>3. q \in Pools
    BY <2>2 DEF Pools
  <2>4. i \notin Range(p.free)
    BY <1>2 DEF Partition
  <2>5. /\ DOMAIN q.free = 1 .. Len(p.free) + 1
        /\ \A j \in 1 .. Len(p.free) : q.free[j] = p.free[j]
        /\ q.free[Len(p.free) + 1] = i
        /\ Len(p.free) \in Nat
        /\ DOMAIN p.free = 1 .. Len(p.free)
    BY <2>2
  <2>6. IsDuplicateFree(q.free)
    BY <2>4, <2>5 DEF IsDuplicateFree, Range, Partition
  <2>7. Range(q.free) = Range(p.free) \cup {i}
    BY <2>5 DEF Range
  <2>8. Partition(q)
    BY <2>4, <2>6, <2>7, <1>2 DEF Partition
  <2> QED
    BY <2>1, <2>3, <2>8
<1> QED
  BY <1>1, <1>2

\* Taking the top id of a stack that is not empty keeps both as well.
LEMMA TakeKeepsPartition ==
  ASSUME NEW p \in Pools, Partition(p), p.free # <<>>
  PROVE  TopId(p) \in Ids /\ TakeId(p) \in Pools /\ Partition(TakeId(p))
<1> DEFINE n == Len(p.free)
           s == SubSeq(p.free, 1, n - 1)
<1>1. p.free \in Seq(Ids) /\ p.used \in SUBSET Ids
  BY DEF Pools
<1>2. n \in Nat \ {0} /\ DOMAIN p.free = 1 .. n /\ p.free[n] \in Ids
  BY <1>1
<1>3. /\ s \in Seq(Ids) /\ DOMAIN s = 1 .. n - 1
      /\ \A j \in 1 .. n - 1 : s[j] = p.free[j]
  BY <1>1, <1>2
<1>4. TakeId(p) = [free |-> s, used |-> p.used \cup {p.free[n]}] /\ TopId(p) = p.free[n]
  BY DEF TakeId, TopId
<1>5. TakeId(p) \in Pools
  BY <1>1, <1>2, <1>3, <1>4 DEF Pools
<1>6. IsDuplicateFree(s)
  BY <1>2, <1>3 DEF IsDuplicateFree, Partition
<1>7. Range(p.free) = Range(s) \cup {p.free[n]}
  <2>1. ASSUME NEW x \in Range(p.free) PROVE x \in Range(s) \cup {p.free[n]}
    <3>1. PICK j \in 1 .. n : x = p.free[j]
      BY <1>2 DEF Range
    <3>2. CASE j = n
      BY <3>1, <3>2
    <3>3. CASE j # n
      <4>1. j \in DOMAIN s /\ x = s[j]
        BY <3>1, <3>3, <1>2, <1>3
      <4> QED
        BY <4>1 DEF Range
    <3> QED
      BY <3>2, <3>3
  <2>2. ASSUME NEW x \in Range(s) PROVE x \in Range(p.free)
    BY <1>2, <1>3 DEF Range
  <2> QED
    BY <2>1, <2>2, <1>2 DEF Range
<1>8. p.free[n] \notin Range(s)
  <2>1. SUFFICES ASSUME NEW j \in 1 .. n - 1, s[j] = p.free[n] PROVE FALSE
    BY <1>3 DEF Range
  <2>2. j \in 1 .. n /\ n \in 1 .. n /\ p.free[j] = p.free[n] /\ j # n
    BY <1>2, <1>3, <2>1
  <2> QED
    BY <1>2, <2>2 DEF Partition, IsDuplicateFree
<1> QED
  BY <1>2, <1>4, <1>5, <1>6, <1>7, <1>8 DEF Partition

-----------------------------------------------------------------------------
\* What closeSocket does to the parts of the state it changes.
LEMMA CloseTypes ==
  ASSUME TypeOK, Partition(pool), NEW c \in Conns
  PROVE  /\ ReleaseId(pool, id[c]) \in Pools /\ Partition(ReleaseId(pool, id[c]))
         /\ Closed(sock, c) \in [Conns -> SockStates]
         /\ DOMAIN MapAfterClose(c) \subseteq Ids \cup {0}
         /\ \A i \in DOMAIN MapAfterClose(c) : MapAfterClose(c)[i] \in Conns
         /\ OnlineAfterClose(c) \subseteq Conns
<1>1. ReleaseId(pool, id[c]) \in Pools /\ Partition(ReleaseId(pool, id[c]))
  BY ReleaseKeepsPartition DEF TypeOK, Pools
<1>2. Closed(sock, c) \in [Conns -> SockStates]
  BY DEF TypeOK, Closed, SockStates
<1>3. /\ DOMAIN MapAfterClose(c) \subseteq Ids \cup {0}
      /\ \A i \in DOMAIN MapAfterClose(c) : MapAfterClose(c)[i] \in Conns
  BY DEF TypeOK, MapAfterClose, MapWithout
<1>4. OnlineAfterClose(c) \subseteq Conns
  BY DEF TypeOK, OnlineAfterClose, OnlineWithout
<1> QED
  BY <1>1, <1>2, <1>3, <1>4

PoolInv == TypeOK /\ PoolPartition

\* The pool's invariant holds of the full stack...
LEMMA PoolInit == Init => PoolInv
<1> SUFFICES ASSUME Init PROVE PoolInv
  OBVIOUS
<1> DEFINE f == [i \in Ids |-> i]
<1>1. f \in Seq(Ids) /\ DOMAIN f = Ids /\ pool.free = f /\ pool.used = {}
  <2>1. MaxIds \in Nat
    BY MaxIdsAssumption
  <2>2. f \in Seq(Ids)
    BY <2>1 DEF Ids
  <2> QED
    BY <2>2 DEF Init
<1>2. PoolPartition
  BY <1>1 DEF PoolPartition, Partition, IsDuplicateFree, Range
<1>3. pool \in [free : Seq(Ids), used : SUBSET Ids]
  BY <1>1 DEF Init
<1>4. TypeOK
  BY <1>3 DEF Init, TypeOK, SockStates, Roles, Handlers
<1> QED
  BY <1>2, <1>4 DEF PoolInv

\* ... and every step of every handler keeps it.
LEMMA PoolStep == PoolInv /\ [Next]_vars => PoolInv'
<1> SUFFICES ASSUME PoolInv, [Next]_vars PROVE PoolInv'
  OBVIOUS
<1> USE DEF PoolInv
<1> USE DEF PoolPartition, SockStates, Roles, Handlers
<1>1. ASSUME NEW c \in Conns, NEW r \in Roles, Accept(c, r) PROVE PoolInv'
  <2>1. TopId(pool) \in Ids /\ TakeId(pool) \in Pools /\ Partition(TakeId(pool))
    BY <1>1, TakeKeepsPartition DEF Accept, TypeOK, Pools
  <2>2. /\ ReleaseId(TakeId(pool), TopId(pool)) \in Pools
        /\ Partition(ReleaseId(TakeId(pool), TopId(pool)))
    BY <2>1, ReleaseKeepsPartition
  <2>3. pool' \in Pools /\ Partition(pool')
    BY <1>1, <2>1, <2>2 DEF Accept
  <2>4. id' \in [Conns -> Ids \cup {0}] /\ role' \in [Conns -> Roles]
    BY <1>1, <2>1 DEF Accept, TypeOK
  <2>5. /\ sock' \in [Conns -> SockStates]
        /\ reads' \in [Conns -> Handlers]
        /\ writes' \in [Conns -> Handlers \ {"done"}]
    <3>1. CASE r # "refused"
      <4>1. /\ sock' = [sock EXCEPT ![c] = "open"]
            /\ reads' = [reads EXCEPT ![c] = "pending"]
            /\ \E w \in {"none", "pending"} : writes' = [writes EXCEPT ![c] = w]
        BY <1>1, <3>1 DEF Accept
      <4> QED
        BY <4>1 DEF TypeOK
    <3>2. CASE r = "refused"
      <4>1. /\ sock' = [sock EXCEPT ![c] = "closed"]
            /\ reads' = [reads EXCEPT ![c] = "none"]
            /\ \E w \in {"none", "error"} : writes' = [writes EXCEPT ![c] = w]
        BY <1>1, <3>2 DEF Accept
      <4> QED
        BY <4>1 DEF TypeOK
    <3> QED
      BY <3>1, <3>2
  <2>6. UNCHANGED <<account, byId, online, keys>>
    BY <1>1 DEF Accept
  <2> QED
    BY <2>3, <2>4, <2>5, <2>6 DEF TypeOK, Pools
<1>2. ASSUME NEW c \in Conns, AcceptExhausted(c) PROVE PoolInv'
  BY <1>2 DEF AcceptExhausted, TypeOK
<1>3. ASSUME NEW c \in Conns, Receive(c) PROVE PoolInv'
  BY <1>3 DEF Receive, TypeOK
<1>4. ASSUME NEW c \in Conns, Transmit(c) PROVE PoolInv'
  BY <1>4 DEF Transmit, TypeOK
<1>5. ASSUME NEW c \in Conns, Write(c) PROVE PoolInv'
  BY <1>5 DEF Write, TypeOK
<1>6. ASSUME NEW c \in Conns, WriteHandler(c) PROVE PoolInv'
  BY <1>6, CloseTypes DEF WriteHandler, CloseSocket, TypeOK, Pools, Aborted
<1>7. ASSUME NEW c \in Conns, ReadHandlerCloses(c) PROVE PoolInv'
  BY <1>7, CloseTypes DEF ReadHandlerCloses, CloseSocket, TypeOK, Pools, Aborted
<1>8. ASSUME NEW c \in Conns, ReadHandler(c) PROVE PoolInv'
  BY <1>8 DEF ReadHandler, TypeOK, Again
<1>9. ASSUME NEW c \in Conns, NEW d \in Conns, ReadHandlerKicks(c, d) PROVE PoolInv'
  <2>1. reads' \in [Conns -> Handlers] /\ writes' \in [Conns -> Handlers \ {"done"}]
    BY <1>9 DEF ReadHandlerKicks, TypeOK, Aborted, Again
  <2> QED
    BY <1>9, <2>1, CloseTypes DEF ReadHandlerKicks, CloseSocket, TypeOK, Pools
<1>10. ASSUME NEW c \in Conns, NEW a \in Accounts, AuthorizationRefused(c, a)
       PROVE PoolInv'
  BY <1>10 DEF AuthorizationRefused, TypeOK, Again
<1>11. ASSUME NEW c \in Conns, NEW a \in Accounts, Authorize(c, a) PROVE PoolInv'
  <2>1. CASE OnlineAs(a) = {}
    <3>1. DOMAIN byId' \subseteq Ids \cup {0} /\ \A i \in DOMAIN byId' : byId'[i] \in Conns
      BY <1>11, <2>1 DEF Authorize, TypeOK, MapWith
    <3> QED
      BY <1>11, <2>1, <3>1 DEF Authorize, TypeOK, Again
  <2>2. CASE OnlineAs(a) # {}
    <3>1. PICK d \in OnlineAs(a) :
            /\ pool' = ReleaseId(pool, id[d])
            /\ sock' = Closed(sock, d)
            /\ byId' = MapWith(MapAfterClose(d), c)
            /\ online' = OnlineAfterClose(d) \cup {c}
            /\ reads' = [e \in Conns |->
                           IF e = c THEN Again(sock', c)
                           ELSE IF e = d THEN Aborted(reads[e]) ELSE reads[e]]
            /\ writes' = [writes EXCEPT ![d] = Aborted(@)]
      BY <1>11, <2>2 DEF Authorize
    <3>2. d \in Conns
      BY DEF OnlineAs, TypeOK
    <3>3. /\ pool' \in Pools /\ Partition(pool')
          /\ sock' \in [Conns -> SockStates]
          /\ online' \subseteq Conns
          /\ DOMAIN MapAfterClose(d) \subseteq Ids \cup {0}
          /\ \A i \in DOMAIN MapAfterClose(d) : MapAfterClose(d)[i] \in Conns
      BY <3>1, <3>2, CloseTypes
    <3>4. DOMAIN byId' \subseteq Ids \cup {0} /\ \A i \in DOMAIN byId' : byId'[i] \in Conns
      BY <3>1, <3>3 DEF MapWith, TypeOK
    <3>5. reads' \in [Conns -> Handlers] /\ writes' \in [Conns -> Handlers \ {"done"}]
      BY <3>1, <3>2 DEF TypeOK, Again, Aborted
    <3> QED
      BY <1>11, <3>3, <3>4, <3>5 DEF Authorize, TypeOK, Pools
  <2> QED
    BY <2>1, <2>2
<1>12. ASSUME NEW c \in Conns, NEW a \in Accounts, DisconnectIfOnline(c, a)
       PROVE PoolInv'
  BY <1>12 DEF DisconnectIfOnline, OnlineAs, MapWithout, OnlineWithout, TypeOK, Again
<1>13. ASSUME NEW c \in Conns, Destroy(c) PROVE PoolInv'
  BY <1>13, ReleaseKeepsPartition DEF Destroy, TypeOK, Pools
<1>14. ASSUME NEW a \in Accounts, IssueKey(a) PROVE PoolInv'
  BY <1>14 DEF IssueKey, TypeOK
<1>15. CASE UNCHANGED vars
  BY <1>15 DEF vars, TypeOK
<1> QED
  BY <1>1, <1>2, <1>3, <1>4, <1>5, <1>6, <1>7, <1>8, <1>9, <1>10, <1>11, <1>12,
     <1>13, <1>14, <1>15 DEF Next, Handler

\* Every behaviour of the connections is well typed.
THEOREM TypeCorrect == Spec => []TypeOK
<1>1. Init => PoolInv
  BY PoolInit
<1>2. PoolInv /\ [Next]_vars => PoolInv'
  BY PoolStep
<1>3. PoolInv => TypeOK
  BY DEF PoolInv
<1> QED
  BY <1>1, <1>2, <1>3, PTL DEF Spec

\* The pool of session ids never hands an id to the stack twice and never
\* loses one, for every number of sessions and ids and however often the
\* sessions are closed.
THEOREM PoolCorrect == Spec => []PoolPartition
<1>1. Init => PoolInv
  BY PoolInit
<1>2. PoolInv /\ [Next]_vars => PoolInv'
  BY PoolStep
<1>3. PoolInv => PoolPartition
  BY DEF PoolInv
<1> QED
  BY <1>1, <1>2, <1>3, PTL DEF Spec

-----------------------------------------------------------------------------
\* RegistryCoherent is inductive together with: the slot of an object that
\* does not exist runs no handler and is not registered.
UnusedIsIdle ==
  \A c \in Conns :
    sock[c] = "unused" => reads[c] = "none" /\ writes[c] = "none" /\ c \notin online

RegistryInv == TypeOK /\ RegistryCoherent /\ UnusedIsIdle

\* closeSocket leaves a coherent registry, without the player it closed.
LEMMA CloseKeepsRegistry ==
  ASSUME TypeOK, RegistryCoherent, NEW c \in Conns
  PROVE  /\ \A i \in DOMAIN MapAfterClose(c) :
              /\ MapAfterClose(c)[i] = byId[i]
              /\ id[byId[i]] = i
              /\ byId[i] \in OnlineAfterClose(c)
         /\ \A e \in OnlineAfterClose(c) :
              e \in online /\ id[e] \in DOMAIN MapAfterClose(c)
         /\ sock[c] = "open" => c \notin OnlineAfterClose(c)
<1> USE DEF TypeOK, RegistryCoherent
<1>1. CASE ~Removes(c)
  BY <1>1 DEF MapAfterClose, OnlineAfterClose, Removes
<1>2. CASE Removes(c)
  <2>1. /\ DOMAIN MapAfterClose(c) = DOMAIN byId \ {id[c]}
        /\ \A i \in DOMAIN MapAfterClose(c) : MapAfterClose(c)[i] = byId[i]
    BY <1>2 DEF MapAfterClose, MapWithout
  <2>2. CASE id[c] \in DOMAIN byId
    <3>1. OnlineAfterClose(c) = {e \in online : id[e] # id[c]}
      BY <1>2, <2>2 DEF OnlineAfterClose, OnlineWithout
    <3> QED
      BY <2>1, <3>1
  <2>3. CASE id[c] \notin DOMAIN byId
    <3>1. OnlineAfterClose(c) = online
      BY <1>2, <2>3 DEF OnlineAfterClose, OnlineWithout
    <3> QED
      BY <2>1, <2>3, <3>1
  <2> QED
    BY <2>2, <2>3
<1> QED
  BY <1>1, <1>2

\* A step that only closes d keeps the invariant, whoever runs it.
LEMMA CloseKeepsRegistryInv ==
  ASSUME RegistryInv, TypeOK', NEW d \in Conns, CloseSocket(d), UNCHANGED <<role, id>>,
         \A e \in Conns : sock[e] = "unused" => reads'[e] = "none" /\ writes'[e] = "none"
  PROVE  RegistryInv'
<1>1. \A e \in Conns : sock'[e] = "unused" => sock[e] = "unused"
  BY DEF RegistryInv, TypeOK, CloseSocket, Closed
<1>2. byId' = MapAfterClose(d) /\ online' = OnlineAfterClose(d)
  BY DEF CloseSocket
<1>3. RegistryCoherent'
  BY <1>2, CloseKeepsRegistry DEF RegistryInv, RegistryCoherent
<1>4. UnusedIsIdle'
  BY <1>1, <1>2, CloseKeepsRegistry DEF RegistryInv, UnusedIsIdle
<1> QED
  BY <1>3, <1>4 DEF RegistryInv

\* Every step keeps the registry coherent, and unused objects idle.
LEMMA RegistryStep == RegistryInv /\ TypeOK' /\ [Next]_vars => RegistryInv'
<1> SUFFICES ASSUME RegistryInv, TypeOK', [Next]_vars PROVE RegistryInv'
  OBVIOUS
<1> USE DEF RegistryInv
<1>1. ASSUME NEW c \in Conns, NEW r \in Roles, Accept(c, r) PROVE RegistryInv'
  <2>1. c \notin online /\ \A i \in DOMAIN byId : byId[i] # c
    BY <1>1 DEF Accept, UnusedIsIdle, RegistryCoherent
  <2>2. \A e \in Conns \ {c} : id'[e] = id[e] /\ role'[e] = role[e]
    BY <1>1 DEF Accept, TypeOK
  <2>3. byId' = byId /\ online' = online
    BY <1>1 DEF Accept
  <2>4. RegistryCoherent'
    BY <2>1, <2>2, <2>3 DEF RegistryCoherent, TypeOK
  <2>5. /\ sock'[c] # "unused"
        /\ \A e \in Conns \ {c} :
             sock'[e] = sock[e] /\ reads'[e] = reads[e] /\ writes'[e] = writes[e]
    BY <1>1 DEF Accept, TypeOK
  <2>6. UnusedIsIdle'
    BY <2>3, <2>5 DEF UnusedIsIdle
  <2> QED
    BY <2>4, <2>6
<1>2. ASSUME NEW c \in Conns, AcceptExhausted(c) PROVE RegistryInv'
  BY <1>2 DEF AcceptExhausted, RegistryCoherent, UnusedIsIdle, TypeOK
<1>3. ASSUME NEW c \in Conns, Receive(c) PROVE RegistryInv'
  BY <1>3 DEF Receive, RegistryCoherent, UnusedIsIdle, TypeOK
<1>4. ASSUME NEW c \in Conns, Transmit(c) PROVE RegistryInv'
  BY <1>4 DEF Transmit, RegistryCoherent, UnusedIsIdle, TypeOK
<1>5. ASSUME NEW c \in Conns, Write(c) PROVE RegistryInv'
  BY <1>5 DEF Write, RegistryCoherent, UnusedIsIdle, TypeOK
<1>6. ASSUME NEW c \in Conns, WriteHandler(c) PROVE RegistryInv'
  <2>1. \A e \in Conns : sock[e] = "unused" => reads'[e] = "none" /\ writes'[e] = "none"
    BY <1>6 DEF WriteHandler, UnusedIsIdle, TypeOK, Aborted
  <2> QED
    BY <1>6, <2>1, CloseKeepsRegistryInv DEF WriteHandler
<1>7. ASSUME NEW c \in Conns, ReadHandlerCloses(c) PROVE RegistryInv'
  <2>1. \A e \in Conns : sock[e] = "unused" => reads'[e] = "none" /\ writes'[e] = "none"
    BY <1>7 DEF ReadHandlerCloses, UnusedIsIdle, TypeOK, Aborted
  <2> QED
    BY <1>7, <2>1, CloseKeepsRegistryInv DEF ReadHandlerCloses
<1>8. ASSUME NEW c \in Conns, ReadHandler(c) PROVE RegistryInv'
  BY <1>8 DEF ReadHandler, RegistryCoherent, UnusedIsIdle, TypeOK
<1>9. ASSUME NEW c \in Conns, NEW d \in Conns, ReadHandlerKicks(c, d) PROVE RegistryInv'
  <2>1. \A e \in Conns : sock[e] = "unused" => reads'[e] = "none" /\ writes'[e] = "none"
    <3>1. TAKE e \in Conns
    <3>2. HAVE sock[e] = "unused"
    <3>3. e # c /\ reads[e] = "none" /\ writes[e] = "none"
      BY <1>9, <3>2 DEF ReadHandlerKicks, UnusedIsIdle
    <3>4. reads'[e] = "none"
      BY <1>9, <3>3 DEF ReadHandlerKicks, Aborted
    <3>5. writes'[e] = "none"
      BY <1>9, <3>3 DEF ReadHandlerKicks, Aborted, TypeOK
    <3> QED
      BY <3>4, <3>5
  <2> QED
    BY <1>9, <2>1, CloseKeepsRegistryInv DEF ReadHandlerKicks
<1>10. ASSUME NEW c \in Conns, NEW a \in Accounts, AuthorizationRefused(c, a)
       PROVE RegistryInv'
  BY <1>10 DEF AuthorizationRefused, RegistryCoherent, UnusedIsIdle, TypeOK
<1>11. ASSUME NEW c \in Conns, NEW a \in Accounts, Authorize(c, a) PROVE RegistryInv'
  <2>1. /\ reads[c] = "done" /\ role[c] = "player" /\ sock[c] # "unused"
        /\ UNCHANGED <<role, id>>
    BY <1>11 DEF Authorize, UnusedIsIdle
  <2>2. CASE OnlineAs(a) = {}
    <3>1. /\ byId' = MapWith(byId, c) /\ online' = online \cup {c}
          /\ reads' = [reads EXCEPT ![c] = Again(sock, c)]
          /\ UNCHANGED <<sock, writes>>
      BY <1>11, <2>2 DEF Authorize
    <3>2. RegistryCoherent'
      BY <2>1, <3>1 DEF RegistryCoherent, MapWith, TypeOK
    <3>3. UnusedIsIdle'
      BY <2>1, <3>1 DEF UnusedIsIdle, TypeOK
    <3> QED
      BY <3>2, <3>3
  <2>3. ASSUME NEW d \in OnlineAs(a),
               sock' = Closed(sock, d),
               byId' = MapWith(MapAfterClose(d), c),
               online' = OnlineAfterClose(d) \cup {c},
               reads' = [e \in Conns |->
                           IF e = c THEN Again(sock', c)
                           ELSE IF e = d THEN Aborted(reads[e]) ELSE reads[e]],
               writes' = [writes EXCEPT ![d] = Aborted(@)]
        PROVE  RegistryInv'
    <3>1. d \in Conns /\ d \in online
      BY DEF OnlineAs, TypeOK
    <3>2. /\ \A i \in DOMAIN MapAfterClose(d) :
               /\ MapAfterClose(d)[i] = byId[i]
               /\ id[byId[i]] = i
               /\ byId[i] \in OnlineAfterClose(d)
          /\ \A e \in OnlineAfterClose(d) :
               e \in online /\ id[e] \in DOMAIN MapAfterClose(d)
      BY <3>1, CloseKeepsRegistry
    <3>3. /\ DOMAIN byId' = DOMAIN MapAfterClose(d) \cup {id[c]}
          /\ \A i \in DOMAIN MapAfterClose(d) : byId'[i] = byId[i]
          /\ id[c] \notin DOMAIN MapAfterClose(d) => byId'[id[c]] = c
      BY <2>3, <3>2 DEF MapWith
    <3>4. \A i \in DOMAIN byId' : id[byId'[i]] = i /\ byId'[i] \in online'
      BY <2>3, <3>2, <3>3
    <3>5. \A e \in online' : id[e] \in DOMAIN byId' /\ role[e] = "player"
      BY <2>1, <2>3, <3>2, <3>3 DEF RegistryCoherent
    <3>6. \A e \in Conns : sock'[e] = "unused" => sock[e] = "unused"
      BY <2>3 DEF Closed, TypeOK
    <3>7. \A e \in Conns : sock[e] = "unused" =>
             e # c /\ e # d /\ reads'[e] = reads[e] /\ writes'[e] = writes[e]
      BY <2>1, <2>3, <3>1 DEF TypeOK, UnusedIsIdle
    <3>8. UnusedIsIdle'
      BY <2>3, <3>2, <3>6, <3>7 DEF UnusedIsIdle
    <3> QED
      BY <2>1, <3>4, <3>5, <3>8 DEF RegistryCoherent
  <2> QED
    BY <1>11, <2>2, <2>3 DEF Authorize
<1>12. ASSUME NEW c \in Conns, NEW a \in Accounts, DisconnectIfOnline(c, a)
       PROVE RegistryInv'
  <2>1. PICK d \in OnlineAs(a) :
          /\ byId' = MapWithout(id[d])
          /\ online' = OnlineWithout(id[d])
          /\ writes' = [writes EXCEPT ![d] =
               IF sock[d] = "open" /\ @ = "none" THEN "pending" ELSE @]
    BY <1>12 DEF DisconnectIfOnline
  <2>2. /\ UNCHANGED <<sock, role, id>>
        /\ reads' = [reads EXCEPT ![c] = Again(sock, c)]
        /\ reads[c] = "done"
    BY <1>12 DEF DisconnectIfOnline
  <2>3. d \in online /\ d \in Conns /\ id[d] \in DOMAIN byId
    BY DEF OnlineAs, TypeOK, RegistryCoherent
  <2>4. /\ DOMAIN byId' = DOMAIN byId \ {id[d]}
        /\ \A i \in DOMAIN byId' : byId'[i] = byId[i]
        /\ online' = {e \in online : id[e] # id[d]}
    BY <2>1, <2>3 DEF MapWithout, OnlineWithout
  <2>5. RegistryCoherent'
    BY <2>2, <2>4 DEF RegistryCoherent
  <2>6. UnusedIsIdle'
    BY <2>1, <2>2, <2>3, <2>4 DEF UnusedIsIdle, TypeOK
  <2> QED
    BY <2>5, <2>6
<1>13. ASSUME NEW c \in Conns, Destroy(c) PROVE RegistryInv'
  <2>1. c \notin online /\ \A i \in DOMAIN byId : byId[i] # c
    BY <1>13 DEF Destroy, Registered
  <2>2. /\ byId' = byId /\ online' = online /\ reads' = reads /\ writes' = writes
        /\ reads[c] = "none" /\ writes[c] = "none"
        /\ \A e \in Conns \ {c} :
             id'[e] = id[e] /\ role'[e] = role[e] /\ sock'[e] = sock[e]
    BY <1>13 DEF Destroy, TypeOK
  <2>3. RegistryCoherent'
    BY <2>1, <2>2 DEF RegistryCoherent, TypeOK
  <2>4. UnusedIsIdle'
    BY <2>1, <2>2 DEF UnusedIsIdle
  <2> QED
    BY <2>3, <2>4
<1>14. ASSUME NEW a \in Accounts, IssueKey(a) PROVE RegistryInv'
  BY <1>14 DEF IssueKey, RegistryCoherent, UnusedIsIdle
<1>15. CASE UNCHANGED vars
  BY <1>15 DEF vars, RegistryCoherent, UnusedIsIdle
<1> QED
  BY <1>1, <1>2, <1>3, <1>4, <1>5, <1>6, <1>7, <1>8, <1>9, <1>10, <1>11, <1>12,
     <1>13, <1>14, <1>15 DEF Next, Handler

\* The map and the vector of the registry agree in every reachable state.
THEOREM RegistryCorrect == Spec => []RegistryCoherent
<1>1. Init => PoolInv /\ RegistryInv
  <2>1. Init => RegistryCoherent /\ UnusedIsIdle
    BY DEF Init, RegistryCoherent, UnusedIsIdle
  <2> QED
    BY <2>1, PoolInit DEF PoolInv, RegistryInv
<1>2. PoolInv /\ RegistryInv /\ [Next]_vars => (PoolInv /\ RegistryInv)'
  BY PoolStep, RegistryStep DEF PoolInv
<1>3. RegistryInv => RegistryCoherent
  BY DEF RegistryInv
<1> QED
  BY <1>1, <1>2, <1>3, PTL DEF Spec

\* A close leaves no trace of the player in the registry.
THEOREM CloseDeregistersCorrect == Spec => CloseDeregisters
<1> DEFINE Goodbye == \A c \in Conns :
             sock[c] = "open" /\ sock'[c] = "closed" /\ keys' = keys
               => ~Registered(c)'
<1>1. Init => PoolInv /\ RegistryInv
  <2>1. Init => RegistryCoherent /\ UnusedIsIdle
    BY DEF Init, RegistryCoherent, UnusedIsIdle
  <2> QED
    BY <2>1, PoolInit DEF PoolInv, RegistryInv
<1>2. PoolInv /\ RegistryInv /\ [Next]_vars => (PoolInv /\ RegistryInv)'
  BY PoolStep, RegistryStep DEF PoolInv
<1>3. PoolInv /\ RegistryInv /\ [Next]_vars => [Goodbye]_vars
  <2> SUFFICES ASSUME PoolInv, RegistryInv, [Next]_vars, NEW c \in Conns,
                      sock[c] = "open", sock'[c] = "closed", keys' = keys
               PROVE  ~Registered(c)'
    OBVIOUS
  <2>1. RegistryInv'
    BY PoolStep, RegistryStep DEF PoolInv
  <2>2. PICK d \in Conns : CloseSocket(d)
    <3> USE DEF RegistryInv, TypeOK
    <3>1. ASSUME NEW e \in Conns, NEW r \in Roles, Accept(e, r) PROVE FALSE
      BY <3>1 DEF Accept
    <3>2. ASSUME NEW e \in Conns, AcceptExhausted(e) PROVE FALSE
      BY <3>2 DEF AcceptExhausted
    <3>3. ASSUME NEW e \in Conns, Destroy(e) PROVE FALSE
      BY <3>3 DEF Destroy
    <3>4. ASSUME NEW e \in Conns, Receive(e) \/ Transmit(e) \/ Write(e) PROVE FALSE
      BY <3>4 DEF Receive, Transmit, Write
    <3>5. ASSUME NEW e \in Conns, ReadHandler(e) PROVE FALSE
      BY <3>5 DEF ReadHandler
    <3>6. ASSUME NEW e \in Conns, NEW a \in Accounts,
                 AuthorizationRefused(e, a) \/ Authorize(e, a) \/ DisconnectIfOnline(e, a)
          PROVE FALSE
      BY <3>6 DEF AuthorizationRefused, Authorize, DisconnectIfOnline
    <3>7. ASSUME NEW a \in Accounts, IssueKey(a) PROVE FALSE
      BY <3>7 DEF IssueKey
    <3>8. CASE UNCHANGED vars
      BY <3>8 DEF vars
    <3> QED
      BY <3>1, <3>2, <3>3, <3>4, <3>5, <3>6, <3>7, <3>8
         DEF Next, Handler, WriteHandler, ReadHandlerCloses, ReadHandlerKicks
  <2>3. d = c
    BY <2>2 DEF CloseSocket, Closed, RegistryInv, TypeOK
  <2>4. c \notin online'
    BY <2>2, <2>3, CloseKeepsRegistry DEF CloseSocket, RegistryInv
  <2> QED
    BY <2>1, <2>4 DEF RegistryInv, RegistryCoherent, Registered
<1> QED
  BY <1>1, <1>2, <1>3, PTL DEF Spec, CloseDeregisters
=============================================================================
