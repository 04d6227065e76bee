-------------------------- MODULE SharedCacheProofs -------------------------
(***************************************************************************)
(* Hits, misses, ages and flags of the cache, proved for any requests,     *)
(* urls, failures and restarts: whose results a hit has and what a miss    *)
(* says in both builds; how old a hit is, and that the cache implements    *)
(* ExpiringCache, in the in-memory build.                                  *)
(***************************************************************************)
EXTENDS SharedCacheRefinement, TLAPS, WellFoundedInduction

\* v is a call of cache_results that was called for k.
Belongs(k, v) == v \in Values /\ k \in brought[v]

RightTable(table) ==
    /\ table \in [Keys -> Entry]
    /\ \A k \in Keys : table[k].left > 0 => Belongs(k, table[k].value)

RightCommands(cmds) ==
    /\ cmds \in Seq(Command)
    /\ \A i \in DOMAIN cmds : Belongs(cmds[i].key, cmds[i].value)

ReadSteps == {"read_memory", "read_redis", "read_memory_again", "populate_memory"}
WriteSteps == {"write_redis", "write_memory"}

RightCall(r) ==
    /\ RightCommands(commands[r])
    /\ at[r] \in ReadSteps => keys[r][1] \in Keys
    /\ at[r] = "populate_memory" => Belongs(keys[r][1], value[r])
    /\ at[r] \in WriteSteps =>
         keys[r] \in Seq(Keys) /\ \A i \in DOMAIN keys[r] : Belongs(keys[r][i], value[r])

Shapes ==
    /\ build \in Builds
    /\ DOMAIN at = Requests /\ DOMAIN keys = Requests /\ DOMAIN value = Requests
    /\ DOMAIN commands = Requests
    /\ written \in 0 .. MaxWrites
    /\ brought \in [Values -> SUBSET Keys]
    /\ \A v \in Values : v > written => brought[v] = {}

CacheInvariant ==
    /\ Shapes
    /\ RightTable(redis) /\ RightTable(memory)
    /\ RightCommands(pipeline)
    /\ \A r \in Requests : RightCall(r)
    /\ HitsWereCached

-----------------------------------------------------------------------------
(* Replies, tables and pipelines.                                          *)

LEMMA NoHit ==
    ASSUME NEW r, \/ reply' = NoReply \/ reply' = Answered(r, "miss") \/ reply' = Answered(r, "ok")
                  \/ \E bools : reply' = Flags(r, bools)
    PROVE  HitsWereCached'
<1>1. \A kind : Answered(r, kind).kind = kind /\ DOMAIN Answered(r, kind) = DOMAIN NoReply
    BY DEF NoReply, Answered
<1>2. \A bools : Flags(r, bools).kind = "flags"
    BY DEF NoReply, Answered, Flags
<1>3. NoReply.kind = "none"
    BY DEF NoReply
<1>4. CASE reply' = NoReply
    BY <1>3, <1>4 DEF HitsWereCached
<1>5. CASE reply' \in {Answered(r, "miss"), Answered(r, "ok")}
    BY <1>1, <1>5 DEF HitsWereCached
<1>6. CASE \E bools : reply' = Flags(r, bools)
    BY <1>2, <1>6 DEF HitsWereCached
<1> QED
    BY <1>4, <1>5, <1>6

LEMMA RightHit ==
    ASSUME NEW r, NEW v, reply' = Hit(r, v), Belongs(keys[r][1], v), brought' = brought
    PROVE  HitsWereCached'
<1>1. Hit(r, v).keys = keys[r] /\ Hit(r, v).value = v
    BY DEF NoReply, Answered, Hit
<1> QED
    BY <1>1 DEF HitsWereCached, Belongs

\* The element of a sequence is of its type.
LEMMA ElementType ==
    ASSUME NEW T, NEW s \in Seq(T), NEW i \in DOMAIN s
    PROVE  s[i] \in T
OBVIOUS

LEMMA ListType ==
    ASSUME Shapes, NEW ks \in KeyLists[build]
    PROVE  ks \in Seq(Keys)
BY KeyListsAssumption DEF Shapes

LEMMA CommandType ==
    ASSUME NEW cmds, RightCommands(cmds), NEW i \in DOMAIN cmds
    PROVE  cmds[i].key \in Keys /\ cmds[i].value \in Values
<1>1. cmds[i] \in Command
    BY ElementType DEF RightCommands
<1> QED
    BY <1>1 DEF Command

LEMMA FreshType ==
    ASSUME NEW v \in Values
    PROVE  Fresh(v) \in Entry /\ Fresh(v).left > 0 /\ Fresh(v).value = v
<1>1. v \in 0 .. MaxWrites
    BY BoundAssumption DEF Values
<1> QED
    BY <1>1, TTLAssumption DEF Fresh, Entry

LEMMA AbsentType == Absent \in Entry /\ ~(Absent.left > 0)
BY TTLAssumption, BoundAssumption DEF Absent, Entry

\* A second leaves what belongs to a key with it.
LEMMA OlderIsRight ==
    ASSUME NEW table, RightTable(table)
    PROVE  RightTable(Older(table))
<1>1. ASSUME NEW k \in Keys
      PROVE  /\ Older(table)[k] \in Entry
             /\ Older(table)[k].left > 0 => Belongs(k, Older(table)[k].value)
    <2>1. table[k] \in Entry
        BY DEF RightTable
    <2>2. CASE table[k].left <= 1
        BY <2>2, AbsentType DEF Older
    <2>3. CASE ~(table[k].left <= 1)
        <3>1. Older(table)[k] = [table[k] EXCEPT !.left = table[k].left - 1]
            BY <2>3 DEF Older
        <3>2. /\ table[k].left \in 0 .. TTL /\ table[k].left > 1
              /\ table[k].left - 1 \in 0 .. TTL
            BY <2>1, <2>3, TTLAssumption DEF Entry
        <3>3. Older(table)[k] \in Entry /\ Older(table)[k].value = table[k].value
            BY <2>1, <3>1, <3>2 DEF Entry
        <3> QED
            BY <3>2, <3>3 DEF RightTable
    <2> QED
        BY <2>2, <2>3
<1>2. Older(table) = [k \in Keys |-> Older(table)[k]]
    BY DEF Older
<1> QED
    BY <1>1, <1>2 DEF RightTable

LEMMA SmallestNat ==
    ASSUME NEW S \in SUBSET Nat, S # {}
    PROVE  \E i \in S : \A j \in S : i <= j
<1> DEFINE Less == OpToRel(<, Nat)
<1>1. IsWellFoundedOn(Less, Nat)
    BY NatLessThanWellFounded
<1>2. \A i, j \in Nat : i < j => <<i, j>> \in Less
    BY DEF OpToRel
<1> HIDE DEF Less
<1>3. PICK i \in S : \A j \in S : ~(<<j, i>> \in Less)
    BY <1>1, WFMin
<1>4. \A j \in S : i \in Nat /\ j \in Nat /\ ~(j < i)
    BY <1>2, <1>3
<1> QED
    BY <1>4

\* The first SET for a key that is not live has a value of that key.
LEMMA AfterSetsIsRight ==
    ASSUME RightTable(redis), NEW cmds, RightCommands(cmds)
    PROVE  RightTable(AfterSets(cmds))
<1>1. ASSUME NEW k \in Keys
      PROVE  /\ AfterSets(cmds)[k] \in Entry
             /\ AfterSets(cmds)[k].left > 0 => Belongs(k, AfterSets(cmds)[k].value)
    <2>1. CASE Live(redis, k) \/ Sets(cmds, k) = {}
        BY <2>1 DEF AfterSets, RightTable
    <2>2. CASE ~(Live(redis, k) \/ Sets(cmds, k) = {})
        <3>1. AfterSets(cmds)[k] = Fresh(FirstSet(cmds, k))
            BY <2>2 DEF AfterSets
        <3>2. \E i \in Sets(cmds, k) : \A j \in Sets(cmds, k) : i <= j
            <4>1. cmds \in Seq(Command)
                BY DEF RightCommands
            <4>2. Sets(cmds, k) \in SUBSET (1 .. Len(cmds)) /\ Len(cmds) \in Nat
                BY <4>1 DEF Sets
            <4> QED
                BY <2>2, <4>2, SmallestNat
        <3>3. PICK i \in Sets(cmds, k) : FirstSet(cmds, k) = cmds[i].value
            BY <3>2 DEF FirstSet
        <3>4. i \in DOMAIN cmds /\ cmds[i].key = k
            BY <3>3 DEF Sets
        <3>5. FirstSet(cmds, k) \in Values /\ Belongs(k, FirstSet(cmds, k))
            BY <3>3, <3>4, CommandType DEF RightCommands
        <3> QED
            BY <3>1, <3>5, FreshType
    <2> QED
        BY <2>1, <2>2
<1>2. AfterSets(cmds) = [k \in Keys |-> AfterSets(cmds)[k]]
    BY DEF AfterSets
<1> QED
    BY <1>1, <1>2 DEF RightTable

-----------------------------------------------------------------------------
(* Steps of a call.                                                        *)

\* The calls of all other requests stay as they are.
Others(r) ==
    /\ DOMAIN at' = Requests /\ DOMAIN keys' = Requests /\ DOMAIN value' = Requests
    /\ DOMAIN commands' = Requests
    /\ \A s \in Requests \ {r} :
         at'[s] = at[s] /\ keys'[s] = keys[s] /\ value'[s] = value[s] /\ commands'[s] = commands[s]

LEMMA EmptyCommands == RightCommands(<<>>)
BY DEF RightCommands

LEMMA ReturnKeeps ==
    ASSUME Shapes, NEW r \in Requests, NEW answer, Return(r, answer), brought' = brought
    PROVE  Others(r) /\ RightCall(r)' /\ reply' = answer
<1>1. at'[r] = "idle" /\ commands'[r] = <<>> /\ Others(r) /\ reply' = answer
    BY DEF Return, Shapes, Others
<1>2. RightCommands(commands[r])'
    BY <1>1 DEF RightCommands
<1> QED
    BY <1>1, <1>2 DEF RightCall, ReadSteps, WriteSteps

LEMMA GoKeeps ==
    ASSUME Shapes, NEW r \in Requests, NEW to, Go(r, to)
    PROVE  /\ Others(r) /\ reply' = NoReply /\ at'[r] = to
           /\ keys' = keys /\ value' = value /\ commands' = commands
BY DEF Go, Silent, Shapes, Others

\* What is right of a step that leaves the history of writes alone.
LEMMA CallKeeps ==
    ASSUME CacheInvariant, NEW r \in Requests, Others(r),
           build' = build, brought' = brought, written' = written,
           RightTable(redis'), RightTable(memory'), RightCommands(pipeline'),
           RightCall(r)', HitsWereCached'
    PROVE  CacheInvariant'
<1>1. Shapes'
    BY DEF CacheInvariant, Shapes, Others
<1>2. RightTable(redis)' /\ RightTable(memory)' /\ RightCommands(pipeline)'
    BY DEF RightTable, RightCommands, Belongs
<1>3. ASSUME NEW s \in Requests
      PROVE  RightCall(s)'
    <2>1. CASE s = r
        BY <2>1
    <2>2. CASE s # r
        <3>1. /\ at'[s] = at[s] /\ keys'[s] = keys[s] /\ value'[s] = value[s]
              /\ commands'[s] = commands[s]
            BY <2>2 DEF Others
        <3>2. RightCall(s)
            BY DEF CacheInvariant
        <3> QED
            BY <3>1, <3>2 DEF RightCall, RightCommands, Belongs
    <2> QED
        BY <2>1, <2>2
<1> QED
    BY <1>1, <1>2, <1>3 DEF CacheInvariant

LEMMA ReadMemoryKeeps ==
    ASSUME CacheInvariant, NEW r \in Requests, ReadMemory(r)
    PROVE  CacheInvariant'
<1> DEFINE k == keys[r][1]
<1>1. /\ Shapes /\ RightCall(r) /\ RightTable(memory) /\ RightTable(redis)
      /\ RightCommands(pipeline) /\ k \in Keys
      /\ redis' = redis /\ memory' = memory /\ pipeline' = pipeline
      /\ build' = build /\ brought' = brought /\ written' = written
    BY DEF CacheInvariant, ReadMemory, servers, history, RightCall, ReadSteps
<1>2. CASE Live(memory, k)
    <2>1. Return(r, Hit(r, memory[k].value))
        BY <1>2 DEF ReadMemory
    <2>2. Others(r) /\ RightCall(r)' /\ reply' = Hit(r, memory[k].value)
        BY <1>1, <2>1, ReturnKeeps
    <2>3. Belongs(k, memory[k].value)
        BY <1>1, <1>2 DEF Live, RightTable
    <2>4. HitsWereCached'
        BY <1>1, <2>2, <2>3, RightHit
    <2> QED
        BY <1>1, <2>2, <2>4, CallKeeps
<1>3. CASE ~Live(memory, k) /\ RedisBuild /\ at[r] = "read_memory"
    <2>1. Go(r, "read_redis")
        BY <1>3 DEF ReadMemory
    <2>2. /\ Others(r) /\ reply' = NoReply /\ at'[r] = "read_redis"
          /\ keys' = keys /\ commands' = commands
        BY <1>1, <2>1, GoKeeps
    <2>3. RightCall(r)'
        BY <1>1, <2>2 DEF RightCall, RightCommands, Belongs, ReadSteps, WriteSteps
    <2>4. HitsWereCached'
        BY <2>2, NoHit
    <2> QED
        BY <1>1, <2>2, <2>3, <2>4, CallKeeps
<1>4. CASE ~Live(memory, k) /\ ~(RedisBuild /\ at[r] = "read_memory")
    <2>1. Return(r, Answered(r, "miss"))
        BY <1>4 DEF ReadMemory
    <2>2. Others(r) /\ RightCall(r)' /\ reply' = Answered(r, "miss")
        BY <1>1, <2>1, ReturnKeeps
    <2>3. HitsWereCached'
        BY <2>2, NoHit
    <2> QED
        BY <1>1, <2>2, <2>3, CallKeeps
<1> QED
    BY <1>2, <1>3, <1>4

LEMMA ReadRedisKeeps ==
    ASSUME CacheInvariant, NEW r \in Requests, ReadRedis(r)
    PROVE  CacheInvariant'
<1> DEFINE k == keys[r][1]
<1>1. /\ Shapes /\ RightCall(r) /\ RightTable(memory) /\ RightTable(redis)
      /\ RightCommands(pipeline) /\ k \in Keys
      /\ redis' = redis /\ memory' = memory /\ pipeline' = pipeline
      /\ build' = build /\ brought' = brought /\ written' = written
    BY DEF CacheInvariant, ReadRedis, servers, history, RightCall, ReadSteps
<1>2. CASE redis_up /\ Live(redis, k)
    <2>1. Belongs(k, redis[k].value)
        BY <1>1, <1>2 DEF Live, RightTable
    <2>2. /\ at' = [at EXCEPT ![r] = "populate_memory"]
          /\ value' = [value EXCEPT ![r] = redis[k].value]
          /\ keys' = keys /\ commands' = commands /\ reply' = NoReply
        BY <1>2 DEF ReadRedis, Silent
    <2>3. Others(r) /\ at'[r] = "populate_memory" /\ value'[r] = redis[k].value
        BY <1>1, <2>2 DEF Others, Shapes
    <2>4. RightCall(r)'
        BY <1>1, <2>1, <2>2, <2>3 DEF RightCall, RightCommands, Belongs, ReadSteps, WriteSteps
    <2>5. HitsWereCached'
        BY <2>2, NoHit
    <2> QED
        BY <1>1, <2>3, <2>4, <2>5, CallKeeps
<1>3. CASE ~(redis_up /\ Live(redis, k))
    <2>1. Go(r, "read_memory_again")
        BY <1>3 DEF ReadRedis
    <2>2. /\ Others(r) /\ reply' = NoReply /\ at'[r] = "read_memory_again"
          /\ keys' = keys /\ commands' = commands
        BY <1>1, <2>1, GoKeeps
    <2>3. RightCall(r)'
        BY <1>1, <2>2 DEF RightCall, RightCommands, Belongs, ReadSteps, WriteSteps
    <2>4. HitsWereCached'
        BY <2>2, NoHit
    <2> QED
        BY <1>1, <2>2, <2>3, <2>4, CallKeeps
<1> QED
    BY <1>2, <1>3

LEMMA PopulateMemoryKeeps ==
    ASSUME CacheInvariant, NEW r \in Requests, PopulateMemory(r)
    PROVE  CacheInvariant'
<1> DEFINE k == keys[r][1]
<1>1. /\ Shapes /\ RightCall(r) /\ RightTable(memory) /\ RightTable(redis)
      /\ RightCommands(pipeline) /\ k \in Keys /\ Belongs(k, value[r])
      /\ redis' = redis /\ pipeline' = pipeline
      /\ build' = build /\ brought' = brought /\ written' = written
    BY DEF CacheInvariant, PopulateMemory, history, RightCall, ReadSteps
<1>2. memory' = [memory EXCEPT ![k] = Fresh(value[r])] /\ Return(r, Hit(r, value[r]))
    BY DEF PopulateMemory
<1>3. RightTable(memory')
    <2>1. value[r] \in Values
        BY <1>1 DEF Belongs
    <2> QED
        BY <1>1, <1>2, <2>1, FreshType DEF RightTable
<1>4. Others(r) /\ RightCall(r)' /\ reply' = Hit(r, value[r])
    BY <1>1, <1>2, ReturnKeeps
<1>5. HitsWereCached'
    BY <1>1, <1>4, RightHit
<1> QED
    BY <1>1, <1>3, <1>4, <1>5, CallKeeps

LEMMA ExistsKeeps ==
    ASSUME CacheInvariant, NEW r \in Requests, ExistsRedis(r) \/ ExistsMemory(r)
    PROVE  CacheInvariant'
<1>1. /\ Shapes /\ RightCall(r) /\ RightTable(memory) /\ RightTable(redis)
      /\ RightCommands(pipeline) /\ RightCommands(commands[r])
      /\ memory' = memory /\ pipeline' = pipeline
      /\ build' = build /\ brought' = brought /\ written' = written
    BY DEF CacheInvariant, ExistsRedis, ExistsMemory, servers, history, RightCall
<1>2. RightTable(redis')
    <2>1. redis' = redis \/ redis' = AfterSets(commands[r])
        BY DEF ExistsRedis, ExistsMemory, servers
    <2> QED
        BY <1>1, <2>1, AfterSetsIsRight
<1>3. CASE Go(r, "exists_memory")
    <2>1. /\ Others(r) /\ reply' = NoReply /\ at'[r] = "exists_memory"
          /\ keys' = keys /\ commands' = commands
        BY <1>1, <1>3, GoKeeps
    <2>2. RightCall(r)'
        BY <1>1, <2>1 DEF RightCall, RightCommands, Belongs, ReadSteps, WriteSteps
    <2>3. HitsWereCached'
        BY <2>1, NoHit
    <2> QED
        BY <1>1, <1>2, <2>1, <2>2, <2>3, CallKeeps
<1>4. CASE ~Go(r, "exists_memory")
    <2>1. PICK bools : Return(r, Flags(r, bools))
        BY <1>4 DEF ExistsRedis, ExistsMemory
    <2>2. Others(r) /\ RightCall(r)' /\ reply' = Flags(r, bools)
        BY <1>1, <2>1, ReturnKeeps
    <2>3. HitsWereCached'
        BY <2>2, NoHit
    <2> QED
        BY <1>1, <1>2, <2>2, <2>3, CallKeeps
<1> QED
    BY <1>3, <1>4

LEMMA CallStarts ==
    ASSUME Shapes, NEW r \in Requests, NEW first, NEW ks, NEW v, NEW cmds, NEW stored,
           Call(r, first, ks, v, cmds, stored)
    PROVE  /\ Others(r) /\ reply' = NoReply
           /\ at'[r] = first /\ keys'[r] = ks /\ value'[r] = v /\ commands'[r] = cmds
BY DEF Call, Silent, Shapes, Others

LEMMA CloneIsRight ==
    ASSUME CacheInvariant
    PROVE  RightCommands(Clone)
BY EmptyCommands DEF CacheInvariant, Clone

LEMMA BeginReadKeeps ==
    ASSUME CacheInvariant, NEW r \in Requests, BeginRead(r)
    PROVE  CacheInvariant'
<1>1. /\ Shapes /\ redis' = redis /\ memory' = memory /\ pipeline' = pipeline
      /\ build' = build /\ brought' = brought /\ written' = written
      /\ RightTable(redis) /\ RightTable(memory) /\ RightCommands(pipeline)
    BY DEF CacheInvariant, BeginRead, servers, history
<1>2. PICK k \in Keys : Call(r, "read_memory", <<k>>, 0, <<>>, {v \in Values : age[k][v] >= 0})
    BY DEF BeginRead
<1>3. /\ Others(r) /\ reply' = NoReply
      /\ at'[r] = "read_memory" /\ keys'[r] = <<k>> /\ commands'[r] = <<>>
    BY <1>1, <1>2, CallStarts
<1>4. RightCommands(<<>>)'
    BY DEF RightCommands
<1>5. RightCall(r)'
    <2>1. keys'[r][1] = k /\ k \in Keys
        BY <1>2, <1>3
    <2> QED
        BY <1>3, <1>4, <2>1 DEF RightCall, WriteSteps
<1>6. HitsWereCached'
    BY <1>3, NoHit
<1> QED
    BY <1>1, <1>3, <1>5, <1>6, CallKeeps

LEMMA BeginExistsKeeps ==
    ASSUME CacheInvariant, NEW r \in Requests, BeginExists(r)
    PROVE  CacheInvariant'
<1>1. /\ Shapes /\ redis' = redis /\ memory' = memory /\ pipeline' = pipeline
      /\ build' = build /\ brought' = brought /\ written' = written
      /\ RightTable(redis) /\ RightTable(memory) /\ RightCommands(pipeline)
    BY DEF CacheInvariant, BeginExists, servers, history
<1>2. PICK ks \in KeyLists[build] : Call(r, RedisOr("exists_redis", "exists_memory"), ks, 0, Clone, {})
    BY DEF BeginExists
<1>3. /\ Others(r) /\ reply' = NoReply
      /\ at'[r] = RedisOr("exists_redis", "exists_memory") /\ commands'[r] = Clone
    BY <1>1, <1>2, CallStarts
<1>4. RightCommands(commands[r])'
    BY <1>1, <1>3, CloneIsRight DEF RightCommands, Belongs
<1>5. RightCall(r)'
    BY <1>3, <1>4 DEF RightCall, RedisOr, ReadSteps, WriteSteps
<1>6. HitsWereCached'
    BY <1>3, NoHit
<1> QED
    BY <1>1, <1>3, <1>5, <1>6, CallKeeps

\* The call's number is new: nothing belonged to it before.
LEMMA BeginWriteKeeps ==
    ASSUME CacheInvariant, NEW r \in Requests, BeginWrite(r)
    PROVE  CacheInvariant'
<1>1. /\ Shapes /\ redis' = redis /\ memory' = memory /\ pipeline' = pipeline
      /\ build' = build /\ written' = written + 1 /\ written < MaxWrites
      /\ RightTable(redis) /\ RightTable(memory) /\ RightCommands(pipeline)
    BY DEF CacheInvariant, BeginWrite, servers
<1>2. PICK ks \in KeyLists[build] :
        /\ Call(r, RedisOr("write_redis", "write_memory"), ks, written + 1, Clone, {})
        /\ brought' = [brought EXCEPT ![written + 1] = {ks[i] : i \in DOMAIN ks}]
    BY DEF BeginWrite
<1>3. /\ Others(r) /\ reply' = NoReply /\ at'[r] = RedisOr("write_redis", "write_memory")
      /\ keys'[r] = ks /\ value'[r] = written + 1 /\ commands'[r] = Clone
    BY <1>1, <1>2, CallStarts
<1>4. written \in Nat /\ written + 1 \in Values /\ written + 1 > written
    BY <1>1, BoundAssumption DEF Shapes, Values
<1>5. ks \in Seq(Keys) /\ {ks[i] : i \in DOMAIN ks} \in SUBSET Keys
    BY <1>1, ListType, ElementType
<1>6. \A k, v : Belongs(k, v) => Belongs(k, v)'
    BY <1>1, <1>2, <1>4 DEF Belongs, Shapes
<1>7. Shapes'
    <2>1. written' \in 0 .. MaxWrites
        BY <1>1, <1>4, BoundAssumption
    <2>2. brought' \in [Values -> SUBSET Keys]
        BY <1>1, <1>2, <1>4, <1>5 DEF Shapes
    <2>3. ASSUME NEW v \in Values, v > written'
          PROVE  brought'[v] = {}
        <3>1. v \in Nat /\ v > written /\ v # written + 1
            BY <1>1, <1>4, <2>3 DEF Values
        <3> QED
            BY <1>1, <1>2, <3>1 DEF Shapes
    <2> QED
        BY <1>1, <1>3, <2>1, <2>2, <2>3 DEF Shapes, Others
<1>8. RightTable(redis)' /\ RightTable(memory)' /\ RightCommands(pipeline)'
    BY <1>1, <1>6 DEF RightTable, RightCommands
<1>9. ASSUME NEW s \in Requests
      PROVE  RightCall(s)'
    <2>1. CASE s = r
        <3>1. RightCommands(commands[r])'
            BY <1>3, <1>6, CloneIsRight DEF RightCommands
        <3>2. \A i \in DOMAIN ks : ks[i] \in brought'[written + 1]
            BY <1>1, <1>2, <1>4 DEF Shapes
        <3>3. at'[r] \in {"write_redis", "write_memory"}
            BY <1>3 DEF RedisOr
        <3> QED
            BY <1>3, <1>4, <1>5, <2>1, <3>1, <3>2, <3>3 DEF RightCall, ReadSteps, Belongs
    <2>2. CASE s # r
        <3>1. /\ at'[s] = at[s] /\ keys'[s] = keys[s] /\ value'[s] = value[s]
              /\ commands'[s] = commands[s]
            BY <1>3, <2>2 DEF Others
        <3>2. RightCall(s)
            BY DEF CacheInvariant
        <3> QED
            BY <1>6, <3>1, <3>2 DEF RightCall, RightCommands
    <2> QED
        BY <2>1, <2>2
<1>10. HitsWereCached'
    BY <1>3, NoHit
<1> QED
    BY <1>7, <1>8, <1>9, <1>10 DEF CacheInvariant

LEMMA AppendedCommands ==
    ASSUME NEW cmds, RightCommands(cmds), NEW ks \in Seq(Keys), NEW v \in Values,
           \A i \in DOMAIN ks : Belongs(ks[i], v)
    PROVE  RightCommands(cmds \o [i \in DOMAIN ks |-> [key |-> ks[i], value |-> v]])
<1> DEFINE new == [i \in DOMAIN ks |-> [key |-> ks[i], value |-> v]]
           all == cmds \o new
<1>1. \A i \in DOMAIN ks : ks[i] \in Keys
    BY ElementType
<1>2. new \in Seq(Command) /\ Len(new) = Len(ks) /\ DOMAIN new = DOMAIN ks
    <2>1. DOMAIN ks = 1 .. Len(ks) /\ Len(ks) \in Nat
        OBVIOUS
    <2>2. \A i \in DOMAIN ks : [key |-> ks[i], value |-> v] \in Command
        BY <1>1 DEF Command
    <2>3. new \in [1 .. Len(ks) -> Command]
        BY <2>1, <2>2
    <2> QED
        BY <2>1, <2>3
<1>3. \A i \in DOMAIN new : Belongs(new[i].key, new[i].value)
    BY <1>2
<1> HIDE DEF new
<1>4. cmds \in Seq(Command) /\ all \in Seq(Command)
    BY <1>2 DEF RightCommands
<1>5. ASSUME NEW i \in DOMAIN all
      PROVE  Belongs(all[i].key, all[i].value)
    <2>1. CASE i \in DOMAIN cmds
        <3>1. all[i] = cmds[i]
            BY <1>2, <1>4, <2>1
        <3> QED
            BY <2>1, <3>1 DEF RightCommands
    <2>2. CASE i \notin DOMAIN cmds
        <3>1. i - Len(cmds) \in DOMAIN new /\ all[i] = new[i - Len(cmds)]
            BY <1>2, <1>4, <2>2
        <3> QED
            BY <1>3, <3>1
    <2> QED
        BY <2>1, <2>2
<1> QED
    BY <1>4, <1>5 DEF RightCommands, new

LEMMA WriteRedisKeeps ==
    ASSUME CacheInvariant, NEW r \in Requests, WriteRedis(r)
    PROVE  CacheInvariant'
<1> DEFINE cmds == commands[r] \o NewCommands(r)
<1>1. /\ Shapes /\ RightCall(r) /\ RightTable(memory) /\ RightTable(redis)
      /\ RightCommands(pipeline) /\ RightCommands(commands[r])
      /\ memory' = memory /\ pipeline' = pipeline
      /\ build' = build /\ brought' = brought /\ written' = written
    BY DEF CacheInvariant, WriteRedis, RightCall
<1>2. /\ keys[r] \in Seq(Keys) /\ \A i \in DOMAIN keys[r] : Belongs(keys[r][i], value[r])
    BY <1>1 DEF WriteRedis, RightCall, WriteSteps
<1>3. RightCommands(cmds)
    <2>1. CASE keys[r] = <<>>
        <3>1. NewCommands(r) = <<>>
            BY <2>1 DEF NewCommands
        <3>2. cmds = commands[r]
            BY <1>1, <3>1 DEF RightCommands
        <3> QED
            BY <1>1, <3>2
    <2>2. CASE keys[r] # <<>>
        <3>1. value[r] \in Values
            <4>1. 1 \in DOMAIN keys[r]
                BY <1>2, <2>2
            <4> QED
                BY <1>2, <4>1 DEF Belongs
        <3> QED
            BY <1>1, <1>2, <3>1, AppendedCommands DEF NewCommands
    <2> QED
        BY <2>1, <2>2
<1>4. RightTable(redis')
    <2>1. redis' = redis \/ redis' = AfterSets(cmds)
        BY DEF WriteRedis
    <2> QED
        BY <1>1, <1>3, <2>1, AfterSetsIsRight
<1> HIDE DEF cmds
<1>5. /\ \/ at' = [at EXCEPT ![r] = "store_back"]
         \/ at' = [at EXCEPT ![r] = "write_memory"]
      /\ commands' = [commands EXCEPT ![r] = cmds]
      /\ reply' = NoReply /\ keys' = keys /\ value' = value
    BY DEF WriteRedis, Silent, cmds
<1>6. /\ Others(r) /\ at'[r] \in {"store_back", "write_memory"} /\ commands'[r] = cmds
    BY <1>1, <1>5 DEF Others, Shapes
<1>7. RightCall(r)'
    BY <1>1, <1>2, <1>3, <1>5, <1>6 DEF RightCall, RightCommands, Belongs, ReadSteps, WriteSteps
<1>8. HitsWereCached'
    BY <1>5, NoHit
<1> QED
    BY <1>1, <1>4, <1>6, <1>7, <1>8, CallKeeps

\* Removing one of the keys leaves keys that belong to the call.
LEMMA RemovedKey ==
    ASSUME NEW ks \in Seq(Keys), NEW i \in DOMAIN ks, NEW rest,
           rest = [j \in 1 .. Len(ks) - 1 |-> IF j < i THEN ks[j] ELSE ks[j + 1]]
    PROVE  /\ rest \in Seq(Keys)
           /\ \A j \in DOMAIN rest : \E n \in DOMAIN ks : rest[j] = ks[n]
<1>1. Len(ks) \in Nat \ {0} /\ DOMAIN ks = 1 .. Len(ks) /\ i \in 1 .. Len(ks)
    OBVIOUS
<1>2. ASSUME NEW j \in 1 .. Len(ks) - 1
      PROVE  \E n \in DOMAIN ks : rest[j] = ks[n]
    BY <1>1
<1>3. \A n \in DOMAIN ks : ks[n] \in Keys
    BY ElementType
<1>4. rest \in [1 .. Len(ks) - 1 -> Keys] /\ Len(ks) - 1 \in Nat
    BY <1>1, <1>2, <1>3
<1> QED
    BY <1>2, <1>4

LEMMA WriteMemoryKeeps ==
    ASSUME CacheInvariant, NEW r \in Requests, WriteMemory(r)
    PROVE  CacheInvariant'
<1>1. /\ Shapes /\ RightCall(r) /\ RightTable(memory) /\ RightTable(redis)
      /\ RightCommands(pipeline) /\ RightCommands(commands[r])
      /\ redis' = redis /\ pipeline' = pipeline
      /\ build' = build /\ brought' = brought /\ written' = written
    BY DEF CacheInvariant, WriteMemory, RightCall
<1>2. /\ keys[r] \in Seq(Keys) /\ \A i \in DOMAIN keys[r] : Belongs(keys[r][i], value[r])
      /\ at[r] = "write_memory"
    BY <1>1 DEF WriteMemory, RightCall, WriteSteps
<1>3. CASE keys[r] = <<>>
    <2>1. Go(r, "store_back") /\ memory' = memory
        BY <1>3 DEF WriteMemory
    <2>2. /\ Others(r) /\ reply' = NoReply /\ at'[r] = "store_back" /\ commands' = commands
        BY <1>1, <2>1, GoKeeps
    <2>3. RightCall(r)'
        BY <1>1, <2>2 DEF RightCall, RightCommands, Belongs, ReadSteps, WriteSteps
    <2>4. HitsWereCached'
        BY <2>2, NoHit
    <2> QED
        BY <1>1, <2>1, <2>2, <2>3, <2>4, CallKeeps
<1>4. CASE keys[r] # <<>>
    <2>1. PICK i \in DOMAIN keys[r] :
            /\ memory' = [memory EXCEPT ![keys[r][i]] = Fresh(value[r])]
            /\ keys' = [keys EXCEPT ![r] = [j \in 1 .. Len(keys[r]) - 1 |->
                            IF j < i THEN keys[r][j] ELSE keys[r][j + 1]]]
            /\ reply' = NoReply /\ at' = at /\ value' = value /\ commands' = commands
        BY <1>4 DEF WriteMemory, Silent
    <2>2. keys[r][i] \in Keys /\ Belongs(keys[r][i], value[r]) /\ value[r] \in Values
        BY <1>2, ElementType DEF Belongs
    <2>3. RightTable(memory')
        <3>1. Fresh(value[r]) \in Entry /\ Fresh(value[r]).value = value[r]
            BY <2>2, FreshType
        <3> HIDE DEF Fresh
        <3> QED
            BY <1>1, <2>1, <2>2, <3>1 DEF RightTable
    <2>4. Others(r) /\ keys'[r] = [j \in 1 .. Len(keys[r]) - 1 |->
                                     IF j < i THEN keys[r][j] ELSE keys[r][j + 1]]
        BY <1>1, <2>1 DEF Others, Shapes
    <2>5. /\ keys'[r] \in Seq(Keys)
          /\ \A j \in DOMAIN keys'[r] : \E n \in DOMAIN keys[r] : keys'[r][j] = keys[r][n]
        <3> DEFINE ks == keys[r]
                   rest == keys'[r]
        <3>1. /\ ks \in Seq(Keys) /\ i \in DOMAIN ks
              /\ rest = [j \in 1 .. Len(ks) - 1 |-> IF j < i THEN ks[j] ELSE ks[j + 1]]
            BY <1>2, <2>4
        <3> HIDE DEF ks, rest
        <3>2. /\ rest \in Seq(Keys)
              /\ \A j \in DOMAIN rest : \E n \in DOMAIN ks : rest[j] = ks[n]
            BY <3>1, RemovedKey
        <3> QED
            BY <3>2 DEF ks, rest
    <2>6. RightCommands(commands[r])'
        BY <1>1, <2>1 DEF RightCommands, Belongs
    <2>7. \A j \in DOMAIN keys'[r] : value[r] \in Values /\ keys'[r][j] \in brought[value[r]]
        BY <1>2, <2>5 DEF Belongs
    <2>8. RightCall(r)'
        BY <1>1, <1>2, <2>1, <2>5, <2>6, <2>7 DEF RightCall, Belongs, ReadSteps
    <2>9. HitsWereCached'
        BY <2>1, NoHit
    <2> QED
        BY <1>1, <2>3, <2>4, <2>8, <2>9, CallKeeps
<1> QED
    BY <1>3, <1>4

LEMMA StoreBackKeeps ==
    ASSUME CacheInvariant, NEW r \in Requests, StoreBack(r)
    PROVE  CacheInvariant'
<1>1. /\ Shapes /\ RightTable(memory) /\ RightTable(redis) /\ RightCommands(commands[r])
      /\ redis' = redis /\ memory' = memory /\ pipeline' = commands[r]
      /\ build' = build /\ brought' = brought /\ written' = written /\ Return(r, Answered(r, "ok"))
    BY DEF CacheInvariant, StoreBack, servers, history, RightCall
<1>2. Others(r) /\ RightCall(r)' /\ reply' = Answered(r, "ok")
    BY <1>1, ReturnKeeps
<1>3. HitsWereCached'
    BY <1>2, NoHit
<1> QED
    BY <1>1, <1>2, <1>3, CallKeeps

-----------------------------------------------------------------------------
(* Steps of the environment.                                               *)

\* A step that leaves the calls alone, or ends all of them.
LEMMA EnvironmentKeeps ==
    ASSUME CacheInvariant, build' = build, brought' = brought, written' = written, reply' = NoReply,
           RightTable(redis'), RightTable(memory'), RightCommands(pipeline'),
           \/ UNCHANGED <<at, keys, value, commands>>
           \/ /\ at' = [r \in Requests |-> "idle"]
              /\ DOMAIN keys' = Requests /\ DOMAIN value' = Requests
              /\ commands' = [r \in Requests |-> <<>>]
    PROVE  CacheInvariant'
<1>1. Shapes'
    BY DEF CacheInvariant, Shapes
<1>2. RightTable(redis)' /\ RightTable(memory)' /\ RightCommands(pipeline)'
    BY DEF RightTable, RightCommands, Belongs
<1>3. ASSUME NEW r \in Requests
      PROVE  RightCall(r)'
    <2>1. CASE UNCHANGED <<at, keys, value, commands>>
        BY <2>1 DEF CacheInvariant, RightCall, RightCommands, Belongs
    <2>2. CASE at'[r] = "idle" /\ commands'[r] = <<>>
        BY <2>2, EmptyCommands DEF RightCall, RightCommands, ReadSteps, WriteSteps
    <2> QED
        BY <2>1, <2>2
<1>4. HitsWereCached'
    BY NoHit
<1> QED
    BY <1>1, <1>2, <1>3, <1>4 DEF CacheInvariant

LEMMA TickKeeps == CacheInvariant /\ Tick => CacheInvariant'
<1> SUFFICES ASSUME CacheInvariant, Tick
             PROVE  CacheInvariant'
    OBVIOUS
<1>1. /\ redis' = Older(redis) /\ memory' = Older(memory) /\ pipeline' = pipeline
      /\ UNCHANGED <<at, keys, value, commands>>
      /\ build' = build /\ brought' = brought /\ written' = written
      /\ reply' = NoReply
    BY DEF Tick, Silent, calls
<1>2. RightTable(redis') /\ RightTable(memory') /\ RightCommands(pipeline')
    BY <1>1, OlderIsRight DEF CacheInvariant
<1> QED
    BY <1>1, <1>2, EnvironmentKeeps

\* A table that has lost its data is right.
LEMMA LostTable == RightTable([k \in Keys |-> Absent])
BY AbsentType DEF RightTable

LEMMA FailureKeeps == CacheInvariant /\ (RedisFails \/ RedisRecovers) => CacheInvariant'
<1> SUFFICES ASSUME CacheInvariant, RedisFails \/ RedisRecovers
             PROVE  CacheInvariant'
    OBVIOUS
<1>1. /\ memory' = memory /\ pipeline' = pipeline
      /\ redis' \in {redis, [k \in Keys |-> Absent]}
      /\ UNCHANGED <<at, keys, value, commands>>
      /\ build' = build /\ brought' = brought /\ written' = written
      /\ reply' = NoReply
    BY DEF RedisFails, RedisRecovers, Silent, calls, history
<1>2. RightTable(redis') /\ RightTable(memory') /\ RightCommands(pipeline')
    BY <1>1, LostTable DEF CacheInvariant
<1> QED
    BY <1>1, <1>2, EnvironmentKeeps

LEMMA RestartKeeps == CacheInvariant /\ Restart => CacheInvariant'
<1> SUFFICES ASSUME CacheInvariant, Restart
             PROVE  CacheInvariant'
    OBVIOUS
<1>1. /\ redis' = redis /\ memory' = [k \in Keys |-> Absent] /\ pipeline' = <<>>
      /\ at' = [r \in Requests |-> "idle"]
      /\ DOMAIN keys' = Requests /\ DOMAIN value' = Requests
      /\ commands' = [r \in Requests |-> <<>>]
      /\ build' = build /\ brought' = brought /\ written' = written /\ reply' = NoReply
    BY DEF Restart
<1>2. RightTable(redis') /\ RightTable(memory') /\ RightCommands(pipeline')
    BY <1>1, LostTable, EmptyCommands DEF CacheInvariant
<1> QED
    BY <1>1, <1>2, EnvironmentKeeps

-----------------------------------------------------------------------------
LEMMA InitHolds == Init => CacheInvariant
<1> SUFFICES ASSUME Init
             PROVE  CacheInvariant
    OBVIOUS
<1>1. Shapes
    BY BoundAssumption DEF Init, Shapes
<1>2. RightTable(redis) /\ RightTable(memory) /\ RightCommands(pipeline)
    BY LostTable, EmptyCommands DEF Init
<1>3. \A r \in Requests : RightCall(r)
    BY EmptyCommands DEF Init, RightCall, ReadSteps, WriteSteps
<1>4. HitsWereCached
    BY DEF Init, NoReply, HitsWereCached
<1> QED
    BY <1>1, <1>2, <1>3, <1>4 DEF CacheInvariant

LEMMA StepKeeps == CacheInvariant /\ [Next]_vars => CacheInvariant'
<1> SUFFICES ASSUME CacheInvariant, [Next]_vars
             PROVE  CacheInvariant'
    OBVIOUS
<1>1. CASE \E r \in Requests : BeginCall(r)
    BY <1>1, BeginReadKeeps, BeginExistsKeeps, BeginWriteKeeps DEF BeginCall
<1>2. CASE \E r \in Requests : CallStep(r)
    BY <1>2, ReadMemoryKeeps, ReadRedisKeeps, PopulateMemoryKeeps, ExistsKeeps,
       WriteRedisKeeps, WriteMemoryKeeps, StoreBackKeeps DEF CallStep
<1>3. CASE Tick \/ RedisFails \/ RedisRecovers \/ Restart
    BY <1>3, TickKeeps, FailureKeeps, RestartKeeps
<1>4. CASE UNCHANGED vars
    BY <1>4
       DEF vars, servers, calls, history, CacheInvariant, Shapes, RightTable, RightCommands,
           RightCall, Belongs, HitsWereCached
<1> QED
    BY <1>1, <1>2, <1>3, <1>4 DEF Next

-----------------------------------------------------------------------------
\* Hits: in both builds, with any requests at the same time, any lists of urls, any
\* failures of redis and any restarts, cached_results answers for a url only what
\* cache_results was called with for that url.
THEOREM HitsAreOfTheirUrl == Spec => []HitsWereCached
<1>1. Spec => []CacheInvariant
    BY InitHolds, StepKeeps, PTL DEF Spec
<1>2. CacheInvariant => HitsWereCached
    BY DEF CacheInvariant
<1> QED
    BY <1>1, <1>2, PTL

-----------------------------------------------------------------------------
(* Progress.                                                               *)

LastSteps == {"read_memory_again", "populate_memory", "exists_memory", "store_back"}
Steps == {"idle", "read_memory", "read_redis", "exists_redis"} \cup LastSteps \cup WriteSteps

\* Every call is at one of the steps.
CallsAtSteps == \A r \in Requests : at[r] \in Steps

LEMMA StepsOfEach ==
    ASSUME NEW step \in Steps, NEW n, step \in WriteSteps => n \in Nat
    PROVE  /\ StepsToReturn(step, n) \in Nat
           /\ step = "idle" => StepsToReturn(step, n) = 0
           /\ step \in LastSteps => StepsToReturn(step, n) = 1
           /\ step \in {"read_redis", "exists_redis"} => StepsToReturn(step, n) = 2
           /\ step = "read_memory" => StepsToReturn(step, n) = 3
           /\ step = "write_memory" => StepsToReturn(step, n) = n + 2
           /\ step = "write_redis" => StepsToReturn(step, n) = n + 3
<1>1. CASE step = "idle"
    BY <1>1 DEF StepsToReturn, LastSteps
<1>2. CASE step \in LastSteps
    BY <1>2 DEF StepsToReturn, LastSteps
<1>3. CASE step \in {"read_redis", "exists_redis"}
    BY <1>3 DEF StepsToReturn, LastSteps
<1>4. CASE step = "read_memory"
    BY <1>4 DEF StepsToReturn, LastSteps
<1>5. CASE step = "write_memory"
    BY <1>5 DEF StepsToReturn, LastSteps, WriteSteps
<1>6. CASE step = "write_redis"
    BY <1>6 DEF StepsToReturn, LastSteps, WriteSteps
<1> QED
    BY <1>1, <1>2, <1>3, <1>4, <1>5, <1>6 DEF Steps, WriteSteps

LEMMA StepsAhead ==
    ASSUME NEW step \in Steps \ {"idle"}, NEW n, step \in WriteSteps => n \in Nat
    PROVE  /\ StepsToReturn(step, n) > 0
           /\ step \notin LastSteps => StepsToReturn(step, n) > 1
           /\ step = "read_memory" => StepsToReturn(step, n) = 3
<1>1. CASE step \in LastSteps
    BY <1>1, StepsOfEach DEF LastSteps
<1>2. CASE step \in {"read_memory", "read_redis", "exists_redis"}
    BY <1>2, StepsOfEach
<1>3. CASE step \in WriteSteps
    <2>1. StepsToReturn(step, n) = n + 2 \/ StepsToReturn(step, n) = n + 3
        BY <1>3, StepsOfEach DEF WriteSteps
    <2>2. n + 2 > 1 /\ n + 3 > 1 /\ n + 2 > 0 /\ n + 3 > 0
        BY <1>3
    <2> QED
        BY <1>3, <2>1, <2>2 DEF WriteSteps
<1> QED
    BY <1>1, <1>2, <1>3 DEF Steps

\* The step a call's own action takes it to, and the keys it leaves.
Advances(r) ==
    /\ Others(r) /\ at'[r] \in Steps
    /\ at'[r] \in WriteSteps => Len(keys'[r]) \in Nat
    /\ StepsToReturn(at'[r], Len(keys'[r])) \in Nat
    /\ StepsToReturn(at'[r], Len(keys'[r])) < StepsToReturn(at[r], Len(keys[r]))

LEMMA ReturnAdvances ==
    ASSUME Shapes, NEW r \in Requests, NEW answer, Return(r, answer), at[r] \in Steps \ {"idle"},
           at[r] \in WriteSteps => Len(keys[r]) \in Nat
    PROVE  Advances(r)
<1>1. Others(r) /\ at'[r] = "idle" /\ "idle" \in Steps
    BY DEF Return, Shapes, Others, Steps
<1>2. StepsToReturn(at'[r], Len(keys'[r])) = 0
    BY <1>1, StepsOfEach DEF WriteSteps
<1>3. StepsToReturn(at[r], Len(keys[r])) > 0
    BY StepsAhead
<1>4. at'[r] \notin WriteSteps
    BY <1>1 DEF WriteSteps
<1> QED
    BY <1>1, <1>2, <1>3, <1>4 DEF Advances

LEMMA OnwardAdvances ==
    ASSUME Shapes, NEW r \in Requests, NEW to \in LastSteps \cup {"read_redis"},
           at[r] \in Steps, to = "read_redis" => at[r] = "read_memory",
           at[r] \notin LastSteps \cup {"idle"}, at[r] \in WriteSteps => Len(keys[r]) \in Nat,
           Others(r), at'[r] = to
    PROVE  Advances(r)
<1>1. to \in Steps /\ to \notin WriteSteps
    BY DEF LastSteps, Steps, WriteSteps
<1>2. /\ to \in LastSteps => StepsToReturn(at'[r], Len(keys'[r])) = 1
      /\ to = "read_redis" => StepsToReturn(at'[r], Len(keys'[r])) = 2
    BY <1>1, StepsOfEach
<1>3. /\ StepsToReturn(at[r], Len(keys[r])) > 1
      /\ at[r] = "read_memory" => StepsToReturn(at[r], Len(keys[r])) = 3
    BY StepsAhead
<1>4. /\ at'[r] \in Steps /\ at'[r] \notin WriteSteps
      /\ to \in LastSteps \/ to = "read_redis"
    BY <1>1
<1>5. CASE to \in LastSteps
    BY <1>2, <1>3, <1>4, <1>5 DEF Advances
<1>6. CASE to = "read_redis"
    BY <1>2, <1>3, <1>4, <1>6 DEF Advances
<1> QED
    BY <1>4, <1>5, <1>6

\* Every step of a call is one fewer to come.
LEMMA CallStepAdvances ==
    ASSUME CacheInvariant, CallsAtSteps, NEW r \in Requests, CallStep(r)
    PROVE  Advances(r)
<1>1. /\ Shapes /\ at[r] \in Steps
      /\ at[r] \in WriteSteps => keys[r] \in Seq(Keys) /\ Len(keys[r]) \in Nat
    <2>1. Shapes /\ at[r] \in Steps /\ (at[r] \in WriteSteps => keys[r] \in Seq(Keys))
        BY DEF CacheInvariant, RightCall, CallsAtSteps
    <2>2. \A s \in Seq(Keys) : Len(s) \in Nat
        OBVIOUS
    <2> QED
        BY <2>1, <2>2
<1>2. CASE ReadMemory(r)
    <2>1. at[r] \in {"read_memory", "read_memory_again"}
        BY <1>2 DEF ReadMemory
    <2>2. \/ \E answer : Return(r, answer)
          \/ at[r] = "read_memory" /\ Go(r, "read_redis")
        BY <1>2 DEF ReadMemory
    <2>3. CASE at[r] = "read_memory" /\ Go(r, "read_redis")
        BY <1>1, <2>3, GoKeeps, OnwardAdvances DEF LastSteps
    <2> QED
        BY <1>1, <2>1, <2>2, <2>3, ReturnAdvances
<1>3. CASE ReadRedis(r)
    <2>1. at[r] = "read_redis"
        BY <1>3 DEF ReadRedis
    <2>2. \/ \E answer : Return(r, answer)
          \/ Go(r, "read_memory_again")
          \/ at' = [at EXCEPT ![r] = "populate_memory"]
               /\ value' = [value EXCEPT ![r] = redis[keys[r][1]].value] /\ UNCHANGED <<keys, commands>>
        BY <1>3 DEF ReadRedis
    <2>3. CASE Go(r, "read_memory_again")
        BY <1>1, <2>1, <2>3, GoKeeps, OnwardAdvances DEF LastSteps
    <2>4. CASE at' = [at EXCEPT ![r] = "populate_memory"]
                 /\ value' = [value EXCEPT ![r] = redis[keys[r][1]].value] /\ UNCHANGED <<keys, commands>>
        <3>1. Others(r) /\ at'[r] = "populate_memory"
            BY <1>1, <2>4 DEF Shapes, Others
        <3> QED
            BY <1>1, <2>1, <3>1, OnwardAdvances DEF LastSteps
    <2> QED
        BY <1>1, <2>1, <2>2, <2>3, <2>4, ReturnAdvances
<1>4. CASE PopulateMemory(r)
    BY <1>1, <1>4, ReturnAdvances DEF PopulateMemory
<1>5. CASE ExistsRedis(r)
    <2>1. at[r] = "exists_redis"
        BY <1>5 DEF ExistsRedis
    <2>2. (\E answer : Return(r, answer)) \/ Go(r, "exists_memory")
        BY <1>5 DEF ExistsRedis
    <2>3. CASE Go(r, "exists_memory")
        BY <1>1, <2>1, <2>3, GoKeeps, OnwardAdvances DEF LastSteps
    <2> QED
        BY <1>1, <2>1, <2>2, <2>3, ReturnAdvances
<1>6. CASE ExistsMemory(r)
    BY <1>1, <1>6, ReturnAdvances DEF ExistsMemory
<1>7. CASE WriteRedis(r)
    <2> DEFINE cmds == commands[r] \o NewCommands(r)
               Onward(to) == /\ at' = [at EXCEPT ![r] = to] /\ commands' = [commands EXCEPT ![r] = cmds]
                             /\ UNCHANGED <<keys, value>>
    <2>1. at[r] = "write_redis" /\ Len(keys[r]) \in Nat
        BY <1>1, <1>7 DEF WriteRedis, WriteSteps
    <2>2. (\E answer : Return(r, answer)) \/ Onward("store_back") \/ Onward("write_memory")
        BY <1>7 DEF WriteRedis
    <2>3. ASSUME NEW to, Onward(to)
          PROVE  Others(r) /\ at'[r] = to /\ keys' = keys
        BY <1>1, <2>3 DEF Shapes, Others
    <2>4. CASE Onward("store_back")
        BY <1>1, <2>1, <2>3, <2>4, OnwardAdvances DEF LastSteps
    <2>5. CASE Onward("write_memory")
        <3>1. Others(r) /\ at'[r] = "write_memory" /\ keys'[r] = keys[r] /\ "write_memory" \in Steps
            BY <2>3, <2>5 DEF Steps, WriteSteps
        <3>2. /\ StepsToReturn(at'[r], Len(keys'[r])) = Len(keys[r]) + 2
              /\ StepsToReturn(at[r], Len(keys[r])) = Len(keys[r]) + 3
            BY <1>1, <2>1, <3>1, StepsOfEach
        <3> QED
            BY <2>1, <3>1, <3>2 DEF Advances
    <2> QED
        BY <1>1, <2>1, <2>2, <2>4, <2>5, ReturnAdvances
<1>8. CASE WriteMemory(r)
    <2>1. at[r] = "write_memory" /\ keys[r] \in Seq(Keys) /\ Len(keys[r]) \in Nat
        BY <1>1, <1>8 DEF WriteMemory, WriteSteps
    <2>2. CASE keys[r] = <<>>
        <3>1. Go(r, "store_back")
            BY <1>8, <2>2 DEF WriteMemory
        <3> QED
            BY <1>1, <2>1, <3>1, GoKeeps, OnwardAdvances DEF LastSteps
    <2>3. CASE keys[r] # <<>>
        <3>1. PICK i \in DOMAIN keys[r] :
                 /\ keys' = [keys EXCEPT ![r] = [j \in 1 .. Len(@) - 1 |-> IF j < i THEN @[j] ELSE @[j + 1]]]
                 /\ UNCHANGED <<at, value, commands>>
            BY <1>8, <2>3 DEF WriteMemory
        <3>2. keys'[r] = [j \in 1 .. Len(keys[r]) - 1 |-> IF j < i THEN keys[r][j] ELSE keys[r][j + 1]]
            BY <1>1, <3>1 DEF Shapes
        <3>3. Len(keys'[r]) = Len(keys[r]) - 1 /\ Len(keys[r]) - 1 \in Nat
            BY <2>1, <3>1, <3>2
        <3>4. Others(r) /\ at'[r] = at[r]
            BY <1>1, <3>1 DEF Shapes, Others
        <3>5. /\ StepsToReturn(at'[r], Len(keys'[r])) = Len(keys[r]) - 1 + 2
              /\ StepsToReturn(at[r], Len(keys[r])) = Len(keys[r]) + 2
            BY <1>1, <2>1, <3>3, <3>4, StepsOfEach
        <3> QED
            BY <1>1, <2>1, <3>3, <3>4, <3>5 DEF Advances
    <2> QED
        BY <2>2, <2>3
<1>9. CASE StoreBack(r)
    BY <1>1, <1>9, ReturnAdvances DEF StoreBack
<1> QED
    BY <1>2, <1>3, <1>4, <1>5, <1>6, <1>7, <1>8, <1>9 DEF CallStep

\* The number of steps a call may still take is a number.
LEMMA CallStepsLeftType ==
    ASSUME CacheInvariant, CallsAtSteps, NEW r \in Requests
    PROVE  CallStepsLeft(r) \in Nat
<1>1. at[r] \in Steps /\ (at[r] \in WriteSteps => keys[r] \in Seq(Keys))
    BY DEF CacheInvariant, RightCall, CallsAtSteps
<1>2. \A s \in Seq(Keys) : Len(s) \in Nat
    OBVIOUS
<1> QED
    BY <1>1, <1>2, StepsOfEach DEF CallStepsLeft

\* A call that does not move stays where it is, with what it has still to do.
LEMMA UnmovedCall ==
    ASSUME CacheInvariant, CallsAtSteps, NEW r \in Requests, at'[r] = at[r], keys'[r] = keys[r]
    PROVE  at'[r] \in Steps /\ CallStepsLeft(r)' \in 0 .. CallStepsLeft(r)
<1>1. CallStepsLeft(r) \in Nat /\ CallStepsLeft(r)' = CallStepsLeft(r)
    BY CallStepsLeftType DEF CallStepsLeft
<1>2. at[r] \in Steps
    BY DEF CallsAtSteps
<1> QED
    BY <1>1, <1>2

\* What any step of the system does to the calls under way.
LEMMA NextAdvances ==
    ASSUME CacheInvariant, CallsAtSteps, Next, NEW q \in Requests
    PROVE  at'[q] \in Steps /\ (at[q] # "idle" => CallStepsLeft(q)' \in 0 .. CallStepsLeft(q))
<1>1. Shapes
    BY DEF CacheInvariant
<1>2. ASSUME NEW r \in Requests, BeginCall(r)
      PROVE  at'[q] \in Steps /\ (at[q] # "idle" => CallStepsLeft(q)' \in 0 .. CallStepsLeft(q))
    <2>1. at[r] = "idle"
        BY <1>2 DEF BeginCall, BeginRead, BeginExists, BeginWrite
    <2>2. PICK step, ks, v, cmds, stored :
             /\ Call(r, step, ks, v, cmds, stored)
             /\ step \in {"read_memory", "read_redis", "exists_redis", "exists_memory",
                          "write_redis", "write_memory"}
        BY <1>2 DEF BeginCall, BeginRead, BeginExists, BeginWrite, RedisOr
    <2>3. /\ at'[r] = step /\ step \in Steps
          /\ \A s \in Requests \ {r} : at'[s] = at[s] /\ keys'[s] = keys[s]
        BY <1>1, <2>2 DEF Call, Shapes, Steps, LastSteps, WriteSteps
    <2> QED
        BY <2>1, <2>3, UnmovedCall
<1>3. ASSUME NEW r \in Requests, CallStep(r)
      PROVE  at'[q] \in Steps /\ CallStepsLeft(q)' \in 0 .. CallStepsLeft(q)
    <2>1. Advances(r)
        BY <1>3, CallStepAdvances
    <2>2. CASE q # r
        <3>1. at'[q] = at[q] /\ keys'[q] = keys[q]
            BY <2>1, <2>2 DEF Advances, Others
        <3> QED
            BY <3>1, UnmovedCall
    <2>3. CASE q = r
        <3>1. CallStepsLeft(q) \in Nat
            BY CallStepsLeftType
        <3> QED
            BY <2>1, <2>3, <3>1 DEF Advances, CallStepsLeft
    <2> QED
        BY <2>2, <2>3
<1>4. CASE Tick \/ RedisFails \/ RedisRecovers
    <2>1. at' = at /\ keys' = keys
        BY <1>4 DEF Tick, RedisFails, RedisRecovers, calls
    <2> QED
        BY <2>1, UnmovedCall
<1>5. CASE Restart
    <2>1. at'[q] = "idle" /\ "idle" \in Steps /\ "idle" \notin WriteSteps
        BY <1>5 DEF Restart, Steps, WriteSteps
    <2>2. CallStepsLeft(q)' = 0
        BY <2>1, StepsOfEach DEF CallStepsLeft
    <2>3. CallStepsLeft(q) \in Nat
        BY CallStepsLeftType
    <2> QED
        BY <2>1, <2>2, <2>3
<1> QED
    BY <1>2, <1>3, <1>4, <1>5 DEF Next

\* Every step of a call brings it nearer to its return, and nothing else that
\* happens sets it back, in either build and whatever redis does.
THEOREM CallsAreBounded == Spec => CallsAdvance
<1>1. Init => CallsAtSteps
    BY DEF Init, CallsAtSteps, Steps
<1>2. CacheInvariant /\ CallsAtSteps /\ [Next]_vars => CallsAtSteps'
    <2>1. ASSUME CallsAtSteps, UNCHANGED vars
          PROVE  CallsAtSteps'
        BY <2>1 DEF vars, calls, CallsAtSteps
    <2> QED
        BY <2>1, NextAdvances DEF CallsAtSteps
<1> DEFINE A == \A r \in Requests :
                   /\ CallStep(r) => CallStepsLeft(r)' < CallStepsLeft(r)
                   /\ at[r] # "idle" => CallStepsLeft(r)' \in 0 .. CallStepsLeft(r)
<1>3. CacheInvariant /\ CallsAtSteps /\ [Next]_vars => [A]_vars
    <2> SUFFICES ASSUME CacheInvariant, CallsAtSteps, Next, NEW r \in Requests
                 PROVE  /\ CallStep(r) => CallStepsLeft(r)' < CallStepsLeft(r)
                        /\ at[r] # "idle" => CallStepsLeft(r)' \in 0 .. CallStepsLeft(r)
        OBVIOUS
    <2>1. ASSUME CallStep(r)
          PROVE  CallStepsLeft(r)' < CallStepsLeft(r)
        BY <2>1, CallStepAdvances DEF Advances, CallStepsLeft
    <2> QED
        BY <2>1, NextAdvances
<1> QED
    BY <1>1, <1>2, <1>3, InitHolds, StepKeeps, PTL DEF Spec, CallsAdvance

-----------------------------------------------------------------------------
(* Misses.                                                                 *)

\* The server that alone answers while nothing is disturbed.
Serving == IF RedisBuild THEN redis ELSE memory

\* What was stored less than a TTL ago is still there, with the time it has left.
Kept(table, ages) ==
    \A k \in Keys : \A v \in Values :
        ages[k][v] \in 0 .. TTL - 1 => table[k].left >= TTL - ages[k][v]

Ages == [Keys -> [Values -> -1 .. TTL]]
RedisSteps == {"read_redis", "read_memory_again", "exists_redis", "write_redis"}

\* Where a call can be in which build, and that what it saw has not gone since.
MissCall(r) ==
    /\ at[r] \in RedisSteps => RedisBuild
    /\ at[r] = "write_memory" /\ undisturbed => ~RedisBuild
    /\ at[r] \in ReadSteps =>
         /\ seen[r] \subseteq Values
         /\ \A v \in seen[r] : age[keys[r][1]][v] >= 0
    /\ at[r] = "read_memory_again" /\ undisturbed =>
         \A v \in seen[r] : age[keys[r][1]][v] = TTL

MissInvariant ==
    /\ DOMAIN seen = Requests
    /\ age \in Ages
    /\ undisturbed => redis_up /\ Kept(Serving, age)
    /\ \A r \in Requests : MissCall(r)
    /\ MissesOnlyWhatExpired

\* Ages only grow, and stop at the TTL.
AgesGoOn ==
    /\ age' \in Ages
    /\ \A k \in Keys : \A v \in Values :
         /\ age[k][v] >= 0 => age'[k][v] >= 0
         /\ age[k][v] = TTL => age'[k][v] = TTL

LEMMA SameAges == age \in Ages /\ age' = age => AgesGoOn
BY DEF AgesGoOn

LEMMA AgeType ==
    ASSUME age \in Ages, NEW k \in Keys, NEW v \in Values
    PROVE  age[k][v] \in -1 .. TTL /\ age[k][v] \in Int
<1>1. age[k][v] \in -1 .. TTL
    BY DEF Ages
<1> QED
    BY <1>1, TTLAssumption

LEMMA BornAges ==
    ASSUME age \in Ages, NEW table
    PROVE  /\ Born(table) \in Ages
           /\ age' = Born(table) => AgesGoOn
<1>1. ASSUME NEW k \in Keys, NEW v \in Values
      PROVE  /\ Born(table)[k][v] \in -1 .. TTL
             /\ age[k][v] >= 0 => Born(table)[k][v] = age[k][v]
    <2>1. Born(table)[k][v] = IF age[k][v] = -1 /\ table[k] = Fresh(v) THEN 0 ELSE age[k][v]
        BY DEF Born
    <2> QED
        BY <2>1, AgeType, TTLAssumption
<1>2. Born(table) \in Ages
    <2>1. ASSUME NEW k \in Keys
          PROVE  Born(table)[k] \in [Values -> -1 .. TTL]
        <3>1. Born(table)[k] = [v \in Values |->
                IF age[k][v] = -1 /\ table[k] = Fresh(v) THEN 0 ELSE age[k][v]]
            BY DEF Born
        <3>2. \A v \in Values :
                (IF age[k][v] = -1 /\ table[k] = Fresh(v) THEN 0 ELSE age[k][v]) \in -1 .. TTL
            BY AgeType, TTLAssumption
        <3> QED
            BY <3>1, <3>2
    <2> QED
        BY <2>1 DEF Born, Ages
<1> QED
    BY <1>1, <1>2, AgeType, TTLAssumption DEF AgesGoOn

\* A table in which no entry has less time left keeps what it kept, and what is
\* stored in it for the first time.
Grown(old, table) == \A k \in Keys : table[k].left >= old[k].left

LEMMA GrownKeeps ==
    ASSUME age \in Ages, NEW old \in [Keys -> Entry], NEW table \in [Keys -> Entry],
           Kept(old, age), Grown(old, table)
    PROVE  Kept(table, age) /\ Kept(table, Born(table))
<1>1. ASSUME NEW k \in Keys, NEW v \in Values
      PROVE  /\ age[k][v] \in 0 .. TTL - 1 => table[k].left >= TTL - age[k][v]
             /\ Born(table)[k][v] \in 0 .. TTL - 1 => table[k].left >= TTL - Born(table)[k][v]
    <2>1. /\ old[k].left \in Int /\ table[k].left \in Int /\ TTL \in Int
          /\ table[k].left >= old[k].left
        BY TTLAssumption DEF Entry, Grown
    <2>2. age[k][v] \in 0 .. TTL - 1 => table[k].left >= TTL - age[k][v]
        <3>1. age[k][v] \in 0 .. TTL - 1 => old[k].left >= TTL - age[k][v]
            BY DEF Kept
        <3> QED
            BY <2>1, <3>1, AgeType
    <2>3. CASE age[k][v] = -1 /\ table[k] = Fresh(v)
        <3>1. Born(table)[k][v] = 0 /\ table[k].left = TTL
            BY <2>3 DEF Born, Fresh
        <3> QED
            BY <2>1, <2>2, <3>1
    <2>4. CASE ~(age[k][v] = -1 /\ table[k] = Fresh(v))
        BY <2>2, <2>4 DEF Born
    <2> QED
        BY <2>3, <2>4
<1> QED
    BY <1>1 DEF Kept

LEMMA AfterSetsGrows ==
    ASSUME RightTable(redis), NEW cmds, RightCommands(cmds)
    PROVE  AfterSets(cmds) \in [Keys -> Entry] /\ Grown(redis, AfterSets(cmds))
<1>1. AfterSets(cmds) \in [Keys -> Entry]
    BY AfterSetsIsRight DEF RightTable
<1>2. ASSUME NEW k \in Keys
      PROVE  AfterSets(cmds)[k].left >= redis[k].left
    <2>1. redis[k].left \in 0 .. TTL
        BY DEF RightTable, Entry
    <2>2. AfterSets(cmds)[k] = redis[k] \/ AfterSets(cmds)[k].left = TTL
        BY DEF AfterSets, Fresh
    <2> QED
        BY <2>1, <2>2, TTLAssumption
<1> QED
    BY <1>1, <1>2 DEF Grown

LEMMA FreshGrows ==
    ASSUME RightTable(memory), NEW k \in Keys, NEW v \in Values, NEW table,
           table = [memory EXCEPT ![k] = Fresh(v)]
    PROVE  table \in [Keys -> Entry] /\ Grown(memory, table)
<1>1. memory \in [Keys -> Entry] /\ Fresh(v) \in Entry /\ Fresh(v).left = TTL
    BY FreshType DEF RightTable, Fresh
<1> HIDE DEF Fresh
<1>2. \A x \in Keys : memory[x].left \in 0 .. TTL
    BY <1>1 DEF Entry
<1> QED
    BY <1>1, <1>2, TTLAssumption DEF Grown

\* What has gone from the serving table is as old as the TTL.
LEMMA GoneIsExpired ==
    ASSUME age \in Ages, NEW k \in Keys, NEW v \in Values, NEW table \in [Keys -> Entry],
           Kept(table, age), ~Live(table, k), age[k][v] >= 0
    PROVE  age[k][v] = TTL
<1>1. table[k].left \in 0 .. TTL /\ ~(table[k].left > 0)
    BY DEF Entry, Live
<1>2. age[k][v] \in 0 .. TTL - 1 => table[k].left >= TTL - age[k][v]
    BY DEF Kept
<1> QED
    BY <1>1, <1>2, AgeType, TTLAssumption

\* A reply that is no miss says nothing.
LEMMA NoMiss ==
    ASSUME NEW r, \/ reply' = NoReply \/ reply' = Answered(r, "ok")
                  \/ \E v : reply' = Hit(r, v)
                  \/ \E bools : reply' = Flags(r, bools)
    PROVE  MissesOnlyWhatExpired'
<1>1. /\ NoReply.kind = "none"
      /\ \A kind : Answered(r, kind).kind = kind
    BY DEF NoReply, Answered
<1>2. /\ \A v : Hit(r, v).kind = "hit"
      /\ \A bools : Flags(r, bools).kind = "flags"
    BY DEF NoReply, Answered, Hit, Flags
<1>3. reply'.kind # "miss"
    BY <1>1, <1>2
<1> QED
    BY <1>3 DEF MissesOnlyWhatExpired

\* A miss of what has expired.
LEMMA RightMiss ==
    ASSUME NEW r \in Requests, reply' = Answered(r, "miss"), age' = age,
           undisturbed' => \A v \in seen[r] : age[keys[r][1]][v] = TTL
    PROVE  MissesOnlyWhatExpired'
<1>1. reply'.keys = keys[r] /\ reply'.seen = seen[r]
    BY DEF NoReply, Answered
<1> QED
    BY <1>1 DEF MissesOnlyWhatExpired

OtherSeen(r) ==
    DOMAIN seen' = Requests /\ \A s \in Requests \ {r} : seen'[s] = seen[s]

\* A step of one call: what the others saw stays.
LEMMA CallKeepsMisses ==
    ASSUME CacheInvariant, MissInvariant, NEW r \in Requests, Others(r), OtherSeen(r),
           build' = build, redis_up' = redis_up, undisturbed' = undisturbed,
           AgesGoOn, undisturbed => Kept(Serving', age'),
           MissCall(r)', MissesOnlyWhatExpired'
    PROVE  MissInvariant'
<1>1. ASSUME NEW s \in Requests
      PROVE  MissCall(s)'
    <2>1. CASE s = r
        BY <2>1
    <2>2. CASE s # r
        <3>1. at'[s] = at[s] /\ keys'[s] = keys[s] /\ seen'[s] = seen[s]
            BY <2>2 DEF Others, OtherSeen
        <3>2. MissCall(s) /\ (at[s] \in ReadSteps => keys[s][1] \in Keys)
            BY DEF CacheInvariant, MissInvariant, RightCall
        <3> QED
            BY <3>1, <3>2 DEF MissCall, AgesGoOn, RedisBuild, ReadSteps
    <2> QED
        BY <2>1, <2>2
<1> QED
    BY <1>1 DEF MissInvariant, AgesGoOn, OtherSeen, Kept, Ages

\* A call that returns, or begins to wait for another step.
LEMMA ReturnMisses ==
    ASSUME Shapes, MissInvariant, NEW r \in Requests, NEW answer, Return(r, answer)
    PROVE  OtherSeen(r) /\ MissCall(r)'
<1>1. at'[r] = "idle" /\ OtherSeen(r)
    BY DEF Return, Shapes, MissInvariant, OtherSeen
<1> QED
    BY <1>1 DEF MissCall, ReadSteps, RedisSteps

LEMMA SameSeen ==
    ASSUME MissInvariant, NEW r, seen' = seen
    PROVE  OtherSeen(r)
BY DEF MissInvariant, OtherSeen

\* A step that leaves the tables, or only adds to the one in memory.
LEMMA StillKept ==
    ASSUME CacheInvariant, MissInvariant, build' = build, redis' = redis, age' = age,
           undisturbed,
           \/ memory' = memory
           \/ memory' \in [Keys -> Entry] /\ Grown(memory, memory')
    PROVE  Kept(Serving', age')
<1>1. age \in Ages /\ Kept(Serving, age) /\ RightTable(memory)
    BY DEF CacheInvariant, MissInvariant
<1>2. CASE RedisBuild \/ memory' = memory
    <2>1. Serving' = Serving
        BY <1>2 DEF Serving, RedisBuild
    <2> QED
        BY <1>1, <2>1
<1>3. CASE ~RedisBuild /\ memory' # memory
    <2>1. Serving = memory /\ Serving' = memory' /\ memory \in [Keys -> Entry]
        BY <1>1, <1>3 DEF Serving, RedisBuild, RightTable
    <2> QED
        BY <1>1, <1>3, <2>1, GrownKeeps
<1> QED
    BY <1>2, <1>3

LEMMA ReadMemoryMisses ==
    ASSUME CacheInvariant, MissInvariant, NEW r \in Requests, ReadMemory(r)
    PROVE  MissInvariant'
<1> DEFINE k == keys[r][1]
<1>1. /\ Shapes /\ RightCall(r) /\ MissCall(r) /\ k \in Keys /\ RightTable(memory)
      /\ redis' = redis /\ memory' = memory /\ age' = age /\ build' = build
      /\ redis_up' = redis_up /\ undisturbed' = undisturbed /\ brought' = brought
      /\ age \in Ages /\ at[r] \in ReadSteps
    BY DEF CacheInvariant, MissInvariant, ReadMemory, servers, history, RightCall, ReadSteps
<1>2. AgesGoOn /\ (undisturbed => Kept(Serving', age'))
    BY <1>1, SameAges, StillKept
<1>3. CASE Live(memory, k)
    <2>1. Return(r, Hit(r, memory[k].value))
        BY <1>3 DEF ReadMemory
    <2>2. Others(r) /\ OtherSeen(r) /\ MissCall(r)' /\ reply' = Hit(r, memory[k].value)
        BY <1>1, <2>1, ReturnKeeps, ReturnMisses
    <2>3. MissesOnlyWhatExpired'
        BY <2>2, NoMiss
    <2> QED
        BY <1>1, <1>2, <2>2, <2>3, CallKeepsMisses
<1>4. CASE ~Live(memory, k) /\ RedisBuild /\ at[r] = "read_memory"
    <2>1. Go(r, "read_redis")
        BY <1>4 DEF ReadMemory
    <2>2. /\ Others(r) /\ reply' = NoReply /\ at'[r] = "read_redis"
          /\ keys' = keys /\ seen' = seen
        BY <1>1, <2>1, GoKeeps DEF Go
    <2>3. OtherSeen(r) /\ MissesOnlyWhatExpired'
        BY <2>2, SameSeen, NoMiss
    <2>4. MissCall(r)'
        BY <1>1, <1>4, <2>2 DEF MissCall, RedisBuild, ReadSteps
    <2> QED
        BY <1>1, <1>2, <2>2, <2>3, <2>4, CallKeepsMisses
<1>5. CASE ~Live(memory, k) /\ ~(RedisBuild /\ at[r] = "read_memory")
    <2>1. Return(r, Answered(r, "miss"))
        BY <1>5 DEF ReadMemory
    <2>2. Others(r) /\ OtherSeen(r) /\ MissCall(r)' /\ reply' = Answered(r, "miss")
        BY <1>1, <2>1, ReturnKeeps, ReturnMisses
    <2>3. ASSUME undisturbed, NEW v \in seen[r]
          PROVE  age[k][v] = TTL
        <3>1. CASE at[r] = "read_memory_again"
            BY <1>1, <2>3, <3>1 DEF MissCall
        <3>2. CASE at[r] # "read_memory_again"
            <4>1. ~RedisBuild /\ Serving = memory /\ memory \in [Keys -> Entry]
                BY <1>1, <1>5, <3>2 DEF ReadMemory, Serving, RightTable
            <4>2. Kept(memory, age)
                BY <2>3, <4>1 DEF MissInvariant
            <4>3. v \in Values /\ age[k][v] >= 0
                BY <1>1 DEF MissCall
            <4> QED
                BY <1>1, <1>5, <4>1, <4>2, <4>3, GoneIsExpired
        <3> QED
            BY <3>1, <3>2
    <2>4. MissesOnlyWhatExpired'
        BY <1>1, <2>2, <2>3, RightMiss
    <2> QED
        BY <1>1, <1>2, <2>2, <2>4, CallKeepsMisses
<1> QED
    BY <1>3, <1>4, <1>5

LEMMA ReadRedisMisses ==
    ASSUME CacheInvariant, MissInvariant, NEW r \in Requests, ReadRedis(r)
    PROVE  MissInvariant'
<1> DEFINE k == keys[r][1]
<1>1. /\ Shapes /\ RightCall(r) /\ MissCall(r) /\ k \in Keys /\ RightTable(redis)
      /\ redis' = redis /\ memory' = memory /\ age' = age /\ build' = build
      /\ redis_up' = redis_up /\ undisturbed' = undisturbed /\ brought' = brought
      /\ age \in Ages /\ at[r] = "read_redis" /\ at[r] \in ReadSteps /\ RedisBuild
    BY DEF CacheInvariant, MissInvariant, ReadRedis, servers, history, RightCall, ReadSteps,
           MissCall, RedisSteps
<1>2. AgesGoOn /\ (undisturbed => Kept(Serving', age'))
    BY <1>1, SameAges, StillKept
<1>3. ASSUME ~(redis_up /\ Live(redis, k)), undisturbed, NEW v \in seen[r]
      PROVE  age[k][v] = TTL
    <2>1. redis_up /\ Kept(redis, age) /\ ~Live(redis, k) /\ redis \in [Keys -> Entry]
        BY <1>1, <1>3 DEF MissInvariant, Serving, RightTable
    <2>2. v \in Values /\ age[k][v] >= 0
        BY <1>1 DEF MissCall
    <2> QED
        BY <1>1, <2>1, <2>2, GoneIsExpired
<1>4. CASE redis_up /\ Live(redis, k)
    <2>1. /\ at' = [at EXCEPT ![r] = "populate_memory"]
          /\ value' = [value EXCEPT ![r] = redis[k].value]
          /\ keys' = keys /\ commands' = commands /\ reply' = NoReply /\ seen' = seen
        BY <1>4 DEF ReadRedis, Silent
    <2>2. Others(r) /\ at'[r] = "populate_memory" /\ OtherSeen(r)
        BY <1>1, <2>1, SameSeen DEF Others, Shapes
    <2>3. MissCall(r)' /\ MissesOnlyWhatExpired'
        BY <1>1, <2>1, <2>2, NoMiss DEF MissCall, RedisSteps, ReadSteps
    <2> QED
        BY <1>1, <1>2, <2>2, <2>3, CallKeepsMisses
<1>5. CASE ~(redis_up /\ Live(redis, k))
    <2>1. Go(r, "read_memory_again")
        BY <1>5 DEF ReadRedis
    <2>2. /\ Others(r) /\ reply' = NoReply /\ at'[r] = "read_memory_again"
          /\ keys' = keys /\ seen' = seen
        BY <1>1, <2>1, GoKeeps DEF Go
    <2>3. OtherSeen(r) /\ MissesOnlyWhatExpired'
        BY <2>2, SameSeen, NoMiss
    <2>4. MissCall(r)'
        BY <1>1, <1>3, <1>5, <2>2 DEF MissCall, RedisBuild, ReadSteps
    <2> QED
        BY <1>1, <1>2, <2>2, <2>3, <2>4, CallKeepsMisses
<1> QED
    BY <1>4, <1>5

LEMMA PopulateMemoryMisses ==
    ASSUME CacheInvariant, MissInvariant, NEW r \in Requests, PopulateMemory(r)
    PROVE  MissInvariant'
<1> DEFINE k == keys[r][1]
<1>1. /\ Shapes /\ RightCall(r) /\ RightTable(memory) /\ k \in Keys /\ Belongs(k, value[r])
      /\ redis' = redis /\ age' = age /\ build' = build /\ brought' = brought
      /\ redis_up' = redis_up /\ undisturbed' = undisturbed /\ age \in Ages
      /\ memory' = [memory EXCEPT ![k] = Fresh(value[r])]
      /\ Return(r, Hit(r, value[r]))
    BY DEF CacheInvariant, MissInvariant, PopulateMemory, history, RightCall, ReadSteps
<1>2. memory' \in [Keys -> Entry] /\ Grown(memory, memory')
    BY <1>1, FreshGrows DEF Belongs
<1>3. AgesGoOn /\ (undisturbed => Kept(Serving', age'))
    BY <1>1, <1>2, SameAges, StillKept
<1>4. Others(r) /\ OtherSeen(r) /\ MissCall(r)' /\ MissesOnlyWhatExpired'
    BY <1>1, ReturnKeeps, ReturnMisses, NoMiss
<1> QED
    BY <1>1, <1>3, <1>4, CallKeepsMisses

\* What a call that begins to read sees is what has been stored by then.
LEMMA BeginMisses ==
    ASSUME CacheInvariant, MissInvariant, NEW r \in Requests, BeginCall(r)
    PROVE  MissInvariant'
<1>1. PICK step, ks, v, cmds, stored :
        /\ Call(r, step, ks, v, cmds, stored)
        /\ \/ step = "read_memory" /\ ks[1] \in Keys
              /\ stored = {x \in Values : age[ks[1]][x] >= 0}
           \/ step \in {RedisOr("exists_redis", "exists_memory"),
                        RedisOr("write_redis", "write_memory")}
    <2>1. CASE BeginRead(r)
        <3>1. PICK k \in Keys :
                Call(r, "read_memory", <<k>>, 0, <<>>, {v \in Values : age[k][v] >= 0})
            BY <2>1 DEF BeginRead
        <3>2. <<k>>[1] = k
            OBVIOUS
        <3> QED
            BY <3>1, <3>2
    <2>2. CASE BeginExists(r)
        BY <2>2 DEF BeginExists
    <2>3. CASE BeginWrite(r)
        BY <2>3 DEF BeginWrite
    <2> QED
        BY <2>1, <2>2, <2>3 DEF BeginCall
<1>2. /\ Shapes /\ age \in Ages /\ age' = age /\ redis' = redis /\ memory' = memory
      /\ build' = build /\ redis_up' = redis_up /\ undisturbed' = undisturbed
    BY DEF CacheInvariant, MissInvariant, BeginCall, BeginRead, BeginExists, BeginWrite,
           servers, history
<1>3. AgesGoOn /\ (undisturbed => Kept(Serving', age'))
    BY <1>2, SameAges, StillKept
<1>4. /\ Others(r) /\ OtherSeen(r) /\ reply' = NoReply
      /\ at'[r] = step /\ keys'[r] = ks /\ seen'[r] = stored
    BY <1>1, <1>2 DEF Call, Silent, Others, Shapes, MissInvariant, OtherSeen
<1>5. MissCall(r)'
    BY <1>1, <1>2, <1>4
       DEF MissCall, RedisSteps, ReadSteps, RedisBuild, RedisOr
<1>6. MissesOnlyWhatExpired'
    BY <1>4, NoMiss
<1> QED
    BY <1>2, <1>3, <1>4, <1>5, <1>6, CallKeepsMisses

\* The commands that are run in redis leave what it kept.
LEMMA SetsKeep ==
    ASSUME CacheInvariant, MissInvariant, NEW cmds, RightCommands(cmds), RedisBuild,
           build' = build,
           \/ redis' = AfterSets(cmds) /\ age' = Born(redis')
           \/ redis' = redis /\ age' = age
    PROVE  AgesGoOn /\ (undisturbed => Kept(Serving', age'))
<1>1. age \in Ages /\ (undisturbed => Kept(redis, age)) /\ RightTable(redis)
    BY DEF CacheInvariant, MissInvariant, Serving
<1>2. Serving' = redis'
    BY DEF Serving, RedisBuild
<1>3. CASE redis' = AfterSets(cmds) /\ age' = Born(redis')
    <2>1. redis' \in [Keys -> Entry] /\ Grown(redis, redis')
        BY <1>1, <1>3, AfterSetsGrows
    <2>2. redis \in [Keys -> Entry]
        BY <1>1 DEF RightTable
    <2>3. undisturbed => Kept(redis', age')
        BY <1>1, <1>3, <2>1, <2>2, GrownKeeps
    <2> QED
        BY <1>1, <1>2, <1>3, <2>3, BornAges
<1>4. CASE redis' = redis /\ age' = age
    BY <1>1, <1>2, <1>4, SameAges
<1> QED
    BY <1>3, <1>4

LEMMA ExistsRedisMisses ==
    ASSUME CacheInvariant, MissInvariant, NEW r \in Requests, ExistsRedis(r)
    PROVE  MissInvariant'
<1>1. /\ Shapes /\ MissCall(r) /\ RightCommands(commands[r]) /\ RedisBuild
      /\ build' = build /\ redis_up' = redis_up /\ undisturbed' = undisturbed
      /\ brought' = brought
    BY DEF CacheInvariant, MissInvariant, RightCall, ExistsRedis, MissCall, RedisSteps
<1>2. AgesGoOn /\ (undisturbed => Kept(Serving', age'))
    <2>1. \/ redis' = AfterSets(commands[r]) /\ age' = Born(redis')
          \/ redis' = redis /\ age' = age
        BY DEF ExistsRedis
    <2> QED
        BY <1>1, <2>1, SetsKeep
<1>3. CASE Go(r, "exists_memory")
    <2>1. Others(r) /\ reply' = NoReply /\ at'[r] = "exists_memory" /\ seen' = seen
        BY <1>1, <1>3, GoKeeps DEF Go
    <2>2. OtherSeen(r) /\ MissesOnlyWhatExpired'
        BY <2>1, SameSeen, NoMiss
    <2>3. MissCall(r)'
        BY <2>1 DEF MissCall, RedisSteps, ReadSteps
    <2> QED
        BY <1>1, <1>2, <2>1, <2>2, <2>3, CallKeepsMisses
<1>4. CASE \E bools : Return(r, Flags(r, bools))
    <2>1. PICK bools : Return(r, Flags(r, bools))
        BY <1>4
    <2>2. Others(r) /\ OtherSeen(r) /\ MissCall(r)' /\ reply' = Flags(r, bools)
        BY <1>1, <2>1, ReturnKeeps, ReturnMisses
    <2>3. MissesOnlyWhatExpired'
        BY <2>2, NoMiss
    <2> QED
        BY <1>1, <1>2, <2>2, <2>3, CallKeepsMisses
<1> QED
    BY <1>3, <1>4 DEF ExistsRedis

LEMMA ExistsMemoryMisses ==
    ASSUME CacheInvariant, MissInvariant, NEW r \in Requests, ExistsMemory(r)
    PROVE  MissInvariant'
<1>1. /\ Shapes /\ age \in Ages /\ age' = age /\ redis' = redis /\ memory' = memory
      /\ build' = build /\ redis_up' = redis_up /\ undisturbed' = undisturbed
      /\ brought' = brought /\ Return(r, Flags(r, ExistsFlags(memory, keys[r])))
    BY DEF CacheInvariant, MissInvariant, ExistsMemory, servers, history
<1>2. AgesGoOn /\ (undisturbed => Kept(Serving', age'))
    BY <1>1, SameAges, StillKept
<1>3. Others(r) /\ OtherSeen(r) /\ MissCall(r)' /\ MissesOnlyWhatExpired'
    BY <1>1, ReturnKeeps, ReturnMisses, NoMiss
<1> QED
    BY <1>1, <1>2, <1>3, CallKeepsMisses

LEMMA StoreBackMisses ==
    ASSUME CacheInvariant, MissInvariant, NEW r \in Requests, StoreBack(r)
    PROVE  MissInvariant'
<1>1. /\ Shapes /\ age \in Ages /\ age' = age /\ redis' = redis /\ memory' = memory
      /\ build' = build /\ redis_up' = redis_up /\ undisturbed' = undisturbed
      /\ brought' = brought /\ Return(r, Answered(r, "ok"))
    BY DEF CacheInvariant, MissInvariant, StoreBack, servers, history
<1>2. AgesGoOn /\ (undisturbed => Kept(Serving', age'))
    BY <1>1, SameAges, StillKept
<1>3. Others(r) /\ OtherSeen(r) /\ MissCall(r)' /\ MissesOnlyWhatExpired'
    BY <1>1, ReturnKeeps, ReturnMisses, NoMiss
<1> QED
    BY <1>1, <1>2, <1>3, CallKeepsMisses

\* The commands a write runs, as WriteRedisKeeps has shown, are right.
LEMMA WrittenCommands ==
    ASSUME CacheInvariant, NEW r \in Requests, at[r] \in WriteSteps
    PROVE  RightCommands(commands[r] \o NewCommands(r))
<1>1. /\ RightCommands(commands[r]) /\ keys[r] \in Seq(Keys)
      /\ \A i \in DOMAIN keys[r] : Belongs(keys[r][i], value[r])
    BY DEF CacheInvariant, RightCall
<1>2. CASE keys[r] = <<>>
    <2>1. NewCommands(r) = <<>>
        BY <1>2 DEF NewCommands
    <2>2. commands[r] \o NewCommands(r) = commands[r]
        BY <1>1, <2>1 DEF RightCommands
    <2> QED
        BY <1>1, <2>2
<1>3. CASE keys[r] # <<>>
    <2>1. 1 \in DOMAIN keys[r]
        BY <1>1, <1>3
    <2>2. value[r] \in Values
        BY <1>1, <2>1 DEF Belongs
    <2> QED
        BY <1>1, <2>2, AppendedCommands DEF NewCommands
<1> QED
    BY <1>2, <1>3

LEMMA WriteRedisMisses ==
    ASSUME CacheInvariant, MissInvariant, NEW r \in Requests, WriteRedis(r)
    PROVE  MissInvariant'
<1> DEFINE cmds == commands[r] \o NewCommands(r)
<1>1. /\ Shapes /\ MissCall(r) /\ RightCommands(cmds) /\ RedisBuild
      /\ build' = build /\ redis_up' = redis_up /\ undisturbed' = undisturbed
      /\ brought' = brought
    BY WrittenCommands
       DEF CacheInvariant, MissInvariant, WriteRedis, MissCall, RedisSteps, WriteSteps
<1> HIDE DEF cmds
<1>2. AgesGoOn /\ (undisturbed => Kept(Serving', age'))
    <2>1. \/ redis' = AfterSets(cmds) /\ age' = Born(redis')
          \/ redis' = redis /\ age' = age
        BY DEF WriteRedis, cmds
    <2> QED
        BY <1>1, <2>1, SetsKeep
<1>3. /\ \/ at' = [at EXCEPT ![r] = "store_back"]
         \/ at' = [at EXCEPT ![r] = "write_memory"] /\ ~redis_up
      /\ commands' = [commands EXCEPT ![r] = cmds]
      /\ reply' = NoReply /\ keys' = keys /\ value' = value /\ seen' = seen
    BY DEF WriteRedis, Silent, cmds
<1>4. /\ Others(r) /\ OtherSeen(r)
      /\ at'[r] = "store_back" \/ (at'[r] = "write_memory" /\ ~redis_up)
    BY <1>1, <1>3, SameSeen DEF Others, Shapes
<1>5. ~redis_up => ~undisturbed
    BY DEF MissInvariant
<1>6. MissCall(r)'
    BY <1>1, <1>4, <1>5 DEF MissCall, RedisSteps, ReadSteps
<1>7. MissesOnlyWhatExpired'
    BY <1>3, NoMiss
<1> QED
    BY <1>1, <1>2, <1>4, <1>6, <1>7, CallKeepsMisses

LEMMA WriteMemoryMisses ==
    ASSUME CacheInvariant, MissInvariant, NEW r \in Requests, WriteMemory(r)
    PROVE  MissInvariant'
<1>1. /\ Shapes /\ MissCall(r) /\ RightTable(memory) /\ age \in Ages
      /\ at[r] = "write_memory" /\ keys[r] \in Seq(Keys)
      /\ \A i \in DOMAIN keys[r] : Belongs(keys[r][i], value[r])
      /\ redis' = redis /\ build' = build /\ redis_up' = redis_up
      /\ undisturbed' = undisturbed /\ brought' = brought
    BY DEF CacheInvariant, MissInvariant, WriteMemory, RightCall, WriteSteps
<1>2. CASE keys[r] = <<>>
    <2>1. Go(r, "store_back") /\ memory' = memory /\ age' = age
        BY <1>2 DEF WriteMemory
    <2>2. AgesGoOn /\ (undisturbed => Kept(Serving', age'))
        BY <1>1, <2>1, SameAges, StillKept
    <2>3. Others(r) /\ reply' = NoReply /\ at'[r] = "store_back" /\ seen' = seen
        BY <1>1, <2>1, GoKeeps DEF Go
    <2>4. OtherSeen(r) /\ MissesOnlyWhatExpired'
        BY <2>3, SameSeen, NoMiss
    <2>5. MissCall(r)'
        BY <2>3 DEF MissCall, RedisSteps, ReadSteps
    <2> QED
        BY <1>1, <2>2, <2>3, <2>4, <2>5, CallKeepsMisses
<1>3. CASE keys[r] # <<>>
    <2>1. PICK i \in DOMAIN keys[r] :
            /\ memory' = [memory EXCEPT ![keys[r][i]] = Fresh(value[r])]
            /\ age' = Born(memory')
            /\ keys' = [keys EXCEPT ![r] = [j \in 1 .. Len(keys[r]) - 1 |->
                            IF j < i THEN keys[r][j] ELSE keys[r][j + 1]]]
            /\ reply' = NoReply /\ at' = at /\ value' = value /\ commands' = commands
            /\ seen' = seen
        BY <1>3 DEF WriteMemory, Silent
    <2>2. keys[r][i] \in Keys /\ value[r] \in Values
        BY <1>1, ElementType DEF Belongs
    <2>3. memory' \in [Keys -> Entry] /\ Grown(memory, memory')
        BY <1>1, <2>1, <2>2, FreshGrows
    <2>4. undisturbed => Kept(Serving', age')
        <3>1. undisturbed => Serving = memory /\ Serving' = memory' /\ Kept(memory, age)
            BY <1>1 DEF MissCall, MissInvariant, Serving, RedisBuild
        <3>2. memory \in [Keys -> Entry]
            BY <1>1 DEF RightTable
        <3>3. undisturbed => Kept(memory', Born(memory'))
            BY <1>1, <2>3, <3>1, <3>2, GrownKeeps
        <3> QED
            BY <2>1, <3>1, <3>3
    <2>5. AgesGoOn
        BY <1>1, <2>1, BornAges
    <2>6. Others(r) /\ OtherSeen(r)
        BY <1>1, <2>1, SameSeen DEF Others, Shapes
    <2>7. MissCall(r)' /\ MissesOnlyWhatExpired'
        BY <1>1, <2>1, NoMiss DEF MissCall, RedisSteps, ReadSteps, RedisBuild
    <2> QED
        BY <1>1, <2>4, <2>5, <2>6, <2>7, CallKeepsMisses
<1> QED
    BY <1>2, <1>3

\* What a second does to the ages.
Aged == [k \in Keys |-> [v \in Values |->
            IF age[k][v] \in 0 .. TTL - 1 THEN age[k][v] + 1 ELSE age[k][v]]]

LEMMA AgedValue ==
    ASSUME age \in Ages, NEW k \in Keys, NEW v \in Values
    PROVE  /\ Aged[k][v] = IF age[k][v] \in 0 .. TTL - 1 THEN age[k][v] + 1 ELSE age[k][v]
           /\ Aged[k][v] \in -1 .. TTL
           /\ age[k][v] >= 0 => Aged[k][v] >= 0
           /\ age[k][v] = TTL => Aged[k][v] = TTL
<1>1. Aged[k][v] = IF age[k][v] \in 0 .. TTL - 1 THEN age[k][v] + 1 ELSE age[k][v]
    BY DEF Aged
<1> QED
    BY <1>1, AgeType, TTLAssumption

LEMMA AgedGoesOn == age \in Ages /\ age' = Aged => AgesGoOn
<1> SUFFICES ASSUME age \in Ages, age' = Aged
             PROVE  AgesGoOn
    OBVIOUS
<1>1. ASSUME NEW k \in Keys
      PROVE  Aged[k] \in [Values -> -1 .. TTL]
    <2>1. Aged[k] = [v \in Values |-> Aged[k][v]]
        BY DEF Aged
    <2> QED
        BY <2>1, AgedValue
<1>2. Aged = [k \in Keys |-> Aged[k]]
    BY DEF Aged
<1>3. Aged \in Ages
    BY <1>1, <1>2 DEF Ages
<1> QED
    BY <1>3, AgedValue DEF AgesGoOn

\* A second more on every age is a second less of every entry.
LEMMA OlderKeeps ==
    ASSUME age \in Ages, NEW table \in [Keys -> Entry], Kept(table, age)
    PROVE  Kept(Older(table), Aged)
<1>1. ASSUME NEW k \in Keys, NEW v \in Values, Aged[k][v] \in 0 .. TTL - 1
      PROVE  Older(table)[k].left >= TTL - Aged[k][v]
    <2>1. age[k][v] \in 0 .. TTL - 1 /\ Aged[k][v] = age[k][v] + 1
        BY <1>1, AgedValue, AgeType, TTLAssumption
    <2>2. table[k].left >= TTL - age[k][v]
        BY <2>1 DEF Kept
    <2>3. table[k].left \in 0 .. TTL /\ age[k][v] \in Int
        BY <2>1 DEF Entry
    <2>4. ~(table[k].left <= 1) /\ table[k].left - 1 >= TTL - Aged[k][v]
        BY <1>1, <2>1, <2>2, <2>3, TTLAssumption
    <2>5. Older(table)[k].left = table[k].left - 1
        <3>1. Older(table)[k] = [table[k] EXCEPT !.left = table[k].left - 1]
            BY <2>4 DEF Older
        <3>2. table[k] \in Entry
            OBVIOUS
        <3> QED
            BY <3>1, <3>2 DEF Entry
    <2> QED
        BY <2>4, <2>5
<1> QED
    BY <1>1 DEF Kept

\* A step of the environment: a disturbance, or one that leaves the calls alone.
LEMMA EnvironmentMisses ==
    ASSUME CacheInvariant, MissInvariant, build' = build, reply' = NoReply, AgesGoOn,
           DOMAIN seen' = Requests,
           \/ ~undisturbed'
           \/ undisturbed /\ redis_up' /\ Kept(Serving', age'),
           \/ UNCHANGED <<at, keys, seen>> /\ (undisturbed' => undisturbed)
           \/ at' = [r \in Requests |-> "idle"]
    PROVE  MissInvariant'
<1>1. ASSUME NEW r \in Requests
      PROVE  MissCall(r)'
    <2>1. CASE UNCHANGED <<at, keys, seen>> /\ (undisturbed' => undisturbed)
        <3>1. MissCall(r) /\ (at[r] \in ReadSteps => keys[r][1] \in Keys)
            BY DEF CacheInvariant, MissInvariant, RightCall
        <3> QED
            BY <2>1, <3>1 DEF MissCall, AgesGoOn, RedisBuild, ReadSteps
    <2>2. CASE at'[r] = "idle"
        BY <2>2 DEF MissCall, RedisSteps, ReadSteps
    <2> QED
        BY <2>1, <2>2
<1>2. MissesOnlyWhatExpired'
    BY NoMiss
<1> QED
    BY <1>1, <1>2 DEF MissInvariant, AgesGoOn, Kept, Ages

LEMMA TickMisses == CacheInvariant /\ MissInvariant /\ Tick => MissInvariant'
<1> SUFFICES ASSUME CacheInvariant, MissInvariant, Tick
             PROVE  MissInvariant'
    OBVIOUS
<1>1. /\ redis' = Older(redis) /\ memory' = Older(memory) /\ build' = build
      /\ redis_up' = redis_up /\ undisturbed' = undisturbed /\ reply' = NoReply
      /\ UNCHANGED <<at, keys, seen>> /\ DOMAIN seen' = Requests /\ age \in Ages
      /\ age' = Aged
    BY DEF MissInvariant, Tick, Silent, calls, Aged
<1>2. Serving \in [Keys -> Entry] /\ Serving' = Older(Serving)
    BY <1>1 DEF CacheInvariant, RightTable, Serving, RedisBuild
<1>3. undisturbed => redis_up /\ Kept(Serving', age')
    BY <1>1, <1>2, OlderKeeps DEF MissInvariant
<1>4. AgesGoOn
    BY <1>1, AgedGoesOn
<1> QED
    BY <1>1, <1>3, <1>4, EnvironmentMisses

LEMMA FailureMisses ==
    CacheInvariant /\ MissInvariant /\ (RedisFails \/ RedisRecovers) => MissInvariant'
<1> SUFFICES ASSUME CacheInvariant, MissInvariant, RedisFails \/ RedisRecovers
             PROVE  MissInvariant'
    OBVIOUS
<1>1. /\ build' = build /\ reply' = NoReply /\ age' = age /\ age \in Ages
      /\ UNCHANGED <<at, keys, seen>> /\ DOMAIN seen' = Requests
      /\ ~undisturbed' /\ (undisturbed' => undisturbed)
    BY DEF MissInvariant, RedisFails, RedisRecovers, Silent, calls, history
<1> QED
    BY <1>1, SameAges, EnvironmentMisses

LEMMA RestartMisses == CacheInvariant /\ MissInvariant /\ Restart => MissInvariant'
<1> SUFFICES ASSUME CacheInvariant, MissInvariant, Restart
             PROVE  MissInvariant'
    OBVIOUS
<1>1. /\ build' = build /\ reply' = NoReply /\ age' = age /\ age \in Ages
      /\ at' = [r \in Requests |-> "idle"] /\ DOMAIN seen' = Requests /\ ~undisturbed'
    BY DEF MissInvariant, Restart
<1> QED
    BY <1>1, SameAges, EnvironmentMisses

LEMMA MissInit == Init => MissInvariant
<1> SUFFICES ASSUME Init
             PROVE  MissInvariant
    OBVIOUS
<1>1. age \in Ages /\ \A k \in Keys : \A v \in Values : age[k][v] = -1
    BY TTLAssumption DEF Init, Ages
<1>2. Kept(Serving, age)
    BY <1>1, TTLAssumption DEF Kept
<1>3. \A r \in Requests : MissCall(r)
    BY DEF Init, MissCall, RedisSteps, ReadSteps
<1>4. MissesOnlyWhatExpired
    BY DEF Init, NoReply, MissesOnlyWhatExpired
<1> QED
    BY <1>1, <1>2, <1>3, <1>4 DEF MissInvariant, Init

LEMMA MissStep == CacheInvariant /\ MissInvariant /\ [Next]_vars => MissInvariant'
<1> SUFFICES ASSUME CacheInvariant, MissInvariant, [Next]_vars
             PROVE  MissInvariant'
    OBVIOUS
<1>1. CASE \E r \in Requests : BeginCall(r)
    BY <1>1, BeginMisses
<1>2. CASE \E r \in Requests : CallStep(r)
    BY <1>2, ReadMemoryMisses, ReadRedisMisses, PopulateMemoryMisses, ExistsRedisMisses,
       ExistsMemoryMisses, WriteRedisMisses, WriteMemoryMisses, StoreBackMisses DEF CallStep
<1>3. CASE Tick \/ RedisFails \/ RedisRecovers \/ Restart
    BY <1>3, TickMisses, FailureMisses, RestartMisses
<1>4. CASE UNCHANGED vars
    BY <1>4
       DEF vars, servers, calls, history, MissInvariant, MissCall, Kept, Serving, Ages,
           RedisBuild, MissesOnlyWhatExpired
<1> QED
    BY <1>1, <1>2, <1>3, <1>4 DEF Next

\* Misses: in both builds, with any requests at the same time and any lists of urls,
\* while redis has not failed and the process has not restarted, cached_results misses
\* only what expired: what had been stored when the call began is as old as the TTL.
THEOREM MissesAreExpired == Spec => []MissesOnlyWhatExpired
<1>1. Init => CacheInvariant /\ MissInvariant
    BY InitHolds, MissInit
<1>2. (CacheInvariant /\ MissInvariant) /\ [Next]_vars => (CacheInvariant /\ MissInvariant)'
    BY StepKeeps, MissStep
<1>3. MissInvariant => MissesOnlyWhatExpired
    BY DEF MissInvariant
<1> QED
    BY <1>1, <1>2, <1>3, PTL DEF Spec

-----------------------------------------------------------------------------
(* Ages, in the in-memory build.                                           *)

\* No call passes a url twice: the route's lists are a page or its neighbours.
DistinctUrls ==
    \A b \in Builds : \A ks \in KeyLists[b] : \A i, j \in DOMAIN ks : ks[i] = ks[j] => i = j

\* What is in the serving table was stored as long ago as its time left tells.
Dated(table, ages) ==
    \A k \in Keys : Live(table, k) =>
        /\ table[k].value \in Values
        /\ ages[k][table[k].value] >= 0
        /\ ages[k][table[k].value] + table[k].left <= TTL

\* What a write has not stored yet, no other will.
Pending(r) ==
    /\ value[r] \in 1 .. written
    /\ \A i, j \in DOMAIN keys[r] : keys[r][i] = keys[r][j] => i = j
    /\ \A i \in DOMAIN keys[r] : age[keys[r][i]][value[r]] = -1
    /\ \A s \in Requests : s # r /\ at[s] \in WriteSteps => value[s] # value[r]

MemorySteps == {"read_memory", "exists_memory", "write_memory"}
HybridSteps == {"read_memory_again", "populate_memory"}
ExistsSteps == {"exists_redis", "exists_memory"}

StoreCall(r) ==
    /\ commands[r] = <<>>
    /\ at[r] \in MemorySteps => ~RedisBuild
    /\ at[r] \notin HybridSteps
    /\ at[r] \in ExistsSteps => keys[r] \in Seq(Keys)
    /\ at[r] \in WriteSteps => Pending(r)

StoreInvariant ==
    /\ ~RedisBuild
    /\ pipeline = <<>>
    /\ \A k \in Keys : \A v \in Values : v > written => age[k][v] = -1
    /\ Dated(Serving, age)
    /\ \A r \in Requests : StoreCall(r)
    /\ FreshHits /\ ExistsAnswersItsKeys

BothInvariants == CacheInvariant /\ MissInvariant

\* An answer without a value or flags says nothing of ages.
LEMMA PlainAnswer ==
    ASSUME NEW r, \/ reply' = NoReply \/ reply' = Answered(r, "miss")
                  \/ reply' = Answered(r, "ok")
    PROVE  FreshHits' /\ ExistsAnswersItsKeys' /\ reply'.kind # "hit"
<1>1. NoReply.kind = "none" /\ \A kind : Answered(r, kind).kind = kind
    BY DEF NoReply, Answered
<1>2. reply'.kind # "hit" /\ reply'.kind # "flags"
    BY <1>1
<1> QED
    BY <1>2 DEF FreshHits, ExistsAnswersItsKeys

LEMMA ServingType ==
    ASSUME CacheInvariant
    PROVE  Serving \in [Keys -> Entry]
BY DEF CacheInvariant, Serving, RightTable

LEMMA EntryType ==
    ASSUME NEW table \in [Keys -> Entry], NEW k \in Keys
    PROVE  /\ table[k].left \in 0 .. TTL /\ table[k].left \in Int
           /\ table[k].value \in 0 .. MaxWrites
<1>1. table[k] \in Entry
    OBVIOUS
<1>2. table[k].left \in 0 .. TTL /\ table[k].value \in 0 .. MaxWrites
    BY <1>1 DEF Entry
<1> QED
    BY <1>2, TTLAssumption

\* A hit in the serving table is younger than the TTL.
LEMMA DatedHit ==
    ASSUME age \in Ages, NEW table \in [Keys -> Entry], Dated(table, age),
           NEW k \in Keys, Live(table, k)
    PROVE  /\ table[k].value \in Values
           /\ age[k][table[k].value] \in 0 .. TTL - 1
<1>1. /\ table[k].value \in Values /\ age[k][table[k].value] >= 0
      /\ age[k][table[k].value] + table[k].left <= TTL
    BY DEF Dated
<1>2. table[k].left \in Int /\ table[k].left > 0
    BY EntryType DEF Live
<1> QED
    BY <1>1, <1>2, AgeType, TTLAssumption

LEMMA FreshHit ==
    ASSUME age \in Ages, NEW table \in [Keys -> Entry], Dated(table, age),
           NEW r, keys[r][1] \in Keys, Live(table, keys[r][1]),
           reply' = Hit(r, table[keys[r][1]].value)
    PROVE  FreshHits' /\ ExistsAnswersItsKeys'
<1> DEFINE k == keys[r][1]
<1>1. age[k][table[k].value] \in 0 .. TTL - 1
    BY DatedHit
<1>2. reply'.kind = "hit" /\ reply'.age = age[k][table[k].value]
    BY DEF Hit, Answered, NoReply
<1>3. age[k][table[k].value] < TTL
    BY <1>1, TTLAssumption
<1> QED
    BY <1>2, <1>3 DEF FreshHits, ExistsAnswersItsKeys

\* The flags are those of the urls, one each.
LEMMA FreshFlags ==
    ASSUME age \in Ages, age' = age, NEW table \in [Keys -> Entry], Dated(table, age),
           NEW r, keys[r] \in Seq(Keys),
           NEW flags, reply' = Flags(r, flags),
           flags = [i \in DOMAIN keys[r] |-> Live(table, keys[r][i])]
    PROVE  FreshHits' /\ ExistsAnswersItsKeys'
<1>1. reply'.kind = "flags" /\ reply'.flags = flags /\ reply'.keys = keys[r]
    BY DEF Flags, Answered, NoReply
<1>2. DOMAIN flags = 1 .. Len(keys[r]) /\ Len(keys[r]) \in Nat
    OBVIOUS
<1>3. Len(flags) = Len(keys[r])
    BY <1>2
<1>4. ASSUME NEW i \in DOMAIN keys[r], flags[i]
      PROVE  \E v \in Values : age'[keys[r][i]][v] \in 0 .. TTL - 1
    <2>1. keys[r][i] \in Keys
        BY ElementType
    <2>2. Live(table, keys[r][i])
        BY <1>4
    <2>3. PICK v \in Values : age[keys[r][i]][v] \in 0 .. TTL - 1
        BY <2>1, <2>2, DatedHit
    <2> QED
        BY <2>3
<1>5. FreshHits'
    BY <1>1 DEF FreshHits
<1>6. ExistsAnswersItsKeys'
    <2>1. Len(reply'.flags) = Len(reply'.keys)
        BY <1>1, <1>3
    <2>2. \A i \in DOMAIN reply'.keys : reply'.flags[i] => RecentlyStored(reply.keys[i])'
        BY <1>1, <1>4 DEF RecentlyStored
    <2> QED
        BY <2>1, <2>2 DEF ExistsAnswersItsKeys
<1> QED
    BY <1>5, <1>6

\* A step of one call: what the others have still to store stays so.
LEMMA CallKeepsStores ==
    ASSUME MissInvariant, StoreInvariant, NEW r \in Requests, Others(r),
           build' = build, pipeline' = <<>>, written' = written,
           \A k \in Keys : \A v \in Values :
              age'[k][v] = age[k][v] \/ (at[r] \in WriteSteps /\ v = value[r]),
           Dated(Serving', age'), CacheInvariant, CacheInvariant',
           at'[r] \in WriteSteps => at[r] \in WriteSteps /\ value'[r] = value[r],
           StoreCall(r)', FreshHits', ExistsAnswersItsKeys'
    PROVE  StoreInvariant'
<1>1. ASSUME NEW s \in Requests, s # r
      PROVE  StoreCall(s)'
    <2>1. /\ at'[s] = at[s] /\ keys'[s] = keys[s] /\ value'[s] = value[s]
          /\ commands'[s] = commands[s] /\ StoreCall(s)
        BY <1>1 DEF Others, StoreInvariant
    <2>2. ASSUME at[s] \in WriteSteps
          PROVE  Pending(s)'
        <3>1. Pending(s) /\ keys[s] \in Seq(Keys)
              /\ (\A i \in DOMAIN keys[s] : Belongs(keys[s][i], value[s]))
            BY <2>1, <2>2 DEF StoreCall, CacheInvariant, RightCall
        <3>2. at[r] \in WriteSteps => value[r] # value[s]
            BY <1>1, <3>1 DEF Pending
        <3>3. ASSUME NEW i \in DOMAIN keys[s]
              PROVE  age'[keys[s][i]][value[s]] = -1
            <4>1. keys[s][i] \in Keys /\ value[s] \in Values
                BY <3>1, ElementType DEF Belongs
            <4>2. age'[keys[s][i]][value[s]] = age[keys[s][i]][value[s]]
                BY <3>2, <4>1
            <4> QED
                BY <3>1, <4>2 DEF Pending
        <3>4. ASSUME NEW t \in Requests, t # s, at'[t] \in WriteSteps
              PROVE  value'[t] # value[s]
            <4>1. CASE t = r
                BY <3>2, <3>4, <4>1
            <4>2. CASE t # r
                BY <3>1, <3>4, <4>2 DEF Others, Pending
            <4> QED
                BY <4>1, <4>2
        <3> QED
            BY <2>1, <3>1, <3>3, <3>4 DEF Pending
    <2> QED
        BY <2>1, <2>2 DEF StoreCall, RedisBuild
<1>2. ASSUME NEW k \in Keys, NEW v \in Values, v > written
      PROVE  age'[k][v] = -1
    <2>1. at[r] \in WriteSteps => value[r] \in 1 .. written
        BY DEF StoreInvariant, StoreCall, Pending
    <2>2. written \in Nat /\ age[k][v] = -1
        BY <1>2, BoundAssumption DEF StoreInvariant, CacheInvariant, Shapes
    <2>3. ~(at[r] \in WriteSteps /\ v = value[r])
        BY <1>2, <2>1, <2>2
    <2> QED
        BY <2>2, <2>3
<1> QED
    BY <1>1, <1>2 DEF StoreInvariant, RedisBuild

-----------------------------------------------------------------------------
(* The steps of ExpiringCache.                                             *)

\* What the serving table maps to, before and after a step.
LEMMA MappedEntries ==
    ASSUME StoreInvariant, build' = build
    PROVE  /\ LiveEntries(memory) = LiveEntries(Serving)
           /\ LiveEntries(memory)' = LiveEntries(Serving)'
<1>1. Serving = memory /\ (Serving)' = memory'
    BY DEF StoreInvariant, Serving, RedisBuild
<1> QED
    BY <1>1 DEF LiveEntries, Live

LEMMA LiveEntry ==
    ASSUME NEW table, NEW e
    PROVE  e \in LiveEntries(table) <=>
             \E k \in Keys : /\ Live(table, k)
                             /\ e = [key |-> k, value |-> table[k].value, left |-> table[k].left]
BY DEF LiveEntries

LEMMA Forgets ==
    ASSUME StoreInvariant, build' = build,
           LiveEntries(Serving)' \subseteq LiveEntries(Serving), age' = age, reply'.kind # "hit"
    PROVE  Abstract!CacheStep
<1>1. ~(Told').hit
    BY DEF Told
<1> QED
    BY <1>1, MappedEntries DEF Abstract!CacheStep, Abstract!Forget

LEMMA Replies ==
    ASSUME StoreInvariant, build' = build,
           LiveEntries(Serving)' = LiveEntries(Serving), age' = age,
           NEW r, keys[r][1] \in Keys, Live(Serving, keys[r][1]),
           reply' = Hit(r, Serving[keys[r][1]].value)
    PROVE  Abstract!CacheStep
<1> DEFINE k == keys[r][1]
           e == [key |-> k, value |-> Serving[k].value, left |-> Serving[k].left]
<1>1. reply'.kind = "hit" /\ reply'.keys = keys[r] /\ reply'.value = Serving[k].value
    BY DEF Hit, Answered, NoReply
<1>2. (Told').hit /\ (Told').key = k /\ (Told').value = Serving[k].value
    BY <1>1 DEF Told
<1>3. e \in LiveEntries(Serving)
    BY LiveEntry
<1>4. \E x \in LiveEntries(Serving) : x.key = (Told').key /\ x.value = (Told').value
    BY <1>2, <1>3
<1> QED
    BY <1>2, <1>4, MappedEntries DEF Abstract!CacheStep, Abstract!Reply

-----------------------------------------------------------------------------
(* Steps of a call, without redis.                                         *)

LEMMA SameServing ==
    ASSUME StoreInvariant, build' = build, redis' = redis, memory' = memory, age' = age
    PROVE  /\ Serving' = Serving /\ Dated(Serving', age')
           /\ LiveEntries(Serving)' = LiveEntries(Serving)
           /\ \A r \in Requests : \A k \in Keys : \A v \in Values :
                age'[k][v] = age[k][v] \/ (at[r] \in WriteSteps /\ v = value[r])
BY DEF StoreInvariant, Serving, RedisBuild, Dated, Live, LiveEntries

LEMMA ReturnStores ==
    ASSUME Shapes, NEW r \in Requests, NEW answer, Return(r, answer)
    PROVE  StoreCall(r)' /\ at'[r] \notin WriteSteps
<1>1. at'[r] = "idle" /\ commands'[r] = <<>>
    BY DEF Return, Shapes
<1> QED
    BY <1>1 DEF StoreCall, MemorySteps, HybridSteps, ExistsSteps, WriteSteps

\* A call that returns without touching a table.
LEMMA QuietReturn ==
    ASSUME BothInvariants, BothInvariants', StoreInvariant, NEW r \in Requests, NEW answer,
           Return(r, answer), UNCHANGED <<servers, history>>, pipeline' = <<>>,
           FreshHits', ExistsAnswersItsKeys'
    PROVE  StoreInvariant'
<1>1. /\ Shapes /\ build' = build /\ redis' = redis /\ memory' = memory /\ age' = age
      /\ written' = written /\ brought' = brought
    BY DEF BothInvariants, CacheInvariant, servers, history
<1>2. Others(r)
    BY <1>1, ReturnKeeps
<1>3. StoreCall(r)' /\ at'[r] \notin WriteSteps
    BY <1>1, ReturnStores
<1>4. Dated(Serving', age') /\ \A k \in Keys : \A v \in Values :
         age'[k][v] = age[k][v] \/ (at[r] \in WriteSteps /\ v = value[r])
    BY <1>1, SameServing
<1> QED
    BY <1>1, <1>2, <1>3, <1>4, CallKeepsStores DEF BothInvariants

LEMMA ReadMemoryStores ==
    ASSUME BothInvariants, BothInvariants', StoreInvariant,
           NEW r \in Requests, ReadMemory(r)
    PROVE  StoreInvariant' /\ Abstract!CacheStep
<1> DEFINE k == keys[r][1]
<1>1. /\ at[r] = "read_memory" /\ ~RedisBuild /\ k \in Keys /\ age \in Ages
      /\ Serving = memory /\ Dated(Serving, age) /\ Serving \in [Keys -> Entry]
      /\ build' = build /\ redis' = redis /\ memory' = memory /\ age' = age
      /\ UNCHANGED <<servers, history>> /\ pipeline' = <<>>
    <2>1. StoreCall(r) /\ RightCall(r) /\ pipeline' = pipeline /\ pipeline = <<>>
        BY DEF BothInvariants, CacheInvariant, StoreInvariant, ReadMemory
    <2>2. at[r] = "read_memory"
        BY <2>1 DEF ReadMemory, StoreCall, HybridSteps
    <2>3. ~RedisBuild /\ k \in Keys
        BY <2>1, <2>2 DEF StoreCall, MemorySteps, RightCall, ReadSteps
    <2> QED
        BY <2>1, <2>2, <2>3, ServingType
           DEF BothInvariants, MissInvariant, StoreInvariant, ReadMemory, servers, history, Serving
<1>2. LiveEntries(Serving)' = LiveEntries(Serving)
    BY <1>1, SameServing
<1>3. CASE Live(memory, k)
    <2>1. Return(r, Hit(r, memory[k].value)) /\ reply' = Hit(r, Serving[k].value)
        BY <1>1, <1>3 DEF ReadMemory, Return
    <2>2. FreshHits' /\ ExistsAnswersItsKeys'
        BY <1>1, <1>3, <2>1, FreshHit
    <2> QED
        BY <1>1, <1>2, <1>3, <2>1, <2>2, QuietReturn, Replies
<1>4. CASE ~Live(memory, k)
    <2>1. Return(r, Answered(r, "miss")) /\ reply' = Answered(r, "miss")
        BY <1>1, <1>4 DEF ReadMemory, Return
    <2>2. FreshHits' /\ ExistsAnswersItsKeys' /\ reply'.kind # "hit"
        BY <2>1, PlainAnswer
    <2> QED
        BY <1>1, <1>2, <2>1, <2>2, QuietReturn, Forgets
<1> QED
    BY <1>3, <1>4

LEMMA ExistsMemoryStores ==
    ASSUME BothInvariants, BothInvariants', StoreInvariant,
           NEW r \in Requests, ExistsMemory(r)
    PROVE  StoreInvariant' /\ Abstract!CacheStep
<1> DEFINE flags == ExistsFlags(memory, keys[r])
<1>1. /\ keys[r] \in Seq(Keys) /\ age \in Ages
      /\ Serving = memory /\ Dated(Serving, age) /\ Serving \in [Keys -> Entry]
      /\ build' = build /\ redis' = redis /\ memory' = memory /\ age' = age
      /\ UNCHANGED <<servers, history>> /\ pipeline' = <<>>
      /\ Return(r, Flags(r, flags))
    <2>1. /\ StoreCall(r) /\ pipeline' = pipeline /\ pipeline = <<>>
          /\ at[r] = "exists_memory"
        BY DEF StoreInvariant, ExistsMemory
    <2>2. ~RedisBuild /\ keys[r] \in Seq(Keys)
        BY <2>1 DEF StoreCall, MemorySteps, ExistsSteps
    <2> QED
        BY <2>1, <2>2, ServingType
           DEF BothInvariants, MissInvariant, StoreInvariant, ExistsMemory, servers, history, Serving
<1>2. LiveEntries(Serving)' = LiveEntries(Serving)
    BY <1>1, SameServing
<1>3. reply' = Flags(r, flags) /\ flags = [i \in DOMAIN keys[r] |-> Live(Serving, keys[r][i])]
    BY <1>1 DEF Return, ExistsFlags
<1> HIDE DEF flags
<1>4. FreshHits' /\ ExistsAnswersItsKeys'
    BY <1>1, <1>3, FreshFlags
<1>5. reply'.kind # "hit"
    BY <1>3 DEF Flags, Answered, NoReply
<1> QED
    BY <1>1, <1>2, <1>4, <1>5, QuietReturn, Forgets

LEMMA StoreBackStores ==
    ASSUME BothInvariants, BothInvariants', StoreInvariant,
           NEW r \in Requests, StoreBack(r)
    PROVE  StoreInvariant' /\ Abstract!CacheStep
<1>1. /\ build' = build /\ redis' = redis /\ memory' = memory /\ age' = age
      /\ UNCHANGED <<servers, history>> /\ pipeline' = <<>>
      /\ Return(r, Answered(r, "ok")) /\ reply' = Answered(r, "ok")
    BY DEF StoreInvariant, StoreCall, StoreBack, servers, history, Return
<1>2. LiveEntries(Serving)' = LiveEntries(Serving)
    BY <1>1, SameServing
<1>3. FreshHits' /\ ExistsAnswersItsKeys' /\ reply'.kind # "hit"
    BY <1>1, PlainAnswer
<1> QED
    BY <1>1, <1>2, <1>3, QuietReturn, Forgets

LEMMA BeginReadingStores ==
    ASSUME BothInvariants, BothInvariants', StoreInvariant,
           NEW r \in Requests, BeginRead(r) \/ BeginExists(r)
    PROVE  StoreInvariant' /\ Abstract!CacheStep
<1>1. /\ Shapes /\ build' = build /\ redis' = redis /\ memory' = memory /\ age' = age
      /\ written' = written /\ pipeline' = <<>>
    BY DEF BothInvariants, CacheInvariant, StoreInvariant, BeginRead, BeginExists, servers, history
<1>2. PICK step, ks, stored :
        /\ Call(r, step, ks, 0, <<>>, stored)
        /\ \/ step = "read_memory"
           \/ step = RedisOr("exists_redis", "exists_memory") /\ ks \in Seq(Keys)
    <2>1. CASE BeginRead(r)
        BY <2>1 DEF BeginRead
    <2>2. CASE BeginExists(r)
        <3>1. Clone = <<>>
            BY DEF Clone, StoreInvariant
        <3> QED
            BY <1>1, <2>2, <3>1, ListType DEF BeginExists
    <2> QED
        BY <2>1, <2>2
<1>3. /\ Others(r) /\ reply' = NoReply /\ at'[r] = step /\ keys'[r] = ks /\ commands'[r] = <<>>
    BY <1>1, <1>2 DEF Call, Silent, Others, Shapes
<1>4. StoreCall(r)' /\ at'[r] \notin WriteSteps
    BY <1>1, <1>2, <1>3
       DEF StoreCall, StoreInvariant, MemorySteps, HybridSteps, ExistsSteps, WriteSteps,
           RedisOr, RedisBuild
<1>5. /\ LiveEntries(Serving)' = LiveEntries(Serving) /\ Dated(Serving', age')
      /\ \A k \in Keys : \A v \in Values :
           age'[k][v] = age[k][v] \/ (at[r] \in WriteSteps /\ v = value[r])
    BY <1>1, SameServing
<1>6. FreshHits' /\ ExistsAnswersItsKeys' /\ reply'.kind # "hit"
    BY <1>3, PlainAnswer
<1>7. StoreInvariant'
    BY <1>1, <1>3, <1>4, <1>5, <1>6, CallKeepsStores DEF BothInvariants
<1> QED
    BY <1>1, <1>5, <1>6, <1>7, Forgets

\* A new call of cache_results brings a value of its own.
LEMMA BeginWriteStores ==
    ASSUME BothInvariants, BothInvariants', StoreInvariant, DistinctUrls,
           NEW r \in Requests, BeginWrite(r)
    PROVE  StoreInvariant' /\ Abstract!CacheStep
<1>1. /\ Shapes /\ build' = build /\ redis' = redis /\ memory' = memory /\ age' = age
      /\ pipeline' = <<>> /\ written' = written + 1 /\ written < MaxWrites
      /\ written \in Nat /\ written' \in Values /\ written' \in Nat
    <2>1. /\ Shapes /\ build' = build /\ redis' = redis /\ memory' = memory /\ age' = age
          /\ pipeline' = <<>> /\ written' = written + 1 /\ written < MaxWrites
        BY DEF BothInvariants, CacheInvariant, StoreInvariant, BeginWrite, servers
    <2>2. written \in 0 .. MaxWrites
        BY <2>1 DEF Shapes
    <2> QED
        BY <2>1, <2>2, BoundAssumption DEF Values
<1>2. PICK ks \in KeyLists[build] :
        Call(r, RedisOr("write_redis", "write_memory"), ks, written + 1, <<>>, {})
    <2>1. Clone = <<>>
        BY DEF Clone, StoreInvariant
    <2> QED
        BY <2>1 DEF BeginWrite
<1>3. ks \in Seq(Keys) /\ \A i \in DOMAIN ks : ks[i] \in Keys
    BY <1>1, ListType, ElementType
<1>4. /\ Others(r) /\ reply' = NoReply /\ keys'[r] = ks /\ value'[r] = written'
      /\ commands'[r] = <<>> /\ at'[r] = RedisOr("write_redis", "write_memory")
    BY <1>1, <1>2 DEF Call, Silent, Others, Shapes
<1>5. ASSUME NEW s \in Requests, s # r, at[s] \in WriteSteps
      PROVE  Pending(s) /\ value[s] \in 1 .. written' /\ value[s] # written'
    <2>1. Pending(s)
        BY <1>5 DEF StoreInvariant, StoreCall
    <2>2. value[s] \in 1 .. written
        BY <2>1 DEF Pending
    <2> QED
        BY <1>1, <2>1, <2>2
<1>6. Pending(r)'
    <2>1. value'[r] \in 1 .. written'
        <3>1. \A n \in Nat : n + 1 \in 1 .. n + 1
            OBVIOUS
        <3> QED
            BY <1>1, <1>4, <3>1, Zenon
    <2>2. \A i, j \in DOMAIN keys'[r] : keys'[r][i] = keys'[r][j] => i = j
        BY <1>1, <1>2, <1>4 DEF DistinctUrls, Shapes
    <2>3. \A i \in DOMAIN keys'[r] : age'[keys'[r][i]][value'[r]] = -1
        <3>1. \A k \in Keys : age[k][written'] = -1
            BY <1>1 DEF StoreInvariant
        <3> QED
            BY <1>1, <1>3, <1>4, <3>1
    <2>4. ASSUME NEW s \in Requests, s # r, at'[s] \in WriteSteps
          PROVE  value'[s] # value'[r]
        BY <1>4, <1>5, <2>4 DEF Others
    <2> QED
        BY <2>1, <2>2, <2>3, <2>4 DEF Pending
<1>7. ASSUME NEW s \in Requests
      PROVE  StoreCall(s)'
    <2>1. CASE s = r
        BY <1>1, <1>4, <1>6, <2>1
           DEF StoreCall, MemorySteps, HybridSteps, ExistsSteps, RedisOr, RedisBuild
    <2>2. CASE s # r
        <3>1. /\ at'[s] = at[s] /\ keys'[s] = keys[s] /\ value'[s] = value[s]
              /\ commands'[s] = commands[s] /\ StoreCall(s)
            BY <2>2, <1>4 DEF Others, StoreInvariant
        <3>2. ASSUME at[s] \in WriteSteps
              PROVE  Pending(s)'
            <4>1. Pending(s) /\ value[s] \in 1 .. written' /\ value[s] # written'
                BY <1>5, <2>2, <3>2
            <4>2. ASSUME NEW t \in Requests, t # s, at'[t] \in WriteSteps
                  PROVE  value'[t] # value'[s]
                <5>1. CASE t = r
                    BY <1>4, <3>1, <4>1, <5>1
                <5>2. CASE t # r
                    BY <1>4, <3>1, <4>1, <4>2, <5>2 DEF Others, Pending
                <5> QED
                    BY <5>1, <5>2
            <4> QED
                BY <1>1, <3>1, <4>1, <4>2 DEF Pending
        <3> QED
            BY <1>1, <3>1, <3>2 DEF StoreCall, RedisBuild
    <2> QED
        BY <2>1, <2>2
<1>8. \A k \in Keys : \A v \in Values : v > written' => age'[k][v] = -1
    <2>1. \A v \in Values : v > written' => v > written
        BY <1>1, BoundAssumption DEF Values
    <2> QED
        BY <1>1, <2>1 DEF StoreInvariant
<1>9. LiveEntries(Serving)' = LiveEntries(Serving) /\ Dated(Serving', age')
    BY <1>1, SameServing
<1>10. FreshHits' /\ ExistsAnswersItsKeys' /\ reply'.kind # "hit"
    BY <1>4, PlainAnswer
<1>11. StoreInvariant'
    BY <1>1, <1>7, <1>8, <1>9, <1>10 DEF StoreInvariant, RedisBuild
<1> QED
    BY <1>1, <1>9, <1>10, <1>11, Forgets

-----------------------------------------------------------------------------
(* What a write stores, without redis.                                     *)

\* The entries of a table that a write of v sets are those v was never stored for.
Puts(old, new, v) ==
    \A k \in Keys : new[k] = old[k] \/ (age[k][v] = -1 /\ new[k] = Fresh(v))

LEMMA DatedApart ==
    ASSUME age \in Ages, NEW table \in [Keys -> Entry], Dated(table, age),
           NEW k \in Keys, NEW v \in Values, age[k][v] = -1
    PROVE  ~(Live(table, k) /\ table[k].value = v) /\ table[k] # Fresh(v)
<1>1. ~(Live(table, k) /\ table[k].value = v)
    BY DEF Dated
<1>2. Fresh(v).value = v /\ Fresh(v).left > 0
    BY FreshType
<1> QED
    BY <1>1, <1>2 DEF Live

LEMMA PutAges ==
    ASSUME age \in Ages, NEW old \in [Keys -> Entry], NEW new \in [Keys -> Entry],
           Dated(old, age), NEW v \in Values, Puts(old, new, v), age' = Born(new)
    PROVE  /\ \A k \in Keys : \A w \in Values :
                age'[k][w] = IF w = v /\ new[k] # old[k] THEN 0 ELSE age[k][w]
           /\ \A k \in Keys : new[k] # old[k] => age[k][v] = -1 /\ new[k] = Fresh(v)
           /\ Dated(new, age')
<1>1. ASSUME NEW k \in Keys, NEW w \in Values
      PROVE  age'[k][w] = IF w = v /\ new[k] # old[k] THEN 0 ELSE age[k][w]
    <2>1. age'[k][w] = IF age[k][w] = -1 /\ new[k] = Fresh(w) THEN 0 ELSE age[k][w]
        BY DEF Born
    <2>2. CASE new[k] = old[k]
        BY <2>1, <2>2, DatedApart
    <2>3. CASE new[k] # old[k]
        <3>1. age[k][v] = -1 /\ new[k] = Fresh(v)
            BY <2>3 DEF Puts
        <3>2. Fresh(w) = Fresh(v) => w = v
            BY FreshType
        <3> QED
            BY <2>1, <2>3, <3>1, <3>2
    <2> QED
        BY <2>2, <2>3
<1>2. \A k \in Keys : new[k] # old[k] => age[k][v] = -1 /\ new[k] = Fresh(v)
    BY DEF Puts
<1>3. ASSUME NEW k \in Keys, Live(new, k)
      PROVE  /\ new[k].value \in Values
             /\ age'[k][new[k].value] >= 0
             /\ age'[k][new[k].value] + new[k].left <= TTL
    <2>1. CASE new[k] = old[k]
        <3>1. /\ old[k].value \in Values /\ age[k][old[k].value] >= 0
              /\ age[k][old[k].value] + old[k].left <= TTL
            BY <1>3, <2>1 DEF Dated, Live
        <3>2. age'[k][old[k].value] = age[k][old[k].value]
            BY <1>1, <2>1, <3>1
        <3> QED
            BY <2>1, <3>1, <3>2
    <2>2. CASE new[k] # old[k]
        <3>1. new[k].value = v /\ new[k].left = TTL
            BY <1>2, <2>2 DEF Fresh
        <3>2. age'[k][v] = 0
            BY <1>1, <2>2
        <3> QED
            BY <3>1, <3>2, TTLAssumption
    <2> QED
        BY <2>1, <2>2
<1> QED
    BY <1>1, <1>2, <1>3 DEF Dated

\* A write stores its value for the keys it sets, or changes nothing.
LEMMA Stores ==
    ASSUME StoreInvariant, build' = build, age \in Ages, NEW old \in [Keys -> Entry], NEW new \in [Keys -> Entry],
           Dated(old, age), NEW v \in Values, Puts(old, new, v), age' = Born(new),
           Serving = old, Serving' = new, reply'.kind # "hit"
    PROVE  Abstract!CacheStep
<1> DEFINE Set == {k \in Keys : new[k] # old[k]}
           Put(k) == [key |-> k, value |-> v, left |-> TTL]
           added == LiveEntries(new) \ LiveEntries(old)
           issued == {kv \in Keys \X Values : age[kv[1]][kv[2]] >= 0}
           names == {<<e.key, e.value>> : e \in added}
<1>1. /\ \A k \in Keys : \A w \in Values :
           age'[k][w] = IF w = v /\ k \in Set THEN 0 ELSE age[k][w]
      /\ \A k \in Set : age[k][v] = -1 /\ new[k] = Fresh(v)
    BY PutAges
<1>2. added = {Put(k) : k \in Set}
    <2>1. ASSUME NEW e \in added
          PROVE  \E k \in Set : e = Put(k)
        <3>1. PICK k \in Keys :
                Live(new, k) /\ e = [key |-> k, value |-> new[k].value, left |-> new[k].left]
            BY LiveEntry
        <3>2. k \in Set
            <4>1. CASE new[k] = old[k]
                BY <3>1, <4>1, LiveEntry DEF Live
            <4> QED
                BY <4>1
        <3>3. new[k].value = v /\ new[k].left = TTL
            BY <1>1, <3>2 DEF Fresh
        <3> QED
            BY <3>1, <3>2, <3>3
    <2>2. ASSUME NEW k \in Set
          PROVE  Put(k) \in added
        <3>1. new[k].value = v /\ new[k].left = TTL /\ Live(new, k)
            BY <1>1, TTLAssumption DEF Fresh, Live
        <3>2. Put(k) \in LiveEntries(new)
            BY <3>1, LiveEntry
        <3>3. ASSUME Put(k) \in LiveEntries(old)
              PROVE  FALSE
            <4>1. PICK x \in Keys :
                    /\ Live(old, x)
                    /\ Put(k) = [key |-> x, value |-> old[x].value, left |-> old[x].left]
                BY <3>3 DEF LiveEntries
            <4>2. x = k /\ old[x].value = v
                BY <4>1
            <4> QED
                BY <1>1, <4>1, <4>2, DatedApart
        <3> QED
            BY <3>2, <3>3
    <2> QED
        BY <2>1, <2>2
<1> HIDE DEF Set, added
<1>3. names = {<<k, v>> : k \in Set}
    <2>1. \A k : Put(k).key = k /\ Put(k).value = v
        OBVIOUS
    <2> HIDE DEF Put
    <2>2. \A e \in added : \E k \in Set : <<e.key, e.value>> = <<k, v>>
        BY <1>2, <2>1
    <2>3. \A k \in Set : \E e \in added : <<e.key, e.value>> = <<k, v>>
        BY <1>2, <2>1
    <2> QED
        BY <2>2, <2>3
<1> USE DEF Set
<1>4. issued' = issued \cup names
    <2>1. ASSUME NEW kv \in Keys \X Values
          PROVE  age'[kv[1]][kv[2]] >= 0 <=> (age[kv[1]][kv[2]] >= 0 \/ kv \in names)
        <3>1. kv[1] \in Keys /\ kv[2] \in Values /\ kv = <<kv[1], kv[2]>>
            OBVIOUS
        <3>2. kv \in names <=> kv[1] \in Set /\ kv[2] = v
            BY <1>3, <3>1
        <3> QED
            BY <1>1, <3>1, <3>2
    <2>2. names \subseteq Keys \X Values
        BY <1>3
    <2> QED
        BY <2>1, <2>2
<1>5. names \cap issued = {}
    <2>1. ASSUME NEW k \in Set
          PROVE  <<k, v>> \notin issued
        BY <1>1
    <2> QED
        BY <1>3, <2>1
<1>6. ~(Told').hit
    BY DEF Told
<1>7. CASE Set = {}
    <2>1. LiveEntries(Serving)' \subseteq LiveEntries(Serving)
        <3>1. \A k \in Keys : new[k] = old[k]
            BY <1>7
        <3>2. new = old
            BY <3>1
        <3> QED
            BY <3>2 DEF LiveEntries
    <2>2. issued' = issued
        BY <1>3, <1>4, <1>7
    <2> QED
        BY <1>6, <2>1, <2>2, MappedEntries DEF Abstract!CacheStep, Abstract!Forget
<1>8. CASE Set # {}
    <2>1. added # {} /\ \A e \in added : e.left = TTL
        <3>1. \A k : Put(k).left = TTL
            OBVIOUS
        <3> HIDE DEF Put, Set
        <3> QED
            BY <1>2, <1>8, <3>1
    <2>2. LiveEntries(Serving)' = LiveEntries(new) /\ LiveEntries(Serving) = LiveEntries(old)
        BY DEF LiveEntries, Live
    <2>3. Abstract!Store
        BY <1>4, <1>5, <1>6, <2>1, <2>2, MappedEntries DEF Abstract!Store, added
    <2> QED
        BY <2>3 DEF Abstract!CacheStep
<1> QED
    BY <1>7, <1>8

\* The replies of no commands precede the flags.
\* The keys that remain when one of different keys is removed.
LEMMA RemainingKeys ==
    ASSUME NEW ks \in Seq(Keys), NEW n \in DOMAIN ks, NEW rest,
           \A i, j \in DOMAIN ks : ks[i] = ks[j] => i = j,
           rest = [j \in 1 .. Len(ks) - 1 |-> IF j < n THEN ks[j] ELSE ks[j + 1]]
    PROVE  /\ \A i, j \in DOMAIN rest : rest[i] = rest[j] => i = j
           /\ \A j \in DOMAIN rest : \E i \in DOMAIN ks : i # n /\ rest[j] = ks[i]
<1>1. Len(ks) \in Nat \ {0} /\ DOMAIN ks = 1 .. Len(ks) /\ n \in 1 .. Len(ks)
    OBVIOUS
<1> DEFINE From(j) == IF j < n THEN j ELSE j + 1
<1>2. ASSUME NEW j \in 1 .. Len(ks) - 1
      PROVE  From(j) \in DOMAIN ks /\ From(j) # n /\ rest[j] = ks[From(j)]
    BY <1>1
<1>3. DOMAIN rest = 1 .. Len(ks) - 1
    OBVIOUS
<1>4. \A i, j \in 1 .. Len(ks) - 1 : From(i) = From(j) => i = j
    BY <1>1
<1> HIDE DEF From
<1> QED
    BY <1>2, <1>3, <1>4

LEMMA WriteMemoryStores ==
    ASSUME BothInvariants, BothInvariants', StoreInvariant,
           NEW r \in Requests, WriteMemory(r)
    PROVE  StoreInvariant' /\ Abstract!CacheStep
<1> DEFINE ks == keys[r]
           v == value[r]
<1>1. /\ ~RedisBuild /\ at[r] \in WriteSteps /\ Pending(r) /\ ks \in Seq(Keys)
      /\ commands[r] = <<>>
      /\ Serving = memory /\ memory \in [Keys -> Entry] /\ age \in Ages /\ Dated(memory, age)
      /\ build' = build /\ redis' = redis /\ redis_up' = redis_up /\ pipeline' = <<>>
      /\ written' = written /\ brought' = brought /\ undisturbed' = undisturbed /\ Shapes
    <2>1. StoreCall(r) /\ RightCall(r) /\ Shapes /\ at[r] = "write_memory"
        BY DEF BothInvariants, CacheInvariant, StoreInvariant, WriteMemory
    <2>2. ~RedisBuild /\ at[r] \in WriteSteps
        BY <2>1 DEF StoreCall, MemorySteps, WriteSteps
    <2>3. Pending(r) /\ ks \in Seq(Keys) /\ commands[r] = <<>>
        BY <2>1, <2>2 DEF StoreCall, RightCall
    <2> QED
        BY <2>1, <2>2, <2>3, ServingType
           DEF BothInvariants, MissInvariant, StoreInvariant, WriteMemory, Serving
<1>2. v \in Values
    <2>1. v \in 1 .. written /\ written \in 0 .. MaxWrites
        BY <1>1 DEF Pending, Shapes
    <2> QED
        BY <2>1, BoundAssumption DEF Values
<1>3. CASE ks = <<>>
    <2>1. Go(r, "store_back") /\ memory' = memory /\ age' = age
        BY <1>3 DEF WriteMemory
    <2>2. /\ Others(r) /\ reply' = NoReply /\ at'[r] = "store_back" /\ commands' = commands
        BY <1>1, <2>1, GoKeeps
    <2>3. StoreCall(r)' /\ at'[r] \notin WriteSteps
        BY <1>1, <2>2 DEF StoreCall, MemorySteps, HybridSteps, ExistsSteps, WriteSteps
    <2>4. /\ Dated(Serving', age') /\ LiveEntries(Serving)' = LiveEntries(Serving)
          /\ \A k \in Keys : \A w \in Values :
               age'[k][w] = age[k][w] \/ (at[r] \in WriteSteps /\ w = value[r])
        BY <1>1, <2>1, SameServing
    <2>5. FreshHits' /\ ExistsAnswersItsKeys' /\ reply'.kind # "hit"
        BY <2>2, PlainAnswer
    <2>6. StoreInvariant'
        BY <1>1, <2>2, <2>3, <2>4, <2>5, CallKeepsStores DEF BothInvariants
    <2> QED
        BY <1>1, <2>1, <2>4, <2>5, <2>6, Forgets
<1>4. CASE ks # <<>>
    <2>1. PICK n \in DOMAIN ks :
            /\ memory' = [memory EXCEPT ![ks[n]] = Fresh(v)]
            /\ age' = Born(memory')
            /\ keys' = [keys EXCEPT ![r] = [j \in 1 .. Len(ks) - 1 |->
                            IF j < n THEN ks[j] ELSE ks[j + 1]]]
            /\ reply' = NoReply /\ at' = at /\ value' = value /\ commands' = commands
        BY <1>4 DEF WriteMemory, Silent
    <2>2. ks[n] \in Keys /\ age[ks[n]][v] = -1
        BY <1>1, ElementType DEF Pending
    <2>3. Puts(memory, memory', v)
        <3> HIDE DEF ks, v
        <3> QED
            BY <1>1, <2>1, <2>2 DEF Puts
    <2>4. memory' \in [Keys -> Entry] /\ Serving' = memory'
        BY <1>1 DEF BothInvariants, CacheInvariant, RightTable, Serving, RedisBuild
    <2>5. /\ Dated(Serving', age')
          /\ \A k \in Keys : \A w \in Values :
               age'[k][w] = IF w = v /\ memory'[k] # memory[k] THEN 0 ELSE age[k][w]
        <3>1. /\ age \in Ages /\ memory \in [Keys -> Entry] /\ memory' \in [Keys -> Entry]
              /\ Dated(memory, age) /\ v \in Values /\ Puts(memory, memory', v)
              /\ age' = Born(memory')
            BY <1>1, <1>2, <2>1, <2>3, <2>4
        <3> HIDE DEF v
        <3>2. Dated(memory', age')
            BY <3>1, PutAges
        <3>3. ASSUME NEW k \in Keys, NEW w \in Values
              PROVE  age'[k][w] = IF w = v /\ memory'[k] # memory[k] THEN 0 ELSE age[k][w]
            BY <3>1, PutAges
        <3> QED
            BY <2>4, <3>2, <3>3
    <2>6. FreshHits' /\ ExistsAnswersItsKeys' /\ reply'.kind # "hit"
        BY <2>1, PlainAnswer
    <2>7. /\ Others(r)
          /\ keys'[r] = [j \in 1 .. Len(ks) - 1 |-> IF j < n THEN ks[j] ELSE ks[j + 1]]
        BY <1>1, <2>1 DEF Others, Shapes
    <2>8. Pending(r)'
        <3> DEFINE rest == keys'[r]
        <3>1. /\ \A i, j \in DOMAIN ks : ks[i] = ks[j] => i = j
              /\ \A i \in DOMAIN ks : age[ks[i]][v] = -1
              /\ v \in 1 .. written
              /\ \A s \in Requests : s # r /\ at[s] \in WriteSteps => value[s] # v
            BY <1>1 DEF Pending
        <3>2. rest = [j \in 1 .. Len(ks) - 1 |-> IF j < n THEN ks[j] ELSE ks[j + 1]]
            BY <2>7
        <3> HIDE DEF rest, ks
        <3>3. /\ \A i, j \in DOMAIN rest : rest[i] = rest[j] => i = j
              /\ \A j \in DOMAIN rest : \E i \in DOMAIN ks : i # n /\ rest[j] = ks[i]
            BY <1>1, <3>1, <3>2, RemainingKeys
        <3>4. ASSUME NEW j \in DOMAIN rest
              PROVE  age'[rest[j]][v] = -1
            <4>1. PICK i \in DOMAIN ks : i # n /\ rest[j] = ks[i]
                BY <3>3
            <4>2. ks[i] \in Keys /\ ks[i] # ks[n]
                BY <1>1, <3>1, <4>1, ElementType
            <4>3. memory'[ks[i]] = memory[ks[i]]
                BY <1>1, <2>1, <4>2
            <4> QED
                BY <1>2, <2>5, <3>1, <4>1, <4>2, <4>3
        <3> QED
            BY <1>1, <2>1, <3>1, <3>3, <3>4 DEF Pending, rest
    <2>9. StoreCall(r)'
        <3>1. StoreCall(r)
            BY DEF StoreInvariant
        <3>2. at[r] \notin ExistsSteps
            BY <1>1 DEF WriteSteps, ExistsSteps
        <3> QED
            BY <1>1, <2>1, <2>8, <3>1, <3>2 DEF StoreCall, RedisBuild
    <2>10. StoreInvariant'
        <3>1. \A k \in Keys : \A w \in Values :
                age'[k][w] = age[k][w] \/ (at[r] \in WriteSteps /\ w = value[r])
            BY <1>1, <2>5
        <3> QED
            BY <1>1, <2>1, <2>5, <2>6, <2>7, <2>9, <3>1, CallKeepsStores DEF BothInvariants
    <2>11. Abstract!CacheStep
        BY <1>1, <1>2, <2>1, <2>3, <2>4, <2>6, Stores
    <2> QED
        BY <2>10, <2>11
<1> QED
    BY <1>3, <1>4

-----------------------------------------------------------------------------
(* Steps of the environment, without redis.                                *)

\* A step that leaves the calls alone, or ends all of them.
LEMMA EnvironmentStores ==
    ASSUME StoreInvariant, build' = build, written' = written, pipeline' = <<>>,
           reply' = NoReply, Dated(Serving', age'),
           \A k \in Keys : \A v \in Values : age[k][v] = -1 => age'[k][v] = -1,
           CacheInvariant,
           \/ UNCHANGED <<at, keys, value, commands>>
           \/ at' = [r \in Requests |-> "idle"] /\ commands' = [r \in Requests |-> <<>>]
    PROVE  StoreInvariant' /\ reply'.kind # "hit"
<1>1. ASSUME NEW r \in Requests
      PROVE  StoreCall(r)'
    <2>1. CASE UNCHANGED <<at, keys, value, commands>>
        <3>1. StoreCall(r) /\ RightCall(r)
            BY DEF StoreInvariant, CacheInvariant
        <3>2. ASSUME at[r] \in WriteSteps
              PROVE  Pending(r)'
            <4>1. /\ Pending(r) /\ keys[r] \in Seq(Keys)
                  /\ \A i \in DOMAIN keys[r] : Belongs(keys[r][i], value[r])
                BY <3>1, <3>2 DEF StoreCall, RightCall
            <4>2. ASSUME NEW i \in DOMAIN keys[r]
                  PROVE  age'[keys[r][i]][value[r]] = -1
                <5>1. keys[r][i] \in Keys /\ value[r] \in Values
                    BY <4>1, ElementType DEF Belongs
                <5> QED
                    BY <4>1, <5>1 DEF Pending
            <4> QED
                BY <2>1, <4>1, <4>2 DEF Pending
        <3> QED
            BY <2>1, <3>1, <3>2 DEF StoreCall, RedisBuild
    <2>2. CASE at'[r] = "idle" /\ commands'[r] = <<>>
        BY <2>2 DEF StoreCall, MemorySteps, HybridSteps, ExistsSteps, WriteSteps
    <2> QED
        BY <2>1, <2>2
<1>2. FreshHits' /\ ExistsAnswersItsKeys' /\ reply'.kind # "hit"
    BY PlainAnswer
<1> QED
    BY <1>1, <1>2 DEF StoreInvariant, RedisBuild

LEMMA OlderEntry ==
    ASSUME NEW table \in [Keys -> Entry], NEW k \in Keys, Live(Older(table), k)
    PROVE  /\ table[k].left > 1 /\ Live(table, k)
           /\ Older(table)[k] = [table[k] EXCEPT !.left = table[k].left - 1]
           /\ Older(table)[k].value = table[k].value
           /\ Older(table)[k].left = table[k].left - 1
<1>1. ~(table[k].left <= 1)
    BY AbsentType DEF Older, Live
<1>2. Older(table)[k] = [table[k] EXCEPT !.left = table[k].left - 1]
    BY <1>1 DEF Older
<1>3. table[k] \in Entry /\ table[k].left \in Int
    BY EntryType
<1> QED
    BY <1>1, <1>2, <1>3 DEF Entry, Live

LEMMA TickStores ==
    ASSUME BothInvariants, StoreInvariant, Tick
    PROVE  StoreInvariant' /\ Abstract!CacheStep
<1>1. /\ redis' = Older(redis) /\ memory' = Older(memory) /\ build' = build
      /\ written' = written /\ pipeline' = <<>> /\ reply' = NoReply /\ age' = Aged
      /\ UNCHANGED <<at, keys, value, commands>> /\ age \in Ages
      /\ Serving \in [Keys -> Entry] /\ Dated(Serving, age)
    BY ServingType DEF BothInvariants, MissInvariant, StoreInvariant, Tick, Silent, calls, Aged
<1>2. Serving' = Older(Serving)
    BY <1>1 DEF Serving, RedisBuild
<1>3. ASSUME NEW k \in Keys, NEW v \in Values
      PROVE  /\ age[k][v] = -1 => age'[k][v] = -1
             /\ age[k][v] >= 0 => age'[k][v] >= 0
             /\ age'[k][v] \in Int /\ age'[k][v] <= age[k][v] + 1
    BY <1>1, AgedValue, AgeType, TTLAssumption
<1>4. Dated(Serving', age')
    <2>1. ASSUME NEW k \in Keys, Live(Serving', k)
          PROVE  /\ (Serving')[k].value \in Values
                 /\ age'[k][(Serving')[k].value] >= 0
                 /\ age'[k][(Serving')[k].value] + (Serving')[k].left <= TTL
        <3> DEFINE old == Serving[k]
                   v == old.value
        <3>1. /\ Live(Serving, k) /\ (Serving')[k].value = v
              /\ (Serving')[k].left = old.left - 1
            BY <1>1, <1>2, <2>1, OlderEntry
        <3>2. v \in Values /\ age[k][v] >= 0 /\ age[k][v] + old.left <= TTL
            BY <1>1, <3>1 DEF Dated
        <3>3. old.left \in Int /\ age[k][v] \in Int
            BY <1>1, <3>2, EntryType, AgeType
        <3>4. age'[k][v] >= 0 /\ age'[k][v] <= age[k][v] + 1 /\ age'[k][v] \in Int
            BY <1>3, <3>2
        <3> HIDE DEF old, v
        <3> QED
            BY <3>1, <3>2, <3>3, <3>4, TTLAssumption
    <2> QED
        BY <2>1 DEF Dated
<1>5. StoreInvariant' /\ reply'.kind # "hit"
    BY <1>1, <1>3, <1>4, EnvironmentStores DEF BothInvariants
<1>6. LiveEntries(Serving)' \subseteq
        {[e EXCEPT !.left = e.left - 1] : e \in {x \in LiveEntries(Serving) : x.left > 1}}
    <2>1. ASSUME NEW k \in Keys, Live(Serving', k)
          PROVE  \E e \in {x \in LiveEntries(Serving) : x.left > 1} :
                   [key |-> k, value |-> (Serving')[k].value, left |-> (Serving')[k].left]
                     = [e EXCEPT !.left = e.left - 1]
        <3> DEFINE e == [key |-> k, value |-> Serving[k].value, left |-> Serving[k].left]
        <3>1. /\ Serving[k].left > 1 /\ Live(Serving, k)
              /\ (Serving')[k].value = Serving[k].value
              /\ (Serving')[k].left = Serving[k].left - 1
            BY <1>1, <1>2, <2>1, OlderEntry
        <3>2. e \in LiveEntries(Serving) /\ e.left > 1
            BY <3>1, LiveEntry
        <3>3. [key |-> k, value |-> (Serving')[k].value, left |-> (Serving')[k].left]
                = [e EXCEPT !.left = e.left - 1]
            BY <3>1
        <3> QED
            BY <3>2, <3>3
    <2> QED
        BY <2>1 DEF LiveEntries, Live
<1>7. ASSUME NEW kv \in Keys \X Values
      PROVE  age'[kv[1]][kv[2]] >= 0 <=> age[kv[1]][kv[2]] >= 0
    <2>1. kv[1] \in Keys /\ kv[2] \in Values
        OBVIOUS
    <2>2. age[kv[1]][kv[2]] \in -1 .. TTL
        BY <1>1, <2>1, AgeType
    <2> QED
        BY <1>3, <2>1, <2>2, TTLAssumption
<1>8. ~(Told').hit
    BY <1>5 DEF Told
<1>9. Abstract!Advance
    BY <1>1, <1>6, <1>7, <1>8, MappedEntries DEF Abstract!Advance
<1> QED
    BY <1>5, <1>9 DEF Abstract!CacheStep

\* A server that fails or loses its data forgets entries, and no more.
LEMMA LossStores ==
    ASSUME BothInvariants, StoreInvariant, RedisFails \/ RedisRecovers \/ Restart
    PROVE  StoreInvariant' /\ Abstract!CacheStep
<1>1. /\ build' = build /\ written' = written /\ pipeline' = <<>> /\ reply' = NoReply
      /\ age' = age /\ Dated(Serving, age)
      /\ redis' = redis \/ redis' = [k \in Keys |-> Absent]
      /\ memory' = memory \/ memory' = [k \in Keys |-> Absent]
    BY DEF StoreInvariant, RedisFails, RedisRecovers, Restart, Silent, calls, history
<1>2. \/ UNCHANGED <<at, keys, value, commands>>
      \/ at' = [r \in Requests |-> "idle"] /\ commands' = [r \in Requests |-> <<>>]
    BY DEF RedisFails, RedisRecovers, Restart, calls
<1>3. Serving' = Serving \/ Serving' = [k \in Keys |-> Absent]
    BY <1>1 DEF Serving, RedisBuild
<1>4. \A k \in Keys : Live(Serving', k) => Live(Serving, k) /\ (Serving')[k] = Serving[k]
    BY <1>3, AbsentType DEF Live
<1>5. Dated(Serving', age')
    BY <1>1, <1>4 DEF Dated
<1>6. LiveEntries(Serving)' \subseteq LiveEntries(Serving)
    BY <1>4 DEF LiveEntries, Live
<1>7. StoreInvariant' /\ reply'.kind # "hit"
    BY <1>1, <1>2, <1>5, EnvironmentStores DEF BothInvariants
<1> QED
    BY <1>1, <1>6, <1>7, Forgets

LEMMA StoreInit == ~RedisBuild /\ Init => StoreInvariant /\ Abstract!CacheInit
<1> SUFFICES ASSUME ~RedisBuild, Init
             PROVE  StoreInvariant /\ Abstract!CacheInit
    OBVIOUS
<1>1. \A k \in Keys : \A v \in Values : age[k][v] = -1
    BY DEF Init
<1>2. \A k \in Keys : ~Live(Serving, k)
    BY AbsentType DEF Init, Serving, Live
<1>4. \A r \in Requests : StoreCall(r)
    BY DEF Init, StoreCall, MemorySteps, HybridSteps, ExistsSteps, WriteSteps
<1>5. reply.kind = "none"
    BY DEF Init, NoReply
<1>6. StoreInvariant
    BY <1>1, <1>2, <1>4, <1>5
       DEF StoreInvariant, Init, Dated, FreshHits, ExistsAnswersItsKeys
<1>7. LiveEntries(memory) = {}
    BY <1>2 DEF LiveEntries, Serving
<1>8. {kv \in Keys \X Values : age[kv[1]][kv[2]] >= 0} = {}
    BY <1>1
<1>9. ~Told.hit
    BY <1>5 DEF Told
<1> QED
    BY <1>6, <1>7, <1>8, <1>9 DEF Abstract!CacheInit

\* A step of the cache without redis is a step of ExpiringCache, or none.
LEMMA StoreStep ==
    ASSUME DistinctUrls, BothInvariants, BothInvariants', StoreInvariant, [Next]_vars
    PROVE  StoreInvariant' /\ [Abstract!CacheStep]_(Abstract!cache)
<1>1. CASE \E r \in Requests : BeginCall(r)
    BY <1>1, BeginReadingStores, BeginWriteStores DEF BeginCall
<1>2. ASSUME NEW r \in Requests
      PROVE  ~PopulateMemory(r) /\ ~ReadRedis(r) /\ ~ExistsRedis(r) /\ ~WriteRedis(r)
    <2>1. StoreCall(r) /\ MissCall(r) /\ ~RedisBuild
        BY DEF BothInvariants, MissInvariant, StoreInvariant
    <2>2. at[r] \notin HybridSteps /\ at[r] \notin RedisSteps
        BY <2>1 DEF StoreCall, MissCall
    <2> QED
        BY <2>2 DEF HybridSteps, RedisSteps, PopulateMemory, ReadRedis, ExistsRedis, WriteRedis
<1>3. CASE \E r \in Requests : CallStep(r)
    BY <1>2, <1>3, ReadMemoryStores, ExistsMemoryStores, WriteMemoryStores, StoreBackStores
       DEF CallStep
<1>4. CASE Tick \/ RedisFails \/ RedisRecovers \/ Restart
    BY <1>4, TickStores, LossStores
<1>5. CASE UNCHANGED vars
    <2>1. UNCHANGED <<build, redis, memory, pipeline, at, keys, value, commands, reply,
                      written, age>>
        BY <1>5 DEF vars, servers, calls, history
    <2>2. \A r \in Requests : StoreCall(r)'
        BY <2>1 DEF StoreInvariant, StoreCall, Pending, RedisBuild
    <2>3. StoreInvariant'
        BY <2>1, <2>2
           DEF StoreInvariant, Dated, Serving, RedisBuild, Live, FreshHits,
               ExistsAnswersItsKeys, RecentlyStored
    <2>4. UNCHANGED Abstract!cache
        BY <2>1 DEF Abstract!cache, LiveEntries, Live, RedisBuild, Told
    <2> QED
        BY <2>3, <2>4
<1> QED
    BY <1>1, <1>3, <1>4, <1>5 DEF Next

\* The inductive invariant, which speaks of ages in the in-memory build.
StoresAreDated == BothInvariants /\ (~RedisBuild => StoreInvariant)

LEMMA BuildStays == [Next]_vars => UNCHANGED RedisBuild
<1> SUFFICES ASSUME [Next]_vars PROVE build' = build
    BY DEF RedisBuild
<1>1. CASE \E r \in Requests : BeginCall(r)
    BY <1>1 DEF BeginCall, BeginRead, BeginExists, BeginWrite, servers
<1>2. CASE \E r \in Requests : CallStep(r)
    BY <1>2 DEF CallStep, ReadMemory, ReadRedis, PopulateMemory, ExistsRedis, ExistsMemory,
                WriteRedis, WriteMemory, StoreBack, servers
<1>3. CASE Tick \/ RedisFails \/ RedisRecovers \/ Restart
    BY <1>3 DEF Tick, RedisFails, RedisRecovers, Restart
<1>4. CASE UNCHANGED vars
    BY <1>4 DEF vars, servers
<1> QED
    BY <1>1, <1>2, <1>3, <1>4 DEF Next

LEMMA StoreAlways ==
    ASSUME DistinctUrls
    PROVE  Spec => []StoresAreDated
<1>1. Init => StoresAreDated
    BY InitHolds, MissInit, StoreInit DEF StoresAreDated, BothInvariants
<1>2. StoresAreDated /\ [Next]_vars => StoresAreDated'
    BY StepKeeps, MissStep, StoreStep, BuildStays DEF StoresAreDated, BothInvariants
<1> QED
    BY <1>1, <1>2, PTL DEF Spec

\* Ages: in the in-memory build, and with no url twice in a call, whatever requests and
\* restarts there are, cached_results never returns what was stored a TTL ago.
THEOREM HitsAreFresh ==
    ASSUME DistinctUrls
    PROVE  Spec => [](~RedisBuild => FreshHits)
<1>1. StoresAreDated => (~RedisBuild => FreshHits)
    BY DEF StoresAreDated, StoreInvariant
<1> QED
    BY <1>1, StoreAlways, PTL

\* Flags: in the in-memory build, and with no url twice in a call, cached_results_exists
\* returns a flag for each url, and true ones only of urls stored within the TTL.
THEOREM FlagsAreOfTheirUrls ==
    ASSUME DistinctUrls
    PROVE  Spec => [](~RedisBuild => ExistsAnswersItsKeys)
<1>1. StoresAreDated => (~RedisBuild => ExistsAnswersItsKeys)
    BY DEF StoresAreDated, StoreInvariant
<1> QED
    BY <1>1, StoreAlways, PTL

\* Refinement: in the in-memory build, and with no url twice in a call, the steps of all
\* calls, the clock and the restarts are those of a cache whose entries expire.
THEOREM CacheImplementsExpiringCache ==
    ASSUME DistinctUrls
    PROVE  Spec => ImplementsExpiringCache
<1>1. Init => (~RedisBuild => Abstract!CacheInit)
    BY StoreInit
<1>2. StoresAreDated /\ StoresAreDated' /\ [Next]_vars =>
        [~RedisBuild => Abstract!CacheStep]_(Abstract!cache)
    BY StoreStep DEF StoresAreDated
<1> QED
    BY <1>1, <1>2, StoreAlways, PTL DEF Spec, ImplementsExpiringCache
=============================================================================
