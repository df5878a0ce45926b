---------------------------- MODULE WiringsProofs -----------------------------
(***************************************************************************)
(* What MatrixEngineProofs and MatrixWriteProofs say of one service, of    *)
(* the two of MCWirings, whichever of them was started, over any places,   *)
(* slots, clock and planner.                                               *)
(***************************************************************************)
EXTENDS MCWirings, MatrixWriteProofs

-----------------------------------------------------------------------------
(* The service with Redis *)

RedisInv == site = "redis" => IInv /\ SafeInv

\* With Redis there and forgetting nothing, what a call has bought is in Redis
\* between two provider calls, however often the client retries.
THEOREM RedisWrittenThrough == MCSpec => []RedisWriteThrough
<1>1. MCInit => RedisInv
  BY InitInv, InitSafe DEF MCInit, RedisInv
<1>2. RedisInv /\ [MCNext]_<<vars, site>> => RedisInv'
  <2> SUFFICES ASSUME RedisInv, [MCNext]_<<vars, site>>, site' = "redis" PROVE (IInv /\ SafeInv)'
    BY DEF RedisInv
  <2>1. [Next]_vars /\ IInv /\ SafeInv
    BY DEF MCNext, RedisInv
  <2> QED BY <2>1, NextInv, NextSafe, RedisWiring
<1>3. RedisInv => RedisWriteThrough
  BY SafeSuffices DEF RedisInv, RedisWriteThrough
<1> QED BY <1>1, <1>2, <1>3, PTL DEF MCSpec

RetryInv == site = "redis" => IInv /\ FitInv /\ ThriftInv

\* The client that retries there buys no pair that Redis holds.
THEOREM RedisPaysOnce == MCSpec => []RedisNeverPaysTwice
<1>1. MCInit => RetryInv
  BY InitInv, InitFit, InitThrifty DEF MCInit, RetryInv
<1>2. RetryInv /\ [MCNext]_<<vars, site>> => RetryInv'
  <2> SUFFICES ASSUME RetryInv, [MCNext]_<<vars, site>>, site' = "redis"
               PROVE  (IInv /\ FitInv /\ ThriftInv)'
    BY DEF RetryInv
  <2>1. [Next]_vars /\ IInv /\ FitInv /\ ThriftInv
    BY DEF MCNext, RetryInv
  <2> QED BY <2>1, NextInv, NextFit, NextThrifty, RedisWiring
<1>3. RetryInv => RedisNeverPaysTwice
  BY ThriftSuffices DEF RetryInv, RedisNeverPaysTwice
<1> QED BY <1>1, <1>2, <1>3, PTL DEF MCSpec

-----------------------------------------------------------------------------
(* The service without Redis *)

BareFacts == INSTANCE MatrixEngineProofs WITH
                 Request <- {r1, r2}, Waypoints <- Doubled, Strict <- {},
                 SlotOf <- [r \in {r1, r2} |-> 0],
                 UseRedis <- FALSE, UseArchive <- TRUE, UseAsync <- FALSE,
                 Faults <- {"short", "archiveGet", "archivePut"},
                 Resubmit <- {"504"}, Patient <- FALSE, MaxCrashes <- 0

\* Its steps are those of BareFacts: the two instances differ in nothing but the
\* module they take their definitions from.
LEMMA SameService ==
    /\ BareFacts!PlaceAssumption /\ BareFacts!RequestAssumption
    /\ BareFacts!BoundAssumption /\ BareFacts!PlanAssumption
    /\ Bare!Init <=> BareFacts!Init
    /\ [Bare!Next]_(Bare!vars) <=> [BareFacts!Next]_(BareFacts!vars)
    /\ Bare!AnswerFits <=> BareFacts!AnswerFits
<1>1. /\ BareFacts!PlaceAssumption /\ BareFacts!RequestAssumption
      /\ BareFacts!BoundAssumption /\ BareFacts!PlanAssumption
  BY BareWiring, Zenon DEF
     Bare!BoundAssumption, BareFacts!BoundAssumption, Bare!Cell, BareFacts!Cell, Bare!Cells,
     BareFacts!Cells, Bare!Contiguous, BareFacts!Contiguous, Bare!Covers, BareFacts!Covers,
     Bare!FaultKind, BareFacts!FaultKind, Bare!Fits, BareFacts!Fits, Bare!Hour, BareFacts!Hour,
     Bare!N, BareFacts!N, Bare!OffDiagonal, BareFacts!OffDiagonal, Bare!PlaceAssumption,
     BareFacts!PlaceAssumption, Bare!PlanAssumption, BareFacts!PlanAssumption,
     Bare!PlanContract, BareFacts!PlanContract, Bare!Reply, BareFacts!Reply,
     Bare!RequestAssumption, BareFacts!RequestAssumption, Bare!Segment, BareFacts!Segment,
     Bare!Range, BareFacts!Range
<1>2. Bare!Init <=> BareFacts!Init
  BY Zenon DEF
     Bare!Arc, BareFacts!Arc, Bare!Cell, BareFacts!Cell, Bare!Fresh, BareFacts!Fresh, Bare!Init,
     BareFacts!Init, Bare!N, BareFacts!N
<1>3. [Bare!Next]_(Bare!vars) <=> [BareFacts!Next]_(BareFacts!vars)
  BY Zenon DEF
     Bare!Absorb, BareFacts!Absorb, Bare!Absorbed, BareFacts!Absorbed, Bare!Advance,
     BareFacts!Advance, Bare!Answer, BareFacts!Answer, Bare!Arc, BareFacts!Arc, Bare!ArchiveGet,
     BareFacts!ArchiveGet, Bare!ArchiveWorker, BareFacts!ArchiveWorker, Bare!Cached,
     BareFacts!Cached, Bare!CallReturns, BareFacts!CallReturns, Bare!Cell, BareFacts!Cell,
     Bare!CloseTo, BareFacts!CloseTo, Bare!Crash, BareFacts!Crash, Bare!Crowded,
     BareFacts!Crowded, Bare!Do, BareFacts!Do, Bare!Durable, BareFacts!Durable, Bare!Enqueue,
     BareFacts!Enqueue, Bare!Evict, BareFacts!Evict, Bare!Expire, BareFacts!Expire,
     Bare!FillNext, BareFacts!FillNext, Bare!FillOverdue, BareFacts!FillOverdue, Bare!Found,
     BareFacts!Found, Bare!Fresh, BareFacts!Fresh, Bare!Fuzzy, BareFacts!Fuzzy, Bare!Hashes,
     BareFacts!Hashes, Bare!Here, BareFacts!Here, Bare!Hit, BareFacts!Hit, Bare!Invalid,
     BareFacts!Invalid, Bare!Key, BareFacts!Key, Bare!Legs, BareFacts!Legs, Bare!LookupFailed,
     BareFacts!LookupFailed, Bare!LookupSlot, BareFacts!LookupSlot, Bare!MakePlan,
     BareFacts!MakePlan, Bare!MayReverse, BareFacts!MayReverse, Bare!Missed, BareFacts!Missed,
     Bare!N, BareFacts!N, Bare!NearPairs, BareFacts!NearPairs, Bare!Next, BareFacts!Next,
     Bare!Offer, BareFacts!Offer, Bare!Over, BareFacts!Over, Bare!PairAt, BareFacts!PairAt,
     Bare!PairOf, BareFacts!PairOf, Bare!ProbeNext, BareFacts!ProbeNext, Bare!Promote,
     BareFacts!Promote, Bare!PutEdge, BareFacts!PutEdge, Bare!RedisGet, BareFacts!RedisGet,
     Bare!RedisPut, BareFacts!RedisPut, Bare!Returned, BareFacts!Returned, Bare!Running,
     BareFacts!Running, Bare!SetCell, BareFacts!SetCell, Bare!SlotsTried, BareFacts!SlotsTried,
     Bare!StartFill, BareFacts!StartFill, Bare!Step, BareFacts!Step, Bare!Steps,
     BareFacts!Steps, Bare!Submit, BareFacts!Submit, Bare!Swap, BareFacts!Swap, Bare!Tick,
     BareFacts!Tick, Bare!TimedOut, BareFacts!TimedOut, Bare!Upsert, BareFacts!Upsert,
     Bare!WalkNext, BareFacts!WalkNext, Bare!Wmt, BareFacts!Wmt, Bare!Write, BareFacts!Write,
     Bare!stores, BareFacts!stores, Bare!vars, BareFacts!vars, Bare!Cardinality,
     BareFacts!Cardinality
<1>4. Bare!AnswerFits <=> BareFacts!AnswerFits
  BY Zenon DEF
     Bare!AnswerFits, BareFacts!AnswerFits, Bare!Cell, BareFacts!Cell, Bare!CloseTo,
     BareFacts!CloseTo, Bare!Hashes, BareFacts!Hashes, Bare!N, BareFacts!N, Bare!PairFits,
     BareFacts!PairFits, Bare!PairOf, BareFacts!PairOf, Bare!SlotFits, BareFacts!SlotFits
<1> QED BY <1>1, <1>2, <1>3, <1>4

-----------------------------------------------------------------------------
(* Either service *)

EitherInv ==
    /\ site \in {"redis", "bare"}
    /\ site = "redis" => IInv /\ FitInv
    /\ site = "bare" => BareFacts!IInv /\ BareFacts!FitInv

\* Whichever service was started: a 200 has every cell off the diagonal filled
\* with a segment for that very cell and hour, also where Redis did not answer
\* and the archive and the provider fail.
THEOREM EitherAnswersFit == MCSpec => []AnswersFit
<1>1. MCInit => EitherInv
  <2>1. BareFacts!Init => BareFacts!IInv /\ BareFacts!FitInv
    BY SameService, BareFacts!InitInv, BareFacts!InitFit
  <2> QED BY <2>1, SameService, InitInv, InitFit DEF MCInit, EitherInv
<1>2. EitherInv /\ [MCNext]_<<vars, site>> => EitherInv'
  <2> SUFFICES ASSUME EitherInv, [MCNext]_<<vars, site>> PROVE EitherInv'
    OBVIOUS
  <2>1. site' = site /\ (site = "redis" => [Next]_vars) /\ (site = "bare" => [Bare!Next]_vars)
    BY DEF MCNext
  <2>2. CASE site = "redis"
    <3>1. IInv' /\ FitInv'
      BY <2>1, <2>2, NextInv, NextFit DEF EitherInv
    <3> QED BY <2>1, <2>2, <3>1 DEF EitherInv
  <2>3. CASE site = "bare"
    <3>1. [BareFacts!Next]_(BareFacts!vars)
      BY <2>1, <2>3, SameService DEF vars, Bare!vars
    <3>2. BareFacts!IInv' /\ BareFacts!FitInv'
      BY <2>3, <3>1, SameService, BareFacts!NextInv, BareFacts!NextFit DEF EitherInv
    <3> QED BY <2>1, <2>3, <3>2 DEF EitherInv
  <2> QED BY <2>2, <2>3 DEF EitherInv
<1>3. EitherInv => AnswersFit
  <2>1. BareFacts!FitInv => BareFacts!AnswerFits
    BY SameService, BareFacts!FitSuffices
  <2> QED BY <2>1, SameService, FitSuffices DEF EitherInv, AnswersFit
<1> QED BY <1>1, <1>2, <1>3, PTL DEF MCSpec
=============================================================================
