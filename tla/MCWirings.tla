------------------------------ MODULE MCWirings ------------------------------
(***************************************************************************)
(* Two services in one instance: one with Redis and no archive, one whose  *)
(* Redis did not answer at start and whose archive is written without the  *)
(* queue. Which of them runs is chosen once, as NewServiceContext does.    *)
(***************************************************************************)
EXTENDS MCMatrixEngine

VARIABLE site

\* Doubled is the request of the service without Redis; its archive fails and
\* its provider leaves steps out.
Bare == INSTANCE MatrixEngine WITH
            Request <- {r1, r2}, Waypoints <- Doubled, Strict <- {},
            SlotOf <- [r \in {r1, r2} |-> 0],
            UseRedis <- FALSE, UseArchive <- TRUE, UseAsync <- FALSE,
            Faults <- {"short", "archiveGet", "archivePut"},
            Resubmit <- {"504"}, Patient <- FALSE, MaxCrashes <- 0

\* The service with Redis is one of those that WriteThrough and NeverPaysTwice
\* are stated for.
ASSUME RedisWiring == RedisReliable /\ LooksWhereItFiles

\* Bare's constants are of the kind MatrixEngine asks for.
ASSUME BareWiring == /\ Bare!PlaceAssumption /\ Bare!RequestAssumption
                     /\ Bare!BoundAssumption /\ Bare!PlanAssumption

MCInit ==
    \/ site = "redis" /\ Init
    \/ site = "bare" /\ Bare!Init

MCNext ==
    /\ UNCHANGED site
    /\ \/ site = "redis" /\ Next
       \/ site = "bare" /\ Bare!Next

MCFairness ==
    /\ \A r \in {r1} : WF_<<vars, site>>(site = "redis" /\ Step(r) /\ UNCHANGED site)
    /\ \A r \in {r1} : WF_<<vars, site>>(site = "redis" /\ Submit(r) /\ UNCHANGED site)
    /\ \A r \in {r1, r2} : WF_<<vars, site>>(site = "bare" /\ Bare!Step(r) /\ UNCHANGED site)

MCSpec == MCInit /\ [][MCNext]_<<vars, site>> /\ MCFairness

\* AnswerFits, for the requests of either service.
AnswersFit == IF site = "redis" THEN AnswerFits ELSE Bare!AnswerFits

\* WriteThrough and NeverPaysTwice of the service with Redis, which neither
\* fails nor evicts here.
RedisWriteThrough == site = "redis" => WriteThrough
RedisNeverPaysTwice == site = "redis" => NeverPaysTwice

\* EventuallyServed with Redis. Without it an archive that keeps failing
\* answers 400, and nothing is promised.
RedisServes == (site = "redis") => EventuallyServed
=============================================================================
