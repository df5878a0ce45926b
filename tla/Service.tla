------------------------------- MODULE Service --------------------------------
(***************************************************************************)
(* The life of the process (src/matrix.go, src/internal/svc): wiring at    *)
(* start, requests behind the rate limit, the asynchronous writer of the   *)
(* archive (src/internal/persist/archive.go), and the way down: after a    *)
(* signal the HTTP server returns from Start when its requests have ended, *)
(* then main's deferred calls close the channel of the writer, wait for    *)
(* its goroutine and close the database.                                   *)
(***************************************************************************)
EXTENDS TenantLimiter, FiniteSets

CONSTANTS
    Client,        \* HTTP clients, one request at a time
    TenantOf,      \* TenantOf[c]
    QueueCap,      \* Persistence.AsyncQueue
    MaxClock,      \* bound: ticks of a life of the process
    MaxJobs,       \* bound: jobs of a life of the process
    MaxLives,      \* bound: how often the process starts
    MaxOutages     \* bound: how often Redis or MySQL changes its state

VARIABLES
    phase,      \* of the process
    wired,      \* ServiceContext: which backends it found at start
    request,    \* request[c]: what the handler of c is doing; "none", "refused" if nothing
    ch,         \* AsyncWriter.ch and whether it is open
    worker,     \* AsyncWriter.loop and the job it has in hand
    accepted,   \* history: the jobs that were not dropped, in order
    tried,      \* history: the jobs handed to an open database, in order
    up,         \* which backends answer
    lives, outages

writer == <<ch, worker, accepted, tried>>
vars == <<limiter, phase, wired, request, writer, up, lives, outages>>

Backend == {"redis", "mysql"}
Job == 1 .. MaxJobs

ASSUME ServiceAssumption ==
    /\ \A c \in Client : TenantOf[c] \in Tenant
    /\ QueueCap \in Nat \ {0}
    /\ MaxJobs \in Nat /\ MaxLives \in Nat /\ MaxOutages \in Nat /\ MaxClock \in Nat

-----------------------------------------------------------------------------
(* Start *)

NoChannel == [open |-> FALSE, jobs |-> <<>>]
NoWorker  == [pc |-> "none", job |-> 0]

\* NewServiceContext: a backend that does not answer now is left out for good.
Boot ==
    /\ phase = "down" /\ lives < MaxLives
    /\ lives' = lives + 1
    /\ phase' = "up"
    /\ wired' = up
    /\ ch' = [open |-> "mysql" \in up, jobs |-> <<>>]
    /\ worker' = IF "mysql" \in up THEN [NoWorker EXCEPT !.pc = "loop"] ELSE NoWorker
    /\ accepted' = <<>> /\ tried' = <<>>
    /\ counters' = [t \in Tenant |-> Unknown]
    /\ log' = [t \in Tenant |-> <<>>]
    /\ clock' = 0
    /\ UNCHANGED <<request, up, outages>>

\* Ready, for a service with Redis enabled and keys.
Ready == phase = "up" /\ "redis" \in wired

-----------------------------------------------------------------------------
(* Requests *)

\* A request passes the rate limit or gets its 429.
Arrive(c) ==
    /\ phase = "up" /\ request[c] \in {"none", "refused"}
    /\ \/ /\ Admit(TenantOf[c])
          /\ request' = [request EXCEPT ![c] = "lookup"]
       \/ /\ Refuses(TenantOf[c])
          /\ request' = [request EXCEPT ![c] = "refused"]
          /\ UNCHANGED limiter
    /\ UNCHANGED <<phase, wired, writer, up, lives, outages>>

\* Lookups: a backend that was there at start and is gone now fails the request,
\* MySQL unless Redis has all edges.
Lookup(c) ==
    /\ request[c] = "lookup"
    /\ \/ /\ wired \cap {"redis"} \subseteq up
          /\ request' = [request EXCEPT ![c] = "persist"]
       \/ /\ ~(wired \subseteq up)
          /\ request' = [request EXCEPT ![c] = "none"]
    /\ UNCHANGED <<limiter, phase, wired, writer, up, lives, outages>>

\* Mutated form: one job more than the channel holds.
RoomForOneMore == Len(ch.jobs) <= QueueCap

Room == Len(ch.jobs) < QueueCap

\* EnqueueUpsert: a full channel drops the job, a closed one panics.
Persist(c) ==
    /\ request[c] = "persist"
    /\ "mysql" \in wired
    /\ Len(accepted) < MaxJobs
    /\ \/ /\ ~ch.open
          /\ phase' = "panic" /\ UNCHANGED <<ch, accepted>>
       \/ /\ ch.open /\ Room
          /\ accepted' = Append(accepted, Len(accepted) + 1)
          /\ ch' = [ch EXCEPT !.jobs = Append(@, Len(accepted) + 1)]
          /\ UNCHANGED phase
       \/ /\ ch.open /\ ~Room
          /\ UNCHANGED <<phase, ch, accepted>>
    /\ UNCHANGED <<limiter, wired, request, worker, tried, up, lives, outages>>

Reply(c) ==
    /\ request[c] = "persist"
    /\ request' = [request EXCEPT ![c] = "none"]
    /\ UNCHANGED <<limiter, phase, wired, writer, up, lives, outages>>

-----------------------------------------------------------------------------
(* The writer's goroutine *)

DatabaseOpen == phase # "closed"

Take ==
    /\ worker.pc = "loop" /\ ch.jobs # <<>>
    /\ worker' = [pc |-> "upsert", job |-> Head(ch.jobs)]
    /\ ch' = [ch EXCEPT !.jobs = Tail(@)]
    /\ UNCHANGED <<limiter, phase, wired, request, accepted, tried, up, lives, outages>>

\* Upsert, whose error is ignored.
Upsert ==
    /\ worker.pc = "upsert"
    /\ worker' = [NoWorker EXCEPT !.pc = "loop"]
    /\ tried' = IF DatabaseOpen THEN Append(tried, worker.job) ELSE tried
    /\ UNCHANGED <<limiter, phase, wired, request, ch, accepted, up, lives, outages>>

\* Mutated form: the loop goes on until the process ends.
NeverEnds == FALSE

\* range ends when the channel is closed and empty.
RangeEnds == ~ch.open /\ ch.jobs = <<>>

LoopEnds ==
    /\ worker.pc = "loop" /\ RangeEnds
    /\ worker' = [NoWorker EXCEPT !.pc = "done"]
    /\ UNCHANGED <<limiter, phase, wired, request, ch, accepted, tried, up, lives, outages>>

-----------------------------------------------------------------------------
(* The way down *)

Signal ==
    /\ phase = "up"
    /\ phase' = "draining"
    /\ UNCHANGED <<limiter, wired, request, writer, up, lives, outages>>

\* Mutated form: the channel is closed when the signal arrives.
ServedOrNot == TRUE

\* Start returns, and with it main, when the last request has ended.
Served == \A c \in Client : request[c] \in {"none", "refused"}

\* AsyncWriter.Close, first statement. Without a writer there is nothing to close.
CloseChannel ==
    /\ phase = "draining" /\ Served
    /\ ch' = [ch EXCEPT !.open = FALSE]
    /\ phase' = IF worker.pc = "none" THEN "closed" ELSE "closing"
    /\ UNCHANGED <<limiter, wired, request, worker, accepted, tried, up, lives, outages>>

\* Mutated form: Close does not wait for the goroutine.
DoneOrNot == TRUE

\* <-w.done
Done == worker.pc = "done"

CloseDatabase ==
    /\ phase = "closing" /\ Done
    /\ phase' = "closed"
    /\ UNCHANGED <<limiter, wired, request, writer, up, lives, outages>>

\* main returns.
Exit ==
    /\ phase = "closed"
    /\ phase' = "down"
    /\ worker' = NoWorker /\ ch' = NoChannel
    /\ request' = [c \in Client |-> "none"]
    /\ UNCHANGED <<limiter, wired, accepted, tried, up, lives, outages>>

\* Killed, or out of the grace period.
Kill ==
    /\ phase \in {"up", "draining", "closing"}
    /\ phase' = "down"
    /\ worker' = NoWorker /\ ch' = NoChannel
    /\ request' = [c \in Client |-> "none"]
    /\ UNCHANGED <<limiter, wired, accepted, tried, up, lives, outages>>

-----------------------------------------------------------------------------
Tick == /\ phase = "up" /\ clock < MaxClock
        /\ LimiterTick
        /\ UNCHANGED <<phase, wired, request, writer, up, lives, outages>>

Outage(b) ==
    /\ outages < MaxOutages
    /\ outages' = outages + 1
    /\ up' = IF b \in up THEN up \ {b} ELSE up \cup {b}
    /\ UNCHANGED <<limiter, phase, wired, request, writer, lives>>

Init ==
    /\ LimiterInit
    /\ phase = "down" /\ wired = {} /\ up = Backend
    /\ request = [c \in Client |-> "none"]
    /\ ch = NoChannel /\ worker = NoWorker
    /\ accepted = <<>> /\ tried = <<>>
    /\ lives = 0 /\ outages = 0

Handle(c) == Lookup(c) \/ Persist(c) \/ Reply(c)
Write == Take \/ Upsert \/ LoopEnds
Down  == CloseChannel \/ CloseDatabase \/ Exit

Next ==
    \/ Boot \/ Signal \/ Kill \/ Tick
    \/ \E b \in Backend : Outage(b)
    \/ \E c \in Client : Arrive(c) \/ Handle(c)
    \/ Write \/ Down

\* Handlers end at their deadline, the writer's goroutine and main run.
Spec ==
    /\ Init /\ [][Next]_vars
    /\ \A c \in Client : WF_vars(Lookup(c)) /\ WF_vars(Reply(c))
    /\ WF_vars(Write) /\ WF_vars(Down)

-----------------------------------------------------------------------------
(* Properties *)

TypeOK ==
    /\ LimiterTypeOK
    /\ phase \in {"down", "up", "draining", "closing", "closed", "panic"}
    /\ wired \subseteq Backend /\ up \subseteq Backend
    /\ request \in [Client -> {"none", "refused", "lookup", "persist"}]
    /\ ch \in [open : BOOLEAN, jobs : Seq(Job)] /\ Len(ch.jobs) <= QueueCap
    /\ worker \in [pc : {"none", "loop", "upsert", "done"}, job : Job \cup {0}]
    /\ accepted \in Seq(Job) /\ tried \in Seq(Job)

\* No handler ever sends to the closed channel of the writer.
NeverPanics == phase # "panic"

\* Every job the writer accepted before an orderly end was handed to the open
\* database, in order; what is lost is what was dropped or died in a kill.
NothingLeftBehind == phase = "closed" => tried = accepted

\* After a signal the process ends, however much is queued.
GoesDown == phase = "draining" ~> phase = "down"

\* docs/operations.md: readiness fails if Redis is enabled but down.
ReadyTellsRedis == Ready => "redis" \in up
=============================================================================
