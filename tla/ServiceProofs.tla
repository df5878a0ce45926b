----------------------------- MODULE ServiceProofs -----------------------------
(***************************************************************************)
(* The limiter lets at most 2 * Limit requests of a tenant through in any  *)
(* window and refuses nobody without cause, for every Limit, Window and    *)
(* set of tenants. Both rest on what a counter knows about the history s   *)
(* of its tenant: the admission that opened its window, how many followed  *)
(* it, and that the admissions before the previous window are a window     *)
(* older.                                                                  *)
(*                                                                         *)
(* Then the limiter inside the service, and the way down: no handler sends *)
(* to the closed channel of the archive's writer, and an orderly end hands *)
(* every accepted job to the open database, for any number of clients,     *)
(* jobs, restarts and outages. The reason is the order in which main's     *)
(* deferred calls run: requests end before the channel closes, and the     *)
(* writer ends before the database closes.                                 *)
(***************************************************************************)
EXTENDS Service, SequenceTheorems, TLAPS

(* The limiter of tenants *)

\* Admissions are logged in the order of the clock.
InOrder(s, now) ==
    /\ \A i \in 1 .. Len(s) : s[i] <= now
    /\ \A i, k \in 1 .. Len(s) : i <= k => s[i] <= s[k]

\* A window that started at start has admitted count requests, the last of s.
Holds(s, start, count) ==
    /\ 1 <= count /\ count <= Limit /\ count <= Len(s)
    /\ s[Len(s) - count + 1] = start

\* A window holds at most Limit admissions, so what was admitted Limit
\* admissions before the opening of this one was admitted before or at the
\* opening of the last one.
OlderWindows(s, start, count) ==
    \A i \in 1 .. Len(s) : i <= Len(s) - count + 1 - Limit => start - s[i] >= Window

Spread(s) ==
    \A i, k \in 1 .. Len(s) : k = i + 2 * Limit => s[k] - s[i] >= Window

Kept(t) ==
    /\ InOrder(log[t], clock)
    /\ Spread(log[t])
    /\ IF counters[t].known
       THEN /\ Holds(log[t], counters[t].start, counters[t].count)
            /\ OlderWindows(log[t], counters[t].start, counters[t].count)
       ELSE log[t] = <<>>

LimiterInv == LimiterTypeOK /\ \A t \in Tenant : Kept(t)

-----------------------------------------------------------------------------
(* One more entry in a history *)

LEMMA Sizes == /\ Limit \in Nat /\ Limit >= 1 /\ 2 * Limit \in Nat
               /\ Window \in Nat /\ Window >= 1
  BY LimitAssumption, WindowAssumption

LEMMA Appended ==
  ASSUME NEW s \in Seq(Nat), NEW now \in Nat
  PROVE  /\ Len(s) \in Nat
         /\ Append(s, now) \in Seq(Nat)
         /\ Len(Append(s, now)) = Len(s) + 1
         /\ Append(s, now)[Len(s) + 1] = now
         /\ \A i \in 1 .. Len(s) : Append(s, now)[i] = s[i] /\ s[i] \in Nat
  OBVIOUS

LEMMA OrderKept ==
  ASSUME NEW s \in Seq(Nat), NEW now \in Nat, InOrder(s, now)
  PROVE  InOrder(Append(s, now), now)
<1> DEFINE r == Append(s, now)
           n == Len(s)
<1>1. /\ n \in Nat /\ Len(r) = n + 1 /\ r[n + 1] = now
      /\ \A i \in 1 .. n : r[i] = s[i] /\ s[i] \in Nat
  BY Appended
<1>2. /\ \A i \in 1 .. n : s[i] <= now
      /\ \A i, k \in 1 .. n : i <= k => s[i] <= s[k]
  BY DEF InOrder
<1> HIDE DEF r, n
<1>3. \A i \in 1 .. n + 1 : r[i] <= now
  BY <1>1, <1>2
<1>4. ASSUME NEW i \in 1 .. n + 1, NEW k \in 1 .. n + 1, i <= k
      PROVE  r[i] <= r[k]
  <2>1. CASE k = n + 1
    BY <2>1, <1>1, <1>3
  <2>2. CASE k \in 1 .. n
    BY <2>2, <1>1, <1>2, <1>4
  <2> QED
    BY <2>1, <2>2, <1>1
<1>5. InOrder(r, now)
  BY <1>1, <1>3, <1>4 DEF InOrder
<1> QED
  BY <1>5 DEF r

\* A window that is over, and everything up to its opening, is a window old.
LEMMA WindowOver ==
  ASSUME NEW s \in Seq(Nat), NEW now \in Nat, NEW start \in Nat, NEW count \in Nat,
         InOrder(s, now), Holds(s, start, count), now - start >= Window,
         NEW i \in 1 .. Len(s), i <= Len(s) - count + 1
  PROVE  now - s[i] >= Window
<1> DEFINE m == Len(s) - count + 1
<1>1. m \in 1 .. Len(s) /\ s[m] = start /\ s[i] \in Nat /\ i <= m
  BY Appended DEF Holds
<1>2. s[i] <= s[m]
  BY <1>1 DEF InOrder
<1> QED
  BY <1>1, <1>2, Sizes

\* The new entry is far enough from the one 2 * Limit before it, if that one is
\* a window old.
LEMMA SpreadKept ==
  ASSUME NEW s \in Seq(Nat), NEW now \in Nat, Spread(s),
         \A i \in 1 .. Len(s) : Len(s) + 1 = i + 2 * Limit => now - s[i] >= Window
  PROVE  Spread(Append(s, now))
<1> DEFINE r == Append(s, now)
           n == Len(s)
<1>1. /\ n \in Nat /\ Len(r) = n + 1 /\ r[n + 1] = now
      /\ \A i \in 1 .. n : r[i] = s[i] /\ s[i] \in Nat
  BY Appended
<1>2. /\ \A i, k \in 1 .. n : k = i + 2 * Limit => s[k] - s[i] >= Window
      /\ \A i \in 1 .. n : n + 1 = i + 2 * Limit => now - s[i] >= Window
  BY DEF Spread
<1> HIDE DEF r, n
<1>3. ASSUME NEW i \in 1 .. n + 1, NEW k \in 1 .. n + 1, k = i + 2 * Limit
      PROVE  r[k] - r[i] >= Window
  <2>1. i \in 1 .. n
    BY <1>3, <1>1, Sizes
  <2>2. CASE k = n + 1
    BY <2>1, <2>2, <1>1, <1>2, <1>3
  <2>3. CASE k \in 1 .. n
    BY <2>1, <2>3, <1>1, <1>2, <1>3
  <2> QED
    BY <2>2, <2>3, <1>1
<1>4. Spread(r)
  BY <1>1, <1>3 DEF Spread
<1> QED
  BY <1>4 DEF r

\* A first window, or one after a window that is over.
LEMMA WindowOpened ==
  ASSUME NEW s \in Seq(Nat), NEW now \in Nat, InOrder(s, now), Spread(s),
         \A i \in 1 .. Len(s) : i <= Len(s) + 1 - Limit => now - s[i] >= Window
  PROVE  /\ Holds(Append(s, now), now, 1)
         /\ OlderWindows(Append(s, now), now, 1)
         /\ Spread(Append(s, now))
<1> DEFINE r == Append(s, now)
           n == Len(s)
<1>1. /\ n \in Nat /\ Len(r) = n + 1 /\ r[n + 1] = now
      /\ \A i \in 1 .. n : r[i] = s[i] /\ s[i] \in Nat
  BY Appended
<1>2. \A i \in 1 .. n : i <= n + 1 - Limit => now - s[i] >= Window
  OBVIOUS
<1>3. Spread(r)
  BY <1>1, <1>2, Sizes, SpreadKept
<1> HIDE DEF r, n
<1>4. Holds(r, now, 1)
  BY <1>1, Sizes DEF Holds
<1>5. ASSUME NEW i \in 1 .. n + 1, i <= n + 1 - Limit
      PROVE  now - r[i] >= Window
  BY <1>1, <1>2, <1>5, Sizes
<1>6. OlderWindows(r, now, 1)
  BY <1>1, <1>5, Sizes DEF OlderWindows
<1> QED
  BY <1>3, <1>4, <1>6 DEF r

\* One more in a window with room.
LEMMA WindowUsed ==
  ASSUME NEW s \in Seq(Nat), NEW now \in Nat, NEW start \in Nat, NEW count \in Nat,
         InOrder(s, now), Spread(s), Holds(s, start, count), OlderWindows(s, start, count),
         count < Limit
  PROVE  /\ Holds(Append(s, now), start, count + 1)
         /\ OlderWindows(Append(s, now), start, count + 1)
         /\ Spread(Append(s, now))
<1> DEFINE r == Append(s, now)
           n == Len(s)
<1>1. /\ n \in Nat /\ Len(r) = n + 1 /\ r[n + 1] = now
      /\ \A i \in 1 .. n : r[i] = s[i] /\ s[i] \in Nat
  BY Appended
<1>2. /\ 1 <= count /\ count <= n /\ s[n - count + 1] = start
      /\ \A i \in 1 .. n : s[i] <= now
      /\ \A i \in 1 .. n : i <= n - count + 1 - Limit => start - s[i] >= Window
  BY DEF Holds, InOrder, OlderWindows
<1>3. start <= now
  <2>1. Len(s) - count + 1 \in 1 .. Len(s)
    BY <1>1, <1>2
  <2>2. s[Len(s) - count + 1] <= now
    BY <2>1, <1>2
  <2> QED
    BY <2>2, <1>2
<1>4. ASSUME NEW i \in 1 .. n, n + 1 = i + 2 * Limit
      PROVE  now - s[i] >= Window
  <2>1. i <= n - count + 1 - Limit
    BY <1>1, <1>4, Sizes
  <2>2. start - s[i] >= Window
    BY <2>1, <1>2
  <2> QED
    BY <2>2, <1>1, <1>3, Sizes
<1>5. Spread(r)
  BY <1>4, SpreadKept
<1> HIDE DEF r, n
<1>6. Holds(r, start, count + 1)
  <2>1. n - count + 1 \in 1 .. n
    BY <1>1, <1>2
  <2> QED
    BY <2>1, <1>1, <1>2, Sizes DEF Holds
<1>7. ASSUME NEW i \in 1 .. n + 1, i <= n + 1 - (count + 1) + 1 - Limit
      PROVE  start - r[i] >= Window
  <2>1. i \in 1 .. n /\ i <= n - count + 1 - Limit
    BY <1>1, <1>2, <1>7, Sizes
  <2> QED
    BY <2>1, <1>1, <1>2
<1>8. OlderWindows(r, start, count + 1)
  BY <1>1, <1>7 DEF OlderWindows
<1> QED
  BY <1>5, <1>6, <1>8 DEF r

-----------------------------------------------------------------------------
(* The steps *)

LEMMA LimiterInitInv == LimiterInit => LimiterInv
<1> SUFFICES ASSUME LimiterInit PROVE LimiterInv
  OBVIOUS
<1>1. LimiterTypeOK
  BY DEF LimiterInit, LimiterTypeOK, Counter, Unknown
<1>2. ASSUME NEW t \in Tenant PROVE Kept(t)
  <2>1. log[t] = <<>> /\ ~counters[t].known /\ Len(log[t]) = 0
    BY DEF LimiterInit, Unknown
  <2> QED
    BY <2>1, Sizes DEF Kept, InOrder, Spread
<1> QED
  BY <1>1, <1>2 DEF LimiterInv

LEMMA Typed ==
  ASSUME LimiterInv, NEW t \in Tenant
  PROVE  /\ log[t] \in Seq(Nat) /\ clock \in Nat
         /\ counters[t] \in Counter
         /\ counters[t].known \in BOOLEAN
         /\ counters[t].start \in Nat /\ counters[t].count \in Nat
<1>1. log[t] \in Seq(Nat) /\ clock \in Nat /\ counters[t] \in Counter
  BY DEF LimiterInv, LimiterTypeOK
<1> QED
  BY <1>1 DEF Counter

\* The clock may go on: nothing in the invariant bounds it from above.
LEMMA TickKeeps ==
  ASSUME LimiterInv, LimiterTick
  PROVE  LimiterInv'
<1>1. LimiterTypeOK'
  BY DEF LimiterInv, LimiterTypeOK, LimiterTick
<1>2. ASSUME NEW t \in Tenant PROVE Kept(t)'
  <2>1. log[t] \in Seq(Nat) /\ clock \in Nat /\ clock' = clock + 1 /\ UNCHANGED <<counters, log>>
    BY Typed DEF LimiterTick
  <2>2. Kept(t)
    BY DEF LimiterInv
  <2>3. InOrder(log[t], clock + 1)
    BY <2>1, <2>2 DEF Kept, InOrder
  <2> QED
    BY <2>1, <2>2, <2>3 DEF Kept
<1> QED
  BY <1>1, <1>2 DEF LimiterInv

\* Another tenant's admission changes nothing of a tenant.
LEMMA OthersKeep ==
  ASSUME LimiterInv, NEW t \in Tenant, NEW u \in Tenant, t # u, Admit(t)
  PROVE  Kept(u)'
<1>1. counters'[u] = counters[u] /\ log'[u] = log[u] /\ clock' = clock
  BY DEF LimiterInv, LimiterTypeOK, Admit
<1> QED
  BY <1>1 DEF LimiterInv, Kept

\* The admitted tenant: its history grows by one entry, and its counter opens a
\* window or counts one more.
LEMMA AdmitKeeps ==
  ASSUME LimiterInv, NEW t \in Tenant, Admit(t)
  PROVE  Kept(t)'
<1>1. log'[t] = Append(log[t], clock) /\ clock' = clock
  BY DEF LimiterInv, LimiterTypeOK, Admit
<1>2. Kept(t)
  BY DEF LimiterInv
<1>3. InOrder(Append(log[t], clock), clock)
  BY <1>2, Typed, OrderKept DEF Kept
<1>4. CASE Fresh(t)
  <2>1. counters'[t] = [known |-> TRUE, start |-> clock, count |-> 1]
    BY <1>4 DEF LimiterInv, LimiterTypeOK, Admit
  <2>2. counters'[t].known /\ counters'[t].start = clock /\ counters'[t].count = 1
    BY <2>1
  <2>3. ASSUME NEW i \in 1 .. Len(log[t]), i <= Len(log[t]) + 1 - Limit
        PROVE  clock - log[t][i] >= Window
    <3>1. CASE ~counters[t].known
      <4>1. Len(log[t]) = 0
        BY <3>1, <1>2 DEF Kept
      <4> QED
        BY <4>1
    <3>2. CASE counters[t].known
      <4>1. clock - counters[t].start >= Window
        BY <3>2, <1>4 DEF Fresh
      <4>2. Holds(log[t], counters[t].start, counters[t].count) /\ InOrder(log[t], clock)
        BY <3>2, <1>2 DEF Kept
      <4>3. counters[t].count <= Limit
        BY <4>2 DEF Holds
      <4>4. Len(log[t]) \in Nat /\ counters[t].count \in Nat
        BY Typed, Appended
      <4>5. i <= Len(log[t]) - counters[t].count + 1
        BY <2>3, <4>3, <4>4, Sizes
      <4> QED
        BY <4>1, <4>2, <4>5, Typed, WindowOver
    <3> QED
      BY <3>1, <3>2
  <2>4. /\ Holds(Append(log[t], clock), clock, 1)
        /\ OlderWindows(Append(log[t], clock), clock, 1)
        /\ Spread(Append(log[t], clock))
    BY <2>3, <1>2, Typed, WindowOpened DEF Kept
  <2> QED
    BY <1>1, <1>3, <2>2, <2>4 DEF Kept
<1>5. CASE ~Fresh(t)
  <2>1. counters'[t] = [known |-> TRUE, start |-> counters[t].start, count |-> counters[t].count + 1]
    BY <1>5 DEF LimiterInv, LimiterTypeOK, Admit
  <2>2. /\ counters'[t].known
        /\ counters'[t].start = counters[t].start
        /\ counters'[t].count = counters[t].count + 1
    BY <2>1
  <2>3. counters[t].known /\ counters[t].count < Limit
    BY <1>5, Typed, Sizes DEF Admit, Fresh, Refuses, Full
  <2>4. /\ Holds(Append(log[t], clock), counters[t].start, counters[t].count + 1)
        /\ OlderWindows(Append(log[t], clock), counters[t].start, counters[t].count + 1)
        /\ Spread(Append(log[t], clock))
    BY <2>3, <1>2, Typed, WindowUsed DEF Kept
  <2> QED
    BY <1>1, <1>3, <2>2, <2>4 DEF Kept
<1> QED
  BY <1>4, <1>5

LEMMA AdmitInv ==
  ASSUME LimiterInv, NEW t \in Tenant, Admit(t)
  PROVE  LimiterInv'
<1>1. LimiterTypeOK'
  <2>1. Append(log[t], clock) \in Seq(Nat)
    BY Typed, Appended
  <2>2. log' \in [Tenant -> Seq(Nat)] /\ clock' \in Nat
    BY <2>1 DEF LimiterInv, LimiterTypeOK, Admit
  <2>3. [known |-> TRUE, start |-> clock, count |-> 1] \in Counter
    BY Typed DEF Counter
  <2>4. [known |-> TRUE, start |-> counters[t].start, count |-> counters[t].count + 1] \in Counter
    BY Typed DEF Counter
  <2>5. counters' \in [Tenant -> Counter]
    BY <2>3, <2>4 DEF LimiterInv, LimiterTypeOK, Admit
  <2> QED
    BY <2>2, <2>5 DEF LimiterTypeOK
<1>2. ASSUME NEW u \in Tenant PROVE Kept(u)'
  BY AdmitKeeps, OthersKeep
<1> QED
  BY <1>1, <1>2 DEF LimiterInv

LEMMA StutterInv ==
  ASSUME LimiterInv, UNCHANGED limiter
  PROVE  LimiterInv'
BY DEF LimiterInv, limiter, LimiterTypeOK, Kept

\* What the invariant says about bursts and refusals.
LEMMA InvImplies == LimiterInv => LimiterTypeOK /\ AdmissionBound /\ RefusedJustly
<1> SUFFICES ASSUME LimiterInv PROVE AdmissionBound /\ RefusedJustly
  BY DEF LimiterInv
<1>1. ASSUME NEW t \in Tenant, NEW i \in 1 .. Len(log[t]) - 2 * Limit
      PROVE  log[t][i + 2 * Limit] - log[t][i] >= Window
  <2>1. Len(log[t]) \in Nat /\ Spread(log[t])
    BY Typed, Appended DEF LimiterInv, Kept
  <2>2. i \in 1 .. Len(log[t]) /\ i + 2 * Limit \in 1 .. Len(log[t])
    BY <1>1, <2>1, Sizes
  <2> QED
    BY <2>1, <2>2 DEF Spread
<1>2. ASSUME NEW t \in Tenant, Refuses(t) PROVE Justified(t)
  <2>1. Len(log[t]) \in Nat /\ Kept(t)
    BY Typed, Appended DEF LimiterInv
  <2>2. counters[t].known /\ clock - counters[t].start < Window /\ counters[t].count >= Limit
    BY <1>2, Typed, Sizes DEF Refuses, Fresh, Full
  <2>3. Holds(log[t], counters[t].start, counters[t].count)
    BY <2>1, <2>2 DEF Kept
  <2>4. counters[t].count = Limit
    BY <2>2, <2>3, Typed, Sizes DEF Holds
  <2>5. Limit <= Len(log[t]) /\ log[t][Len(log[t]) - Limit + 1] = counters[t].start
    BY <2>3, <2>4 DEF Holds
  <2> QED
    BY <2>2, <2>5, <2>1, Sizes DEF Justified
<1> QED
  BY <1>1, <1>2 DEF RefusedJustly, AdmissionBound

\* The limiter on its own, whatever the clock does: bursts are bounded and
\* refusals are justified.
THEOREM LimiterCorrect ==
  LimiterSpec => [](LimiterTypeOK /\ AdmissionBound /\ RefusedJustly)
<1>1. LimiterInv /\ [LimiterNext]_limiter => LimiterInv'
  BY TickKeeps, AdmitInv, StutterInv DEF LimiterNext
<1> QED
  BY <1>1, LimiterInitInv, InvImplies, PTL DEF LimiterSpec

-----------------------------------------------------------------------------
(* The service *)

\* The limiter's part of a step of the service.
LimiterStep ==
    \/ LimiterTick
    \/ \E t \in Tenant : Admit(t)
    \/ UNCHANGED limiter
    \/ LimiterInit'

LEMMA LimiterSteps == [Next]_vars => LimiterStep
<1> SUFFICES ASSUME [Next]_vars PROVE LimiterStep
  OBVIOUS
<1>1. CASE Boot
  BY <1>1 DEF Boot, LimiterStep, LimiterInit
<1>2. CASE Tick
  BY <1>2 DEF Tick, LimiterStep
<1>3. CASE \E c \in Client : Arrive(c)
  BY <1>3, ServiceAssumption DEF Arrive, LimiterStep
<1>4. CASE \E c \in Client : Handle(c)
  BY <1>4 DEF Handle, Lookup, Persist, Reply, LimiterStep, limiter
<1>5. CASE Signal \/ Kill \/ Down
  BY <1>5 DEF Signal, Kill, Down, CloseChannel, CloseDatabase, Exit, LimiterStep, limiter
<1>6. CASE Write
  BY <1>6 DEF Write, Take, Upsert, LoopEnds, LimiterStep, limiter
<1>7. CASE \E b \in Backend : Outage(b)
  BY <1>7 DEF Outage, LimiterStep, limiter
<1>8. CASE UNCHANGED vars
  BY <1>8 DEF vars, LimiterStep, limiter
<1> QED
  BY <1>1, <1>2, <1>3, <1>4, <1>5, <1>6, <1>7, <1>8 DEF Next

\* In the running service, through restarts, a tenant never gets more than
\* 2 * Limit requests past the limiter within a window, and a 429 has a cause.
THEOREM ServiceLimits == Spec => [](LimiterTypeOK /\ AdmissionBound /\ RefusedJustly)
<1>1. Init => LimiterInv
  BY LimiterInitInv DEF Init
<1>2. LimiterInit' => LimiterInv'
  BY LimiterInitInv, PTL
<1>3. LimiterInv /\ [Next]_vars => LimiterInv'
  BY <1>2, LimiterSteps, TickKeeps, AdmitInv, StutterInv DEF LimiterStep
<1> QED
  BY <1>1, <1>3, InvImplies, PTL DEF Spec

-----------------------------------------------------------------------------
(* The way down *)

\* The job the writer's goroutine has taken and not finished.
InHand == IF worker.pc = "upsert" THEN <<worker.job>> ELSE <<>>

Serving == phase \in {"up", "draining"}

Types ==
    /\ phase \in {"down", "up", "draining", "closing", "closed"}
    /\ wired \subseteq Backend /\ up \subseteq Backend
    /\ request \in [Client -> {"none", "refused", "lookup", "persist"}]
    /\ ch \in [open : BOOLEAN, jobs : Seq(Job)] /\ Len(ch.jobs) <= QueueCap
    /\ worker \in [pc : {"none", "loop", "upsert", "done"}, job : Job \cup {0}]
    /\ worker.pc = "upsert" => worker.job \in Job
    /\ accepted \in Seq(Job) /\ tried \in Seq(Job)

\* Handlers only run while the process serves, and the channel is open as long.
OpenWhileServing ==
    /\ ch.open <=> Serving /\ "mysql" \in wired
    /\ ~Serving => \A c \in Client : request[c] \in {"none", "refused"}

\* Accepted jobs are with the database, in the goroutine's hand or in the
\* channel, in this order; once the goroutine has ended, all are with the database.
NothingLost ==
    /\ phase # "down" => accepted = (tried \o InHand) \o ch.jobs
    /\ worker.pc = "none" => ch.jobs = <<>> /\ ~ch.open
    /\ worker.pc = "done" => ch.jobs = <<>> /\ ~ch.open
    /\ phase = "closed" => worker.pc \in {"none", "done"}
    /\ phase = "down" => worker.pc = "none"

IInv == Types /\ OpenWhileServing /\ NothingLost

LEMMA AppendLast ==
  \A s, r \in Seq(Job) : \A x \in Job : s \o Append(r, x) = Append(s \o r, x)
  OBVIOUS

LEMMA Regroup ==
  \A s, h, r \in Seq(Job) : (s \o h) \o r = s \o (h \o r)
  BY ConcatAssociative

LEMMA AppendOne ==
  ASSUME NEW S, NEW s \in Seq(S), NEW x \in S
  PROVE  Append(s, x) = s \o <<x>>
  OBVIOUS

LEMMA HeadFirst ==
  ASSUME NEW S, NEW s \in Seq(S), s # <<>>
  PROVE  /\ Head(s) \in S /\ Tail(s) \in Seq(S) /\ Len(Tail(s)) <= Len(s)
         /\ <<Head(s)>> \o Tail(s) = s
  OBVIOUS

LEMMA InitIInv == Init => IInv
<1> SUFFICES ASSUME Init PROVE IInv
  OBVIOUS
<1>1. NoChannel \in [open : BOOLEAN, jobs : Seq(Job)] /\ Len(NoChannel.jobs) <= QueueCap
  BY ServiceAssumption DEF NoChannel
<1>2. NoWorker \in [pc : {"none", "loop", "upsert", "done"}, job : Job \cup {0}]
  BY DEF NoWorker
<1>3. Types
  BY <1>1, <1>2 DEF Init, Types, NoWorker
<1> QED
  BY <1>3 DEF IInv, Init, OpenWhileServing, NothingLost, Serving, NoChannel, NoWorker

LEMMA BootKeeps == IInv /\ Boot => IInv'
<1> SUFFICES ASSUME IInv, Boot PROVE IInv'
  OBVIOUS
<1>1. /\ ch' = [open |-> "mysql" \in up, jobs |-> <<>>]
      /\ ch'.open = ("mysql" \in up) /\ ch'.jobs = <<>>
  BY DEF Boot
<1>2. worker' = [pc |-> IF "mysql" \in up THEN "loop" ELSE "none", job |-> 0]
  BY DEF Boot, NoWorker
<1>3. worker'.pc = IF "mysql" \in up THEN "loop" ELSE "none"
  BY <1>2
<1>4. Types'
  <2>1. ch' \in [open : BOOLEAN, jobs : Seq(Job)] /\ Len(ch'.jobs) <= QueueCap
    BY <1>1, ServiceAssumption
  <2>2. worker' \in [pc : {"none", "loop", "upsert", "done"}, job : Job \cup {0}]
    BY <1>2
  <2>3. worker'.pc # "upsert"
    BY <1>3
  <2>4. accepted' \in Seq(Job) /\ tried' \in Seq(Job) /\ phase' = "up"
    BY DEF Boot
  <2>5. wired' \subseteq Backend /\ up' \subseteq Backend /\ request' = request
    BY DEF IInv, Types, Boot
  <2> QED
    BY <2>1, <2>2, <2>3, <2>4, <2>5 DEF IInv, Types
<1>5. accepted' = <<>> /\ tried' = <<>> /\ phase' = "up" /\ wired' = up /\ request' = request
  BY DEF Boot
<1>6. InHand' = <<>>
  BY <1>3 DEF InHand
<1>7. (<<>> \o <<>>) \o <<>> = <<>>
  BY EmptySeq, ConcatEmptySeq
<1>8. OpenWhileServing'
  BY <1>1, <1>5 DEF OpenWhileServing, Serving
<1>9. NothingLost'
  BY <1>1, <1>3, <1>5, <1>6, <1>7 DEF NothingLost
<1> QED
  BY <1>4, <1>8, <1>9 DEF IInv

\* Steps that leave the writer, the phase and the wiring alone; handlers only
\* start in a process that is up.
LEMMA RequestKeeps ==
  ASSUME IInv, UNCHANGED <<phase, wired, writer>>, up' \subseteq Backend,
         request' = request \/ \E c \in Client : Arrive(c) \/ Lookup(c) \/ Reply(c)
  PROVE  IInv'
<1>1. request' \in [Client -> {"none", "refused", "lookup", "persist"}]
  BY DEF IInv, Types, Arrive, Lookup, Reply
<1>2. Types'
  BY <1>1 DEF IInv, Types, writer
<1>3. ~Serving => \A c \in Client : request'[c] \in {"none", "refused"}
  BY DEF IInv, Types, OpenWhileServing, Serving, Arrive, Lookup, Reply
<1> QED
  BY <1>2, <1>3 DEF IInv, OpenWhileServing, NothingLost, Serving, writer, InHand

\* A handler that persists runs in a process that serves, with an open channel.
LEMMA PersistKeeps ==
  ASSUME IInv, NEW c \in Client, Persist(c)
  PROVE  IInv'
<1>1. Serving /\ ch.open
  BY DEF IInv, OpenWhileServing, Persist
<1>2. UNCHANGED <<phase, wired, request, worker, tried, up>>
  BY <1>1 DEF Persist
<1>3. CASE UNCHANGED <<ch, accepted>>
  BY <1>2, <1>3 DEF IInv, Types, OpenWhileServing, NothingLost, Serving, InHand
<1>4. CASE ~UNCHANGED <<ch, accepted>>
  <2> DEFINE x == Len(accepted) + 1
  <2>1. /\ Room /\ accepted' = Append(accepted, x)
        /\ ch' = [ch EXCEPT !.jobs = Append(ch.jobs, x)]
    BY <1>1, <1>4 DEF Persist
  <2>2. ch.jobs \in Seq(Job) /\ accepted \in Seq(Job) /\ tried \in Seq(Job)
    BY DEF IInv, Types
  <2>3. x \in Job
    BY <2>2, ServiceAssumption DEF Persist, Job
  <2>4. ch'.jobs = Append(ch.jobs, x) /\ ch'.open = ch.open
    BY <2>1 DEF IInv, Types
  <2> HIDE DEF x
  <2>5. Append(ch.jobs, x) \in Seq(Job) /\ Len(Append(ch.jobs, x)) <= QueueCap
    BY <2>1, <2>2, <2>3, ServiceAssumption DEF Room
  <2>6. ch' \in [open : BOOLEAN, jobs : Seq(Job)]
    BY <2>1, <2>5 DEF IInv, Types
  <2>7. accepted' \in Seq(Job)
    BY <2>1, <2>2, <2>3
  <2>8. Types'
    BY <1>2, <2>4, <2>5, <2>6, <2>7 DEF IInv, Types
  <2>9. InHand \in Seq(Job) /\ InHand' = InHand
    BY <1>2 DEF IInv, Types, InHand
  <2>10. tried \o InHand \in Seq(Job)
    BY <2>2, <2>9
  <2>11. accepted = (tried \o InHand) \o ch.jobs
    BY <1>1 DEF IInv, NothingLost, Serving
  <2>12. accepted' = (tried \o InHand) \o ch'.jobs
    <3>1. (tried \o InHand) \o Append(ch.jobs, x) = Append((tried \o InHand) \o ch.jobs, x)
      BY <2>2, <2>3, <2>10, AppendLast, Zenon
    <3> QED
      BY <2>1, <2>4, <2>11, <3>1
  <2>13. OpenWhileServing'
    BY <1>2, <2>4 DEF IInv, OpenWhileServing, Serving
  <2>14. NothingLost'
    BY <1>1, <1>2, <2>4, <2>9, <2>12 DEF IInv, NothingLost, Serving
  <2> QED
    BY <2>8, <2>13, <2>14 DEF IInv
<1> QED
  BY <1>3, <1>4

LEMMA TakeKeeps == IInv /\ Take => IInv'
<1> SUFFICES ASSUME IInv, Take PROVE IInv'
  OBVIOUS
<1>1. /\ worker.pc = "loop" /\ ch.jobs # <<>>
      /\ worker' = [pc |-> "upsert", job |-> Head(ch.jobs)]
      /\ ch' = [ch EXCEPT !.jobs = Tail(ch.jobs)]
      /\ UNCHANGED <<phase, wired, request, accepted, tried, up>>
  BY DEF Take
<1>2. ch.jobs \in Seq(Job) /\ accepted \in Seq(Job) /\ tried \in Seq(Job)
  BY DEF IInv, Types
<1>3. /\ Head(ch.jobs) \in Job /\ Tail(ch.jobs) \in Seq(Job)
      /\ Len(Tail(ch.jobs)) <= Len(ch.jobs)
      /\ <<Head(ch.jobs)>> \o Tail(ch.jobs) = ch.jobs
  BY <1>1, <1>2, HeadFirst
<1>4. ch'.jobs = Tail(ch.jobs) /\ ch'.open = ch.open
  BY <1>1 DEF IInv, Types
<1>5. worker'.pc = "upsert" /\ worker'.job = Head(ch.jobs)
  BY <1>1
<1>6. ch' \in [open : BOOLEAN, jobs : Seq(Job)]
  BY <1>1, <1>3 DEF IInv, Types
<1>7. Len(ch'.jobs) <= QueueCap
  <2>1. Len(ch.jobs) <= QueueCap /\ Len(ch.jobs) \in Nat /\ Len(Tail(ch.jobs)) \in Nat
    BY <1>2, <1>3 DEF IInv, Types
  <2> QED
    BY <2>1, <1>3, <1>4, ServiceAssumption
<1>8. worker' \in [pc : {"none", "loop", "upsert", "done"}, job : Job \cup {0}]
  BY <1>1, <1>3
<1>9. Types'
  BY <1>1, <1>3, <1>5, <1>6, <1>7, <1>8 DEF IInv, Types
<1>10. InHand = <<>> /\ InHand' = <<Head(ch.jobs)>>
  BY <1>1, <1>5 DEF InHand
<1>11. phase # "down" /\ phase # "closed"
  BY <1>1 DEF IInv, NothingLost
<1>12. accepted = tried \o ch.jobs
  BY <1>2, <1>10, <1>11, ConcatEmptySeq DEF IInv, NothingLost
<1>13. (tried \o <<Head(ch.jobs)>>) \o Tail(ch.jobs) = tried \o (<<Head(ch.jobs)>> \o Tail(ch.jobs))
  <2>1. <<Head(ch.jobs)>> \in Seq(Job)
    BY <1>3
  <2> QED
    BY <2>1, <1>2, <1>3, Regroup, Zenon
<1>14. NothingLost'
  BY <1>1, <1>3, <1>4, <1>5, <1>10, <1>11, <1>12, <1>13 DEF IInv, NothingLost
<1>15. OpenWhileServing'
  BY <1>1, <1>4 DEF IInv, OpenWhileServing, Serving
<1> QED
  BY <1>9, <1>14, <1>15 DEF IInv

\* The database is open whenever the goroutine has a job.
LEMMA UpsertKeeps == IInv /\ Upsert => IInv'
<1> SUFFICES ASSUME IInv, Upsert PROVE IInv'
  OBVIOUS
<1>1. /\ worker.pc = "upsert" /\ worker.job \in Job
      /\ worker' = [pc |-> "loop", job |-> 0]
      /\ UNCHANGED <<phase, wired, request, ch, accepted, up>>
  BY DEF Upsert, NoWorker, IInv, Types
<1>2. phase # "closed" /\ phase # "down"
  BY <1>1 DEF IInv, NothingLost
<1>3. tried' = Append(tried, worker.job) /\ tried \in Seq(Job) /\ ch.jobs \in Seq(Job)
  BY <1>2 DEF Upsert, DatabaseOpen, IInv, Types
<1>4. worker'.pc = "loop"
  BY <1>1
<1>5. Types'
  <2>1. worker' \in [pc : {"none", "loop", "upsert", "done"}, job : Job \cup {0}]
    BY <1>1
  <2>2. tried' \in Seq(Job)
    BY <1>1, <1>3
  <2> QED
    BY <1>1, <1>4, <2>1, <2>2 DEF IInv, Types
<1>6. InHand = <<worker.job>> /\ InHand' = <<>>
  BY <1>1, <1>4 DEF InHand
<1>7. tried' = tried \o <<worker.job>> /\ tried' \in Seq(Job)
  BY <1>1, <1>3, AppendOne
<1>8. tried' \o <<>> = tried'
  BY <1>7, ConcatEmptySeq
<1>9. NothingLost'
  BY <1>1, <1>2, <1>4, <1>6, <1>7, <1>8 DEF IInv, NothingLost
<1> QED
  BY <1>1, <1>5, <1>9 DEF IInv, OpenWhileServing, Serving

LEMMA LoopEndsKeeps == IInv /\ LoopEnds => IInv'
<1> SUFFICES ASSUME IInv, LoopEnds PROVE IInv'
  OBVIOUS
<1>1. /\ worker.pc = "loop" /\ ~ch.open /\ ch.jobs = <<>>
      /\ worker' = [pc |-> "done", job |-> 0] /\ worker'.pc = "done"
      /\ UNCHANGED <<phase, wired, request, ch, accepted, tried, up>>
  BY DEF LoopEnds, RangeEnds, NoWorker
<1>2. InHand = <<>> /\ InHand' = <<>>
  BY <1>1 DEF InHand
<1>3. Types'
  BY <1>1 DEF IInv, Types
<1> QED
  BY <1>1, <1>2, <1>3 DEF IInv, OpenWhileServing, NothingLost, Serving

\* Signal, CloseChannel, CloseDatabase: the phases in the order of main's
\* deferred calls.
LEMMA DownKeeps ==
  ASSUME IInv, Signal \/ CloseChannel \/ CloseDatabase
  PROVE  IInv'
<1>1. CASE Signal
  <2>1. phase = "up" /\ phase' = "draining" /\ UNCHANGED <<wired, request, writer, up>>
    BY <1>1 DEF Signal
  <2> QED
    BY <2>1 DEF IInv, Types, OpenWhileServing, NothingLost, Serving, writer, InHand
<1>2. CASE CloseChannel
  <2>1. /\ phase = "draining" /\ \A c \in Client : request[c] \in {"none", "refused"}
        /\ ch' = [ch EXCEPT !.open = FALSE]
        /\ phase' = IF worker.pc = "none" THEN "closed" ELSE "closing"
        /\ UNCHANGED <<wired, request, worker, accepted, tried, up>>
    BY <1>2 DEF CloseChannel, Served
  <2>2. ch'.jobs = ch.jobs /\ ~ch'.open /\ ch' \in [open : BOOLEAN, jobs : Seq(Job)]
    BY <2>1 DEF IInv, Types
  <2>3. InHand' = InHand
    BY <2>1 DEF InHand
  <2>4. Types'
    BY <2>1, <2>2 DEF IInv, Types
  <2> QED
    BY <2>1, <2>2, <2>3, <2>4 DEF IInv, OpenWhileServing, NothingLost, Serving
<1>3. CASE CloseDatabase
  <2>1. phase = "closing" /\ worker.pc = "done" /\ phase' = "closed" /\ UNCHANGED <<wired, request, writer, up>>
    BY <1>3 DEF CloseDatabase, Done
  <2> QED
    BY <2>1 DEF IInv, Types, OpenWhileServing, NothingLost, Serving, writer, InHand
<1> QED
  BY <1>1, <1>2, <1>3

\* Exit, Kill: what the process held is gone.
LEMMA EndKeeps ==
  ASSUME IInv, Exit \/ Kill
  PROVE  IInv'
<1>1. /\ phase' = "down" /\ worker' = NoWorker /\ ch' = NoChannel
      /\ request' = [c \in Client |-> "none"]
      /\ UNCHANGED <<wired, accepted, tried, up>>
  BY DEF Exit, Kill
<1>2. /\ NoWorker \in [pc : {"none", "loop", "upsert", "done"}, job : Job \cup {0}]
      /\ NoChannel \in [open : BOOLEAN, jobs : Seq(Job)] /\ Len(NoChannel.jobs) <= QueueCap
  BY ServiceAssumption DEF NoWorker, NoChannel
<1>3. NoWorker.pc = "none" /\ NoChannel.jobs = <<>> /\ ~NoChannel.open
  BY DEF NoWorker, NoChannel
<1>4. Types'
  BY <1>1, <1>2, <1>3 DEF IInv, Types
<1> QED
  BY <1>1, <1>3, <1>4 DEF IInv, OpenWhileServing, NothingLost, Serving

LEMMA NextIInv == IInv /\ [Next]_vars => IInv'
<1> SUFFICES ASSUME IInv, [Next]_vars PROVE IInv'
  OBVIOUS
<1>1. up \subseteq Backend
  BY DEF IInv, Types
<1>2. CASE \E c \in Client : Arrive(c) \/ Lookup(c) \/ Reply(c)
  BY <1>1, <1>2, RequestKeeps DEF Arrive, Lookup, Reply
<1>3. CASE Tick \/ UNCHANGED vars
  BY <1>1, <1>3, RequestKeeps DEF Tick, vars
<1>4. CASE \E b \in Backend : Outage(b)
  BY <1>1, <1>4, RequestKeeps DEF Outage
<1>5. CASE \E c \in Client : Persist(c)
  BY <1>5, PersistKeeps
<1>6. CASE Boot \/ Signal \/ Kill \/ Down
  BY <1>6, BootKeeps, DownKeeps, EndKeeps DEF Down
<1>7. CASE Write
  BY <1>7, TakeKeeps, UpsertKeeps, LoopEndsKeeps DEF Write
<1> QED
  BY <1>2, <1>3, <1>4, <1>5, <1>6, <1>7 DEF Next, Handle

LEMMA IInvImplies == IInv => NeverPanics /\ NothingLeftBehind
<1> SUFFICES ASSUME IInv PROVE NeverPanics /\ NothingLeftBehind
  OBVIOUS
<1>1. NeverPanics
  BY DEF IInv, Types, NeverPanics
<1>2. ASSUME phase = "closed" PROVE tried = accepted
  <2>1. worker.pc \in {"none", "done"} /\ ch.jobs = <<>> /\ InHand = <<>>
    BY <1>2 DEF IInv, NothingLost, InHand
  <2>2. accepted = (tried \o <<>>) \o <<>> /\ tried \in Seq(Job)
    BY <1>2, <2>1 DEF IInv, NothingLost, Types
  <2>3. tried \o <<>> = tried
    BY <2>2, ConcatEmptySeq
  <2> QED
    BY <2>2, <2>3
<1> QED
  BY <1>1, <1>2 DEF NothingLeftBehind

LEMMA Invariance == Spec => []IInv
  BY InitIInv, NextIInv, PTL DEF Spec

\* No handler sends to the closed channel, so that main's Close never makes the
\* process panic, whatever the number of clients and the length of the queue.
THEOREM Panicless == Spec => []NeverPanics
  BY Invariance, IInvImplies, PTL

\* An orderly end loses no job that EnqueueUpsert accepted.
THEOREM Drained == Spec => []NothingLeftBehind
  BY Invariance, IInvImplies, PTL

\* The service is type correct.
THEOREM TypeCorrect == Spec => []TypeOK
<1>1. IInv /\ LimiterTypeOK => TypeOK
  BY DEF IInv, Types, TypeOK
<1> QED
  BY <1>1, Invariance, ServiceLimits, PTL
=============================================================================
