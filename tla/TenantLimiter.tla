---------------------------- MODULE TenantLimiter -----------------------------
(***************************************************************************)
(* The rate limit per tenant in front of POST /v1/matrix                   *)
(* (src/internal/middleware/limit.go): a counter per tenant that starts    *)
(* with the first request after the end of the previous window. allow runs *)
(* under a mutex and reads the clock under it, so that it is one step and  *)
(* its times never go back.                                                *)
(* LimiterSpec is the limiter on its own; the module Service extends this  *)
(* one and lets a request pass by Admit or turn away when Refuses holds.   *)
(***************************************************************************)
EXTENDS Integers, Sequences

CONSTANTS
    Tenant,    \* values of the header X-Tenant-Id, "default" for none
    Limit,     \* Engine.TenantQPS
    Window     \* one second, in ticks of the clock

ASSUME LimitAssumption == Limit \in Nat \ {0}
ASSUME WindowAssumption == Window \in Nat \ {0}

VARIABLES
    counters,  \* counters[t]: the window of tenant t
    clock,     \* time.Now()
    log        \* history: log[t]: when requests of t were admitted

limiter == <<counters, clock, log>>

\* A tenant without an entry in the map has not sent a request yet.
Counter == [known : BOOLEAN, start : Nat, count : Nat]
Unknown == [known |-> FALSE, start |-> 0, count |-> 0]

-----------------------------------------------------------------------------
\* Mutated form: the age of the window is not looked at.
FreshOnlyUnknown(t) == ~counters[t].known

\* No window yet, or the last one is over.
Fresh(t) == ~counters[t].known \/ clock - counters[t].start >= Window

\* Mutated form: one too many.
FullLate(t) == counters[t].count > Limit

Full(t) == counters[t].count >= Limit

\* allow answers false.
Refuses(t) == ~Fresh(t) /\ Full(t)

\* allow answers true.
Admit(t) ==
    /\ ~Refuses(t)
    /\ counters' = [counters EXCEPT ![t] =
          IF Fresh(t) THEN [known |-> TRUE, start |-> clock, count |-> 1]
          ELSE [known |-> TRUE, start |-> @.start, count |-> @.count + 1]]
    /\ log' = [log EXCEPT ![t] = Append(@, clock)]
    /\ UNCHANGED clock

LimiterTick == clock' = clock + 1 /\ UNCHANGED <<counters, log>>

LimiterInit ==
    /\ counters = [t \in Tenant |-> Unknown]
    /\ log = [t \in Tenant |-> <<>>]
    /\ clock = 0

LimiterNext == LimiterTick \/ \E t \in Tenant : Admit(t)

LimiterSpec == LimiterInit /\ [][LimiterNext]_limiter

-----------------------------------------------------------------------------
(* Properties *)

LimiterTypeOK ==
    /\ counters \in [Tenant -> Counter]
    /\ clock \in Nat
    /\ log \in [Tenant -> Seq(Nat)]

\* Of any 2 * Limit + 1 admissions of a tenant the last is at least a window
\* after the first. (Limit + 1 do not suffice: a window may be used up at its
\* end and the next one at its start.)
AdmissionBound ==
    \A t \in Tenant : \A i \in 1 .. Len(log[t]) - 2 * Limit :
        log[t][i + 2 * Limit] - log[t][i] >= Window

\* A tenant is only refused for what it sent itself, and only if Limit of its
\* requests were admitted less than a window ago.
Justified(t) ==
    /\ Len(log[t]) >= Limit
    /\ clock - log[t][Len(log[t]) - Limit + 1] < Window

RefusedJustly == \A t \in Tenant : Refuses(t) => Justified(t)
=============================================================================
