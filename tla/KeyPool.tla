------------------------------ MODULE KeyPool -------------------------------
(***************************************************************************)
(* The pool of Amap keys (src/internal/loadbalance) and the loop of        *)
(* AmapProvider.Route over it (src/internal/provider/amap.go).             *)
(*                                                                         *)
(* The pool picks keys by smooth weighted round-robin; a key's weight      *)
(* follows from what it did before. Next and the two Record operations run *)
(* under one mutex and are atomic; between them, in a Route call, lies an  *)
(* HTTP request during which other calls use the pool.                     *)
(*                                                                         *)
(* The decaying masses of successes and failures are real numbers. They    *)
(* enter as the facts the weights depend on: some success is on record     *)
(* (good), at least one whole failure without a success is on record       *)
(* (hard), so many whole failures are (fails), the last outcome is so      *)
(* recent that a probe would be rounded to weight 0 (closed). Time may     *)
(* change each of them at any moment in the direction of forgetting. The   *)
(* scheduler's parameters are the defaults of the configuration.           *)
(***************************************************************************)
EXTENDS Integers, Sequences, FiniteSets

CONSTANTS
    Items,         \* the keys of the pool in the order they were added
    Caller,        \* goroutines that call Route, again and again
    Broken,        \* keys whose requests always fail
    Flaky,         \* keys whose requests sometimes fail
    Impatient,     \* callers whose context may be cancelled
    FailLimit,     \* so many failures on record may round the weight of a good key to 0
    FullWeights,   \* the weights of an item in rotation
    ProbeWeights,  \* the weights of an item that is only probed
    MaxCredit,     \* bound that the credits are claimed to keep
    MaxWait        \* bound that the rotation is claimed to keep

Item == DOMAIN Items
Key  == {Items[i] : i \in Item}

ASSUME PoolAssumption ==
    /\ Items \in Seq(Key)
    /\ Broken \subseteq Key /\ Flaky \subseteq Key
    /\ Impatient \subseteq Caller
    /\ FailLimit \in Nat \ {0}
    /\ FullWeights \subseteq Nat \ {0} /\ FullWeights # {}
    /\ ProbeWeights \subseteq Nat \ {0} /\ ProbeWeights # {}
    /\ MaxCredit \in Nat /\ MaxWait \in Nat

VARIABLES
    good,     \* good[i]: successes > 1e-9
    hard,     \* hard[i]: is failuresHard >= 1, from before or since the last success
    fails,    \* fails[i]: the whole part of failuresSoft + failuresHard, up to FailLimit
    closed,   \* closed[i]: the probe gate rounds i's weight to 0
    credit,   \* credit[i]: currentWeight
    call,     \* call[c]: the Route call of c
    wait      \* history: picks at which i had a weight, since i was picked

pool == <<good, hard, fails, closed, credit, wait>>
vars == <<good, hard, fails, closed, credit, wait, call>>

Call == [pc : {"idle", "pick", "http"}, tried : SUBSET Key, key : Key \cup {"none"},
         cut : BOOLEAN,                            \* the context is cancelled
         reply : {"none", "provider", "fallback"}]

-----------------------------------------------------------------------------
(* Weights *)

\* A key that has only failed is taken out of the rotation and probed.
ProbeOnly(i) == ~good[i] /\ hard[i] # "none"

\* The weight of any other key is its success rate, (S + 2) / (S + F + 3) for
\* many failures F, in thousandths: from some 4000 failures on it may round to 0,
\* and they keep the gate closed.
Throttled(i) == fails[i] = FailLimit

\* Mutated form: the gate is left out.
UngatedWeightsOf(i) == IF ProbeOnly(i) THEN ProbeWeights ELSE FullWeights

\* selectionWeight: a probe has weight 0 until the gate opens. The safety
\* factor keeps a lone key's weight above 0 at all times.
WeightsOf(i) ==
    IF ProbeOnly(i)
    THEN IF closed[i] /\ Len(Items) > 1 THEN {0} ELSE ProbeWeights
    ELSE IF Throttled(i) /\ Len(Items) > 1 THEN FullWeights \cup {0} ELSE FullWeights

Weightings == {w \in [Item -> FullWeights \cup ProbeWeights \cup {0}] :
                   \A i \in Item : w[i] \in WeightsOf(i)}

Active(w) == {i \in Item : w[i] > 0}

\* The sum of f over the items, added up in the order of the list.
AddUp(f) ==
    LET upTo[n \in 0 .. Len(Items)] == IF n = 0 THEN 0 ELSE upTo[n - 1] + f[n]
    IN  upTo[Len(Items)]

\* Mutated form: the total counts every item once.
HeadCount(w) == Cardinality(Item)
Total(w)  == AddUp(w)
Raised(w) == [i \in Item |-> credit[i] + w[i]]

\* Mutated form: the heaviest item wins, whatever its turn.
Heaviest(w, i) ==
    /\ i \in Active(w)
    /\ \A k \in Active(w) : w[i] > w[k] \/ (w[i] = w[k] /\ i <= k)

\* nextSmoothWeighted: the item with the most credit after the raise, the
\* earlier one on a tie.
Leads(w, i) ==
    /\ i \in Active(w)
    /\ \A k \in Active(w) : \/ Raised(w)[i] > Raised(w)[k]
                            \/ Raised(w)[i] = Raised(w)[k] /\ i <= k

\* Next picks item i under the weights w.
Picks(w, i) ==
    /\ Leads(w, i)
    /\ credit' = [Raised(w) EXCEPT ![i] = @ - Total(w)]
    /\ wait' = [k \in Item |-> IF k = i THEN 0
                               ELSE IF w[k] > 0 THEN wait[k] + 1 ELSE wait[k]]

\* Outcomes are recorded for the item that byKey holds: the last one added.
ItemOf(k) == CHOOSE i \in Item : Items[i] = k /\ \A m \in Item : Items[m] = k => m <= i

RecordSuccess(k) ==
    /\ good' = [good EXCEPT ![ItemOf(k)] = TRUE]
    /\ closed' = [closed EXCEPT ![ItemOf(k)] = TRUE]
    /\ hard' = [hard EXCEPT ![ItemOf(k)] = IF @ = "none" THEN @ ELSE "before"]
    /\ UNCHANGED <<fails, credit, wait>>

\* Mutated form: any failure counts as hard.
AnyFailure(i) == TRUE

\* Only a failure without any success on record counts as hard.
HardFailure(i) == ~good[i]

RecordFailure(k) ==
    /\ hard' = [hard EXCEPT ![ItemOf(k)] = IF HardFailure(ItemOf(k)) THEN "since" ELSE @]
    /\ fails' = [fails EXCEPT ![ItemOf(k)] = IF @ = FailLimit THEN @ ELSE @ + 1]
    /\ closed' = [closed EXCEPT ![ItemOf(k)] = TRUE]
    /\ UNCHANGED <<good, credit, wait>>

-----------------------------------------------------------------------------
(* Route *)

NoCall == [pc |-> "idle", tried |-> {}, key |-> "none", cut |-> FALSE, reply |-> "none"]

Fallback(c) == call' = [call EXCEPT ![c] = [@ EXCEPT !.pc = "idle", !.tried = {},
                                                     !.key = "none", !.reply = "fallback"]]

\* Without a key the provider is not Ready and answers an estimate at once.
Begin(c) ==
    /\ call[c].pc = "idle"
    /\ IF Items = <<>> THEN Fallback(c)
       ELSE call' = [call EXCEPT ![c] = [NoCall EXCEPT !.pc = "pick"]]
    /\ UNCHANGED pool

\* Every key was tried.
Exhausted(c) ==
    /\ call[c].pc = "pick"
    /\ Cardinality(call[c].tried) >= Len(Items)
    /\ Fallback(c)
    /\ UNCHANGED pool

\* Mutated form: a call does not remember the keys it tried.
NeverTried(c, i) == FALSE

\* Mutated form: the test is the wrong way round.
NotTried(c, i) == Items[i] \notin call[c].tried

Tried(c, i) == Items[i] \in call[c].tried

Sent(c, i) == [call[c] EXCEPT !.pc = "http", !.key = Items[i],
                              !.tried = call[c].tried \cup {Items[i]}]

\* Next: no item has any weight, or a key was tried before, or try it.
Pick(c) ==
    /\ call[c].pc = "pick"
    /\ Cardinality(call[c].tried) < Len(Items)
    /\ \E w \in Weightings :
          \/ /\ Active(w) = {}
             /\ Fallback(c)
             /\ UNCHANGED <<credit, wait>>
          \/ \E i \in Item :
                /\ Picks(w, i)
                /\ IF Tried(c, i) THEN Fallback(c)
                   ELSE call' = [call EXCEPT ![c] = Sent(c, i)]
    /\ UNCHANGED <<good, hard, fails, closed>>

Succeeds(c) ==
    /\ call[c].pc = "http"
    /\ call[c].key \notin Broken /\ ~call[c].cut
    /\ RecordSuccess(call[c].key)
    /\ call' = [call EXCEPT ![c] = [@ EXCEPT !.pc = "idle", !.tried = {}, !.key = "none",
                                             !.reply = "provider"]]

\* The key, the network or the cancelled context: all count as a failure.
Fails(c) ==
    /\ call[c].pc = "http"
    /\ call[c].key \in Broken \cup Flaky \/ call[c].cut
    /\ RecordFailure(call[c].key)
    /\ call' = [call EXCEPT ![c] = [@ EXCEPT !.pc = "pick", !.key = "none"]]

Step(c) == Exhausted(c) \/ Pick(c) \/ Succeeds(c) \/ Fails(c)

\* The request behind the calls in S passes its deadline or goes away: they
\* share its context.
Cut(S) ==
    /\ S \subseteq Impatient /\ \A c \in S : call[c].pc # "idle"
    /\ call' = [c \in Caller |-> IF c \in S THEN [call[c] EXCEPT !.cut = TRUE] ELSE call[c]]
    /\ UNCHANGED pool

-----------------------------------------------------------------------------
(* Time *)

GateOpens(i) ==
    /\ closed[i]
    /\ closed' = [closed EXCEPT ![i] = FALSE]
    /\ UNCHANGED <<good, hard, fails, credit, wait, call>>

\* The mass of hard failures falls below one.
HardFades(i) ==
    /\ hard[i] # "none"
    /\ hard' = [hard EXCEPT ![i] = "none"]
    /\ UNCHANGED <<good, fails, closed, credit, wait, call>>

\* The mass of all failures falls below the next whole number; a hard one that
\* counts is part of it.
FailsFade(i) ==
    /\ fails[i] > (IF hard[i] = "none" THEN 0 ELSE 1)
    /\ fails' = [fails EXCEPT ![i] = @ - 1]
    /\ UNCHANGED <<good, hard, closed, credit, wait, call>>

\* A success has lost its last trace, some thirty half-lives after it; what
\* hard failures there were before it are far below one by then.
GoodFades(i) ==
    /\ good[i]
    /\ good' = [good EXCEPT ![i] = FALSE]
    /\ hard' = [hard EXCEPT ![i] = IF @ = "before" THEN "none" ELSE @]
    /\ UNCHANGED <<fails, closed, credit, wait, call>>

Init ==
    /\ good = [i \in Item |-> FALSE]
    /\ hard = [i \in Item |-> "none"]
    /\ fails = [i \in Item |-> 0]
    /\ closed = [i \in Item |-> FALSE]
    /\ credit = [i \in Item |-> 0]
    /\ wait = [i \in Item |-> 0]
    /\ call = [c \in Caller |-> NoCall]

Next ==
    \/ \E c \in Caller : Begin(c) \/ Step(c)
    \/ \E S \in SUBSET Impatient : Cut(S)
    \/ \E i \in Item : GateOpens(i) \/ HardFades(i) \/ FailsFade(i) \/ GoodFades(i)

Spec == Init /\ [][Next]_vars

\* A Route call goes on: HTTP requests end, at the latest at TimeoutSec.
FairSpec == Spec /\ \A c \in Caller : WF_vars(Step(c))

-----------------------------------------------------------------------------
(* Properties *)

TypeOK ==
    /\ good \in [Item -> BOOLEAN]
    /\ hard \in [Item -> {"none", "before", "since"}]
    /\ fails \in [Item -> 0 .. FailLimit]
    /\ closed \in [Item -> BOOLEAN]
    /\ credit \in [Item -> -MaxCredit .. MaxCredit]
    /\ wait \in [Item -> Nat]
    /\ call \in [Caller -> Call]

\* Credits always add up to zero, however often the weights change and items
\* leave and re-enter the rotation: no item gains on all others together.
CreditBalanced == AddUp(credit) = 0

\* An item is picked after a bounded number of picks at which it has a weight,
\* whatever the other items' weights and outcomes, however many calls are under
\* way and however often it leaves the rotation and comes back in between
\* (nextSmoothWeighted). A pick at which its weight is 0, as a rested probe or
\* rounded down, is none of its turn: of those there may be any number.
FairRotation == \A i \in Item : wait[i] <= MaxWait

\* With several keys, a key that has only failed is not called before its gate
\* opens (effectiveRate, probe-only branch).
DeadKeyRests ==
    [][\A c \in Caller : call[c].pc = "pick" /\ call'[c].pc = "http" =>
          LET i == ItemOf(call'[c].key)
          IN  Len(Items) > 1 => ~(ProbeOnly(i) /\ closed[i])]_vars

\* A weight above 0 is certain.
InRotation(i) == 0 \notin WeightsOf(i)

\* A key that was good leaves the rotation, as long as its success is remembered
\* and when it is forgotten, only for as many failures on record as round its
\* rate to 0: none of them was mistaken for that of a dead key, which one or two
\* would take out (RecordFailure, effectiveRate).
ThrottledKeyStays ==
    [][\A i \in Item : good[i] /\ InRotation(i) /\ ~InRotation(i)' => Throttled(i)']_vars

\* docs/key-pool-algorithm.md: Route tries each untried key before it falls back.
TriesEachKey ==
    [][\A c \in Caller : call[c].pc = "pick" /\ call'[c].reply = "fallback" =>
          \A i \in Item : InRotation(i) => Items[i] \in call[c].tried]_vars
=============================================================================
