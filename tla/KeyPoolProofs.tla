--------------------------- MODULE KeyPoolProofs ---------------------------
(***************************************************************************)
(* What holds of the key pool for every number of keys and callers, every  *)
(* set of weights and every pattern of outcomes.                           *)
(***************************************************************************)
EXTENDS KeyPool, WellFoundedInduction, TLAPS

\* The part of the state the rotation rule reads, and why a throttled key is
\* safe: hard failures are only counted while no success is on record.
Learned ==
    /\ good \in [Item -> BOOLEAN]
    /\ hard \in [Item -> {"none", "before", "since"}]
    /\ fails \in [Item -> 0 .. FailLimit]
    /\ \A i \in Item : good[i] => hard[i] # "since"

\* Picking an item or moving a call changes nothing a key was learned from.
Steps == \/ \E c \in Caller : Begin(c) \/ Exhausted(c) \/ Pick(c)
         \/ \E S \in SUBSET Impatient : Cut(S)
         \/ \E i \in Item : GateOpens(i)
         \/ UNCHANGED vars

LEMMA StepsLearnNothing == Steps => UNCHANGED <<good, hard, fails>>
  <1> SUFFICES ASSUME Steps PROVE UNCHANGED <<good, hard, fails>>
    OBVIOUS
  <1>1. CASE \/ \E c \in Caller : Begin(c) \/ Exhausted(c)
             \/ \E S \in SUBSET Impatient : Cut(S)
    BY <1>1 DEF Begin, Exhausted, Cut, pool
  <1>2. CASE \E c \in Caller : Pick(c)
    BY <1>2 DEF Pick
  <1>3. CASE \E i \in Item : GateOpens(i)
    BY <1>3 DEF GateOpens
  <1>4. CASE UNCHANGED vars
    BY <1>4 DEF vars
  <1> QED BY <1>1, <1>2, <1>3, <1>4 DEF Steps

LEMMA NextCases ==
  ASSUME [Next]_vars
  PROVE  \/ Steps
         \/ \E c \in Caller : Succeeds(c) \/ Fails(c)
         \/ \E i \in Item : HardFades(i) \/ FailsFade(i) \/ GoodFades(i)
  BY DEF Next, Step, Steps

\* What an outcome does to the record of each item.
LEMMA SuccessRecorded ==
  ASSUME Learned, NEW k, RecordSuccess(k), NEW i \in Item
  PROVE  /\ good'[i] = (good[i] \/ i = ItemOf(k))
         /\ hard'[i] = IF i = ItemOf(k) /\ hard[i] # "none" THEN "before" ELSE hard[i]
  BY DEF Learned, RecordSuccess

LEMMA FailureRecorded ==
  ASSUME Learned, NEW k, RecordFailure(k), NEW i \in Item
  PROVE  /\ good'[i] = good[i]
         /\ hard'[i] = IF i = ItemOf(k) /\ ~good[i] THEN "since" ELSE hard[i]
  BY DEF Learned, RecordFailure, HardFailure

LEMMA LearnedInvariant == Spec => []Learned
  <1>1. Init => Learned
    BY PoolAssumption DEF Init, Learned
  <1>2. Learned /\ [Next]_vars => Learned'
    <2> SUFFICES ASSUME Learned, [Next]_vars PROVE Learned'
      OBVIOUS
    <2>1. CASE Steps
      BY <2>1, StepsLearnNothing DEF Learned
    <2>2. ASSUME NEW c \in Caller, Succeeds(c) PROVE Learned'
      <3> DEFINE k == call[c].key
      <3>1. RecordSuccess(k)
        BY <2>2 DEF Succeeds
      <3>2. /\ good' \in [Item -> BOOLEAN] /\ hard' \in [Item -> {"none", "before", "since"}]
            /\ fails' = fails
        BY <3>1 DEF Learned, RecordSuccess
      <3>3. ASSUME NEW i \in Item PROVE good'[i] => hard'[i] # "since"
        BY <3>1, SuccessRecorded DEF Learned
      <3> QED BY <3>2, <3>3 DEF Learned
    <2>3. ASSUME NEW c \in Caller, Fails(c) PROVE Learned'
      <3> DEFINE k == call[c].key
      <3>1. RecordFailure(k)
        BY <2>3 DEF Fails
      <3>2. good' \in [Item -> BOOLEAN] /\ hard' \in [Item -> {"none", "before", "since"}]
        BY <3>1 DEF Learned, RecordFailure
      <3>3. ASSUME NEW i \in Item PROVE good'[i] => hard'[i] # "since"
        BY <3>1, FailureRecorded DEF Learned
      <3>4. fails' \in [Item -> 0 .. FailLimit]
        <4>1. \A i \in Item : fails[i] # FailLimit => fails[i] + 1 \in 0 .. FailLimit
          BY PoolAssumption DEF Learned
        <4> QED BY <3>1, <4>1 DEF Learned, RecordFailure
      <3> QED BY <3>2, <3>3, <3>4 DEF Learned
    <2>4. ASSUME NEW i \in Item, HardFades(i) PROVE Learned'
      BY <2>4 DEF HardFades, Learned
    <2>5. ASSUME NEW i \in Item, GoodFades(i) PROVE Learned'
      BY <2>5 DEF GoodFades, Learned
    <2>6. ASSUME NEW i \in Item, FailsFade(i) PROVE Learned'
      <3>1. fails[i] - 1 \in 0 .. FailLimit
        BY <2>6, PoolAssumption DEF FailsFade, Learned
      <3> QED BY <2>6, <3>1 DEF FailsFade, Learned
    <2> QED BY NextCases, <2>1, <2>2, <2>3, <2>4, <2>5, <2>6
  <1> QED BY <1>1, <1>2, PTL DEF Spec

\* A key with a weight of its own leaves the rotation, while its success is
\* remembered and when it is forgotten, only for as many failures as round its
\* rate to 0: while a success is on record failures count as soft
\* (loadbalance.go, RecordFailure), and when it is forgotten no hard failure is
\* left to take the key for dead (ThrottledKeyStays).
THEOREM ThrottlingIsNotDeath == Spec => ThrottledKeyStays
  <1> DEFINE Stays == \A i \in Item :
                          good[i] /\ InRotation(i) /\ ~InRotation(i)' => Throttled(i)'
  <1>1. Learned /\ [Next]_vars => [Stays]_vars
    <2> SUFFICES ASSUME Learned, [Next]_vars, NEW i \in Item, good[i], ~InRotation(i)'
                 PROVE  Throttled(i)'
      OBVIOUS
    <2>1. ~ProbeOnly(i)'
      <3> SUFFICES ASSUME ~good'[i], hard'[i] # "none" PROVE FALSE
        BY DEF ProbeOnly
      <3>1. CASE Steps
        BY <3>1, StepsLearnNothing
      <3>2. ASSUME NEW c \in Caller, Succeeds(c) PROVE FALSE
        BY <3>2, SuccessRecorded DEF Succeeds
      <3>3. ASSUME NEW c \in Caller, Fails(c) PROVE FALSE
        BY <3>3, FailureRecorded DEF Fails
      <3>4. ASSUME NEW j \in Item, HardFades(j) \/ FailsFade(j) PROVE FALSE
        BY <3>4 DEF HardFades, FailsFade
      <3>5. ASSUME NEW j \in Item, GoodFades(j) PROVE FALSE
        BY <3>5 DEF GoodFades, Learned
      <3> QED BY NextCases, <3>1, <3>2, <3>3, <3>4, <3>5
    <2>2. 0 \in WeightsOf(i)' /\ 0 \notin FullWeights
      BY PoolAssumption DEF InRotation
    <2> QED BY <2>1, <2>2 DEF WeightsOf
  <1> QED BY <1>1, LearnedInvariant, PTL DEF Spec, ThrottledKeyStays

-----------------------------------------------------------------------------

\* A key list that names no key twice.
NoRepeats == \A i, j \in Item : Items[i] = Items[j] => i = j

LEMMA ItemOfKey == ASSUME NoRepeats, NEW i \in Item PROVE ItemOf(Items[i]) = i
  <1> DEFINE Last(j) == Items[j] = Items[i] /\ \A m \in Item : Items[m] = Items[i] => m <= j
  <1>1. Item = 1 .. Len(Items)
    BY PoolAssumption DEF Item
  <1>2. Last(i)
    BY <1>1 DEF NoRepeats
  <1>3. \A j \in Item : Last(j) => j = i
    BY DEF NoRepeats
  <1>4. ItemOf(Items[i]) = CHOOSE j \in Item : Last(j)
    BY DEF ItemOf
  <1> QED BY <1>2, <1>3, <1>4

\* An item with a weight is no dead key behind a closed gate.
LEMMA ActiveMayCall ==
  ASSUME Len(Items) > 1, NEW w \in Weightings, NEW i \in Active(w)
  PROVE  ~(ProbeOnly(i) /\ closed[i])
  BY DEF Active, Weightings, WeightsOf

\* Only Pick sends a call from choosing a key to an HTTP request.
LEMMA OnlyPickSends ==
  ASSUME call \in [Caller -> Call], [Next]_vars,
         NEW c \in Caller, call[c].pc = "pick", call'[c].pc = "http"
  PROVE  Pick(c)
  <1>1. ASSUME NEW d \in Caller, Begin(d) PROVE FALSE
    BY <1>1 DEF Begin, Fallback, NoCall, Call
  <1>2. ASSUME NEW d \in Caller, Exhausted(d) PROVE FALSE
    BY <1>2 DEF Exhausted, Fallback, Call
  <1>3. ASSUME NEW d \in Caller, Pick(d) PROVE d = c
    BY <1>3 DEF Pick, Fallback, Call
  <1>4. ASSUME NEW d \in Caller, Succeeds(d) PROVE FALSE
    BY <1>4 DEF Succeeds, Call
  <1>5. ASSUME NEW d \in Caller, Fails(d) PROVE FALSE
    BY <1>5 DEF Fails, Call
  <1>6. ASSUME NEW S \in SUBSET Impatient, Cut(S) PROVE FALSE
    BY <1>6 DEF Cut, Call
  <1>7. ASSUME NEW i \in Item, GateOpens(i) \/ HardFades(i) \/ FailsFade(i) \/ GoodFades(i)
        PROVE  FALSE
    BY <1>7 DEF GateOpens, HardFades, FailsFade, GoodFades
  <1>8. CASE UNCHANGED vars
    BY <1>8 DEF vars
  <1> QED BY <1>1, <1>2, <1>3, <1>4, <1>5, <1>6, <1>7, <1>8 DEF Next, Step

LEMMA SentCall ==
  ASSUME call \in [Caller -> Call], NEW c \in Caller, NEW i \in Item
  PROVE  Sent(c, i) \in Call /\ Sent(c, i).key = Items[i]
  <1>1. call[c] \in Call /\ Items[i] \in Key
    BY DEF Key
  <1>2. call[c].tried \cup {Items[i]} \in SUBSET Key
    BY <1>1 DEF Call
  <1>3. Sent(c, i) \in Call
    BY <1>1, <1>2, Zenon DEF Sent, Call
  <1>4. Sent(c, i).key = Items[i]
    BY <1>1, Zenon DEF Sent, Call
  <1> QED BY <1>3, <1>4

\* Calls have the shape TypeOK gives them.
LEMMA CallsTyped == Spec => [](call \in [Caller -> Call])
  <1>1. Init => call \in [Caller -> Call]
    <2>1. NoCall \in Call
      BY DEF NoCall, Call
    <2> QED BY <2>1 DEF Init
  <1>2. call \in [Caller -> Call] /\ [Next]_vars => (call \in [Caller -> Call])'
    <2> SUFFICES ASSUME call \in [Caller -> Call], [Next]_vars
                 PROVE  call' \in [Caller -> Call]
      OBVIOUS
    <2>1. ASSUME NEW c \in Caller, Fallback(c) PROVE call' \in [Caller -> Call]
      <3> DEFINE r == [call[c] EXCEPT !.pc = "idle", !.tried = {},
                                      !.key = "none", !.reply = "fallback"]
      <3>1. r \in Call
        BY Zenon DEF Call
      <3>2. call' = [call EXCEPT ![c] = r]
        BY <2>1 DEF Fallback
      <3> HIDE DEF r
      <3> QED BY <3>1, <3>2
    <2>2. ASSUME NEW c \in Caller, Begin(c) PROVE call' \in [Caller -> Call]
      <3> DEFINE r == [NoCall EXCEPT !.pc = "pick"]
      <3>1. r \in Call
        BY DEF NoCall, Call
      <3>2. Fallback(c) \/ call' = [call EXCEPT ![c] = r]
        BY <2>2 DEF Begin
      <3> HIDE DEF r
      <3> QED BY <2>1, <3>1, <3>2
    <2>3. ASSUME NEW c \in Caller, Pick(c) PROVE call' \in [Caller -> Call]
      <3>1. ASSUME NEW i \in Item PROVE Sent(c, i) \in Call
        BY SentCall
      <3> QED BY <2>1, <2>3, <3>1 DEF Pick
    <2>4. ASSUME NEW c \in Caller, Succeeds(c) PROVE call' \in [Caller -> Call]
      <3> DEFINE r == [call[c] EXCEPT !.pc = "idle", !.tried = {}, !.key = "none",
                                      !.reply = "provider"]
      <3>1. r \in Call
        BY Zenon DEF Call
      <3>2. call' = [call EXCEPT ![c] = r]
        BY <2>4 DEF Succeeds
      <3> HIDE DEF r
      <3> QED BY <3>1, <3>2
    <2>5. ASSUME NEW c \in Caller, Fails(c) PROVE call' \in [Caller -> Call]
      <3> DEFINE r == [call[c] EXCEPT !.pc = "pick", !.key = "none"]
      <3>1. r \in Call
        BY Zenon DEF Call
      <3>2. call' = [call EXCEPT ![c] = r]
        BY <2>5 DEF Fails
      <3> HIDE DEF r
      <3> QED BY <3>1, <3>2
    <2>6. ASSUME NEW S \in SUBSET Impatient, Cut(S) PROVE call' \in [Caller -> Call]
      <3>1. ASSUME NEW c \in Caller PROVE [call[c] EXCEPT !.cut = TRUE] \in Call
        BY Zenon DEF Call
      <3> QED BY <2>6, <3>1 DEF Cut
    <2>7. ASSUME NEW c \in Caller, Exhausted(c) PROVE call' \in [Caller -> Call]
      BY <2>1, <2>7 DEF Exhausted
    <2>8. ASSUME NEW i \in Item, GateOpens(i) \/ HardFades(i) \/ FailsFade(i) \/ GoodFades(i)
          PROVE  call' \in [Caller -> Call]
      BY <2>8 DEF GateOpens, HardFades, FailsFade, GoodFades
    <2>9. CASE UNCHANGED vars
      BY <2>9 DEF vars
    <2> QED BY <2>2, <2>3, <2>4, <2>5, <2>6, <2>7, <2>8, <2>9 DEF Next, Step
  <1> QED BY <1>1, <1>2, PTL DEF Spec

\* In a list of several distinct keys, a key that has only failed is not called
\* while its gate is closed (effectiveRate), whatever the other keys do.
THEOREM DeadKeysRest == ASSUME NoRepeats PROVE Spec => DeadKeyRests
  <1> DEFINE Rests == \A c \in Caller : call[c].pc = "pick" /\ call'[c].pc = "http" =>
                          LET i == ItemOf(call'[c].key)
                          IN  Len(Items) > 1 => ~(ProbeOnly(i) /\ closed[i])
  <1>1. call \in [Caller -> Call] /\ [Next]_vars => [Rests]_vars
    <2> SUFFICES ASSUME call \in [Caller -> Call], [Next]_vars, Len(Items) > 1,
                        NEW c \in Caller, call[c].pc = "pick", call'[c].pc = "http"
                 PROVE  ~(ProbeOnly(ItemOf(call'[c].key)) /\ closed[ItemOf(call'[c].key)])
      OBVIOUS
    <2>1. Pick(c)
      BY OnlyPickSends
    <2>2. ~Fallback(c)
      BY DEF Fallback, Call
    <2>3. PICK w \in Weightings, i \in Item :
              /\ Picks(w, i)
              /\ call' = [call EXCEPT ![c] = Sent(c, i)]
      BY <2>1, <2>2 DEF Pick
    <2>4. i \in Active(w)
      BY <2>3 DEF Picks, Leads
    <2>5. call'[c].key = Items[i]
      BY <2>3, SentCall
    <2>6. ItemOf(call'[c].key) = i
      BY <2>5, ItemOfKey
    <2> QED BY <2>4, <2>6, ActiveMayCall
  <1> QED BY <1>1, CallsTyped, PTL DEF Spec, DeadKeyRests

-----------------------------------------------------------------------------
(* Sums along the list of items *)

N == Len(Items)

LEMMA ItemIsInterval == N \in Nat /\ Item = 1 .. N
  BY PoolAssumption DEF Item, N

\* Induction along the list.
LEMMA AlongTheList ==
  ASSUME NEW S, 0 \in S, \A n \in Item : n - 1 \in S => n \in S
  PROVE  \A n \in 0 .. N : n \in S
  <1> SUFFICES ASSUME NEW x \in 0 .. N, x \notin S PROVE FALSE
    OBVIOUS
  <1> DEFINE T == {n \in Nat : n \in 0 .. N /\ n \notin S}
             R == {ss \in Nat \X Nat : ss[1] < ss[2]}
  <1>1. PICK m \in T : \A n \in T : <<n, m>> \notin R
    <2>1. T \subseteq Nat /\ x \in T
      BY ItemIsInterval
    <2>2. IsWellFoundedOn(R, Nat)
      BY NatLessThanWellFounded DEF OpToRel
    <2> HIDE DEF T, R
    <2> QED BY <2>1, <2>2, WFMin
  <1>2. m \in Item /\ m - 1 \in 0 .. N
    BY ItemIsInterval
  <1>3. m - 1 \notin T
    <2>1. <<m - 1, m>> \in R
      BY <1>2, ItemIsInterval
    <2> HIDE DEF T, R
    <2> QED BY <1>1, <2>1
  <1>4. m - 1 \in S
    BY <1>2, <1>3, ItemIsInterval
  <1>5. m \in S
    BY <1>2, <1>4
  <1> QED BY <1>5

\* u adds f up along the list.
Adding(u, f) ==
    /\ u \in [0 .. N -> Int] /\ u[0] = 0
    /\ \A n \in Item : u[n] = u[n - 1] + f[n]

LEMMA SumsExist == ASSUME NEW f \in [Item -> Int] PROVE \E u : Adding(u, f)
  <1> DEFINE Upto(g, n) == /\ g \in [0 .. n -> Int] /\ g[0] = 0
                           /\ \A k \in 1 .. n : g[k] = g[k - 1] + f[k]
             S == {n \in 0 .. N : \E g : Upto(g, n)}
  <1>1. 0 \in S
    <2> DEFINE z == [k \in 0 .. 0 |-> 0]
    <2>1. Upto(z, 0)
      OBVIOUS
    <2> HIDE DEF Upto, z
    <2> QED BY <2>1, ItemIsInterval
  <1>2. ASSUME NEW n \in Item, n - 1 \in S PROVE n \in S
    <2>1. PICK g : Upto(g, n - 1)
      BY <1>2
    <2> DEFINE h == [k \in 0 .. n |-> IF k = n THEN g[n - 1] + f[n] ELSE g[k]]
    <2>2. Upto(h, n)
      BY <2>1, ItemIsInterval
    <2> HIDE DEF Upto, h
    <2> QED BY <2>2, ItemIsInterval
  <1>3. N \in S
    <2> HIDE DEF S
    <2>1. \A n \in Item : n - 1 \in S => n \in S
      BY <1>2
    <2>2. N \in 0 .. N
      BY ItemIsInterval
    <2> QED BY <1>1, <2>1, <2>2, AlongTheList, Zenon
  <1>4. PICK u : Upto(u, N)
    BY <1>3
  <1>5. Adding(u, f)
    BY <1>4, ItemIsInterval DEF Adding
  <1> QED BY <1>5

\* The recursion of AddUp defines it.
LEMMA AddUpAdds ==
  ASSUME NEW f \in [Item -> Int], NEW u, Adding(u, f)
  PROVE  AddUp(f) = u[N] /\ AddUp(f) \in Int
  <1> DEFINE Rec(g) == [n \in 0 .. Len(Items) |-> IF n = 0 THEN 0 ELSE g[n - 1] + f[n]]
             c == CHOOSE g : g = Rec(g)
             S == {n \in 0 .. N : c[n] = u[n]}
  <1>1. u = Rec(u)
    BY ItemIsInterval DEF Adding, N
  <1>2. c = Rec(c)
    <2> HIDE DEF Rec
    <2> QED BY <1>1
  <1>3. AddUp(f) = c[N]
    BY DEF AddUp, N
  <1> HIDE DEF c
  <1>4. c[0] = 0 /\ \A n \in Item : c[n] = c[n - 1] + f[n]
    BY <1>2, ItemIsInterval DEF N
  <1>5. 0 \in S
    BY <1>4, ItemIsInterval DEF Adding
  <1>6. ASSUME NEW n \in Item, n - 1 \in S PROVE n \in S
    BY <1>4, <1>6, ItemIsInterval DEF Adding
  <1>7. N \in S
    <2> HIDE DEF S
    <2>1. \A n \in Item : n - 1 \in S => n \in S
      BY <1>6
    <2>2. N \in 0 .. N
      BY ItemIsInterval
    <2> QED BY <1>5, <2>1, <2>2, AlongTheList, Zenon
  <1> QED BY <1>3, <1>7, ItemIsInterval DEF Adding

LEMMA AddUpInt == ASSUME NEW f \in [Item -> Int] PROVE AddUp(f) \in Int
  BY SumsExist, AddUpAdds

LEMMA AddUpPlus ==
  ASSUME NEW f \in [Item -> Int], NEW g \in [Item -> Int], NEW h \in [Item -> Int],
         \A i \in Item : h[i] = f[i] + g[i]
  PROVE  AddUp(h) = AddUp(f) + AddUp(g)
  <1>1. PICK u : Adding(u, f)
    BY SumsExist
  <1>2. PICK v : Adding(v, g)
    BY SumsExist
  <1> DEFINE w == [n \in 0 .. N |-> u[n] + v[n]]
  <1>3. Adding(w, h)
    BY <1>1, <1>2, ItemIsInterval DEF Adding
  <1>4. w[N] = u[N] + v[N]
    BY ItemIsInterval
  <1> HIDE DEF w
  <1> QED BY <1>1, <1>2, <1>3, <1>4, AddUpAdds

LEMMA AddUpBelow ==
  ASSUME NEW f \in [Item -> Int], NEW g \in [Item -> Int], \A i \in Item : f[i] <= g[i]
  PROVE  AddUp(f) <= AddUp(g)
  <1>1. PICK u : Adding(u, f)
    BY SumsExist
  <1>2. PICK v : Adding(v, g)
    BY SumsExist
  <1> DEFINE S == {n \in 0 .. N : u[n] <= v[n]}
  <1>3. 0 \in S
    BY <1>1, <1>2, ItemIsInterval DEF Adding
  <1>4. ASSUME NEW n \in Item, n - 1 \in S PROVE n \in S
    BY <1>1, <1>2, <1>4, ItemIsInterval DEF Adding
  <1>5. N \in S
    <2> HIDE DEF S
    <2>1. \A n \in Item : n - 1 \in S => n \in S
      BY <1>4
    <2>2. N \in 0 .. N
      BY ItemIsInterval
    <2> QED BY <1>3, <2>1, <2>2, AlongTheList, Zenon
  <1> QED BY <1>1, <1>2, <1>5, AddUpAdds

LEMMA AddUpZero ==
  ASSUME NEW f \in [Item -> Int], \A i \in Item : f[i] = 0
  PROVE  AddUp(f) = 0
  <1> DEFINE u == [n \in 0 .. N |-> 0]
  <1>1. Adding(u, f)
    BY ItemIsInterval DEF Adding
  <1>2. u[N] = 0
    BY ItemIsInterval
  <1> HIDE DEF u
  <1> QED BY <1>1, <1>2, AddUpAdds

LEMMA AddUpOne ==
  ASSUME NEW f \in [Item -> Int], NEW j \in Item, \A i \in Item \ {j} : f[i] = 0
  PROVE  AddUp(f) = f[j]
  <1> DEFINE u == [n \in 0 .. N |-> IF n < j THEN 0 ELSE f[j]]
  <1>1. Adding(u, f)
    BY ItemIsInterval DEF Adding
  <1>2. u[N] = f[j]
    BY ItemIsInterval
  <1> HIDE DEF u
  <1> QED BY <1>1, <1>2, AddUpAdds

LEMMA AddUpTimes ==
  ASSUME NEW r \in Int, NEW f \in [Item -> Int], NEW g \in [Item -> Int],
         \A i \in Item : g[i] = r * f[i]
  PROVE  AddUp(g) = r * AddUp(f)
  <1>1. PICK u : Adding(u, f)
    BY SumsExist
  <1> DEFINE v == [n \in 0 .. N |-> r * u[n]]
  <1>2. Adding(v, g)
    <2>1. v \in [0 .. N -> Int] /\ v[0] = 0
      BY <1>1, ItemIsInterval DEF Adding
    <2>2. ASSUME NEW n \in Item PROVE v[n] = v[n - 1] + g[n]
      <3>1. n \in 0 .. N /\ n - 1 \in 0 .. N
        BY ItemIsInterval
      <3>2. u[n] \in Int /\ u[n - 1] \in Int /\ f[n] \in Int /\ u[n] = u[n - 1] + f[n]
        BY <1>1, <3>1 DEF Adding
      <3>3. r * u[n] = r * u[n - 1] + r * f[n]
        BY <3>2
      <3> QED BY <3>1, <3>3
    <2> HIDE DEF v
    <2> QED BY <2>1, <2>2 DEF Adding
  <1>3. v[N] = r * u[N]
    BY ItemIsInterval
  <1> HIDE DEF v
  <1> QED BY <1>1, <1>2, <1>3, AddUpAdds

-----------------------------------------------------------------------------
(* Sums over some of the items *)

On(f, A) == [i \in Item |-> IF i \in A THEN f[i] ELSE 0]
Each     == [i \in Item |-> 1]
Size(A)  == AddUp(On(Each, A))

LEMMA OnInt ==
  ASSUME NEW f \in [Item -> Int], NEW A
  PROVE  On(f, A) \in [Item -> Int] /\ AddUp(On(f, A)) \in Int
  <1>1. On(f, A) \in [Item -> Int]
    BY DEF On
  <1> QED BY <1>1, AddUpInt

LEMMA EachInt == Each \in [Item -> Int]
  BY DEF Each

LEMMA SizeInt == ASSUME NEW A PROVE Size(A) \in Int
  BY EachInt, OnInt DEF Size

\* Two sums over disjoint sets.
LEMMA OnUnion ==
  ASSUME NEW f \in [Item -> Int], NEW A, NEW B, A \cap B = {}
  PROVE  AddUp(On(f, A \cup B)) = AddUp(On(f, A)) + AddUp(On(f, B))
  <1>1. \A i \in Item : On(f, A \cup B)[i] = On(f, A)[i] + On(f, B)[i]
    BY DEF On
  <1> QED BY <1>1, OnInt, AddUpPlus

\* Two functions over one set.
LEMMA OnPlus ==
  ASSUME NEW f \in [Item -> Int], NEW g \in [Item -> Int], NEW A
  PROVE  AddUp(On([i \in Item |-> f[i] + g[i]], A)) = AddUp(On(f, A)) + AddUp(On(g, A))
  <1> DEFINE h == [i \in Item |-> f[i] + g[i]]
  <1>1. h \in [Item -> Int]
    OBVIOUS
  <1>2. \A i \in Item : On(h, A)[i] = On(f, A)[i] + On(g, A)[i]
    BY DEF On
  <1> HIDE DEF h
  <1>3. AddUp(On(h, A)) = AddUp(On(f, A)) + AddUp(On(g, A))
    BY <1>1, <1>2, OnInt, AddUpPlus
  <1> QED BY <1>3 DEF h

LEMMA OnSingle ==
  ASSUME NEW f \in [Item -> Int], NEW j \in Item
  PROVE  AddUp(On(f, {j})) = f[j]
  <1>1. On(f, {j})[j] = f[j] /\ \A i \in Item \ {j} : On(f, {j})[i] = 0
    BY DEF On
  <1> QED BY <1>1, OnInt, AddUpOne

LEMMA OnAll ==
  ASSUME NEW f \in [Item -> Int]
  PROVE  AddUp(On(f, Item)) = AddUp(f)
  <1>1. On(f, Item) = f
    BY DEF On
  <1> QED BY <1>1

\* Of natural numbers a part is at most the whole.
LEMMA PartOfWhole ==
  ASSUME NEW f \in [Item -> Int], \A i \in Item : f[i] >= 0, NEW A
  PROVE  0 <= AddUp(On(f, A)) /\ AddUp(On(f, A)) <= AddUp(f)
  <1> DEFINE zero == [i \in Item |-> 0]
  <1>1. zero \in [Item -> Int] /\ AddUp(zero) = 0
    BY AddUpZero
  <1>2. \A i \in Item : zero[i] <= On(f, A)[i] /\ On(f, A)[i] <= f[i]
    BY DEF On
  <1> HIDE DEF zero
  <1>3. AddUp(zero) <= AddUp(On(f, A))
    BY <1>1, <1>2, OnInt, AddUpBelow
  <1>4. AddUp(On(f, A)) <= AddUp(f)
    BY <1>2, OnInt, AddUpBelow
  <1> QED BY <1>1, <1>3, <1>4

LEMMA SizeOfAll == AddUp(Each) = N
  <1> DEFINE u == [n \in 0 .. N |-> n]
  <1>1. Adding(u, Each)
    BY ItemIsInterval DEF Adding, Each
  <1>2. u[N] = N
    BY ItemIsInterval
  <1> HIDE DEF u
  <1> QED BY <1>1, <1>2, EachInt, AddUpAdds

LEMMA SizeBounds == ASSUME NEW A PROVE Size(A) \in 0 .. N
  <1>1. 0 <= Size(A) /\ Size(A) <= N
    BY EachInt, SizeOfAll, PartOfWhole DEF Size, Each
  <1> QED BY <1>1, SizeInt, ItemIsInterval

LEMMA SizeUnion ==
  ASSUME NEW A, NEW B, A \cap B = {}
  PROVE  Size(A \cup B) = Size(A) + Size(B)
  BY EachInt, OnUnion DEF Size

LEMMA SizeOne == ASSUME NEW j \in Item PROVE Size({j}) = 1
  BY EachInt, OnSingle DEF Size, Each

\* A sum over A is at most |A| times a bound of its members.
LEMMA OnAtMost ==
  ASSUME NEW f \in [Item -> Int], NEW x \in Int, NEW A, \A i \in Item : i \in A => f[i] <= x
  PROVE  AddUp(On(f, A)) <= x * Size(A)
  <1> DEFINE g == [i \in Item |-> x * On(Each, A)[i]]
  <1>1. \A i \in Item : On(Each, A)[i] \in Int
    BY EachInt, OnInt
  <1>2. g \in [Item -> Int] /\ \A i \in Item : g[i] = x * On(Each, A)[i]
    BY <1>1
  <1>3. \A i \in Item : On(f, A)[i] <= g[i]
    BY DEF On, Each
  <1> HIDE DEF g
  <1>4. AddUp(g) = x * Size(A)
    BY <1>2, EachInt, OnInt, AddUpTimes DEF Size
  <1>5. AddUp(On(f, A)) <= AddUp(g)
    BY <1>2, <1>3, OnInt, AddUpBelow
  <1> QED BY <1>4, <1>5

-----------------------------------------------------------------------------
(* How far credits spread *)

\* No set of items has gained more on the others than this. (N - |A|) items
\* have lost it, and the bound is largest for one half of the items.
Spread(f, M) ==
    \A A \in SUBSET Item : 2 * AddUp(On(f, A)) <= Size(A) * (N - Size(A)) * M

LEMMA TimesMonotone ==
  ASSUME NEW b \in Nat, NEW x \in Int, NEW y \in Int, x <= y
  PROVE  b * x <= b * y
  OBVIOUS

LEMMA TimesCancel ==
  ASSUME NEW b \in Nat, NEW x \in Int, NEW y \in Int, (b + 1) * x <= (b + 1) * y
  PROVE  x <= y
  OBVIOUS

\* The arithmetic of SpreadKept: k items are in the set, m outside, b of the k
\* take part in the round; z is the credit of the others, y that of all k and
\* the leader, r what the b have after the raise and x what the leader has.
LEMMA RoundArithmetic ==
  ASSUME NEW b \in Nat, NEW k \in Nat, NEW m \in Int, NEW M \in Nat, NEW t \in Int,
         NEW r \in Int, NEW x \in Int, NEW y \in Int, NEW z \in Int,
         r <= x * b, r + x <= (y - z) + t, t <= M,
         2 * z <= (k - b) * (m + b) * M,
         2 * y <= (k + 1) * (m - 1) * M
  PROVE  2 * (z + r) <= k * m * M
  <1>1. (b + 1) * r <= b * ((y - z) + M)
    <2>1. b * (r + x) <= b * ((y - z) + M)
      BY TimesMonotone
    <2>2. (b + 1) * r <= b * (r + x)
      OBVIOUS
    <2> QED BY <2>1, <2>2
  <1>2. (b + 1) * (2 * (z + r)) <= 2 * z + b * (2 * y) + 2 * (b * M)
    <2>1. (b + 1) * (2 * (z + r)) = 2 * (b * z) + 2 * z + 2 * ((b + 1) * r)
      OBVIOUS
    <2>2. b * ((y - z) + M) = b * y - b * z + b * M
      OBVIOUS
    <2>3. b * (2 * y) = 2 * (b * y)
      OBVIOUS
    <2> QED BY <1>1, <2>1, <2>2, <2>3
  <1>3. b * (2 * y) <= b * ((k + 1) * (m - 1) * M)
    BY TimesMonotone
  <1>4. (k - b) * (m + b) * M + b * ((k + 1) * (m - 1) * M) + 2 * (b * M)
           = (b + 1) * (k * m * M) - (b * b - b) * M
    OBVIOUS
  <1>5. (b * b - b) * M >= 0
    <2>1. b * b >= b
      OBVIOUS
    <2> QED BY <2>1
  <1>6. (b + 1) * (2 * (z + r)) <= (b + 1) * (k * m * M)
    BY <1>2, <1>3, <1>4, <1>5
  <1> QED BY <1>6, TimesCancel

\* One round: w is added, and the leader l gives up the total.
LEMMA SpreadKept ==
  ASSUME NEW M \in Nat, NEW c \in [Item -> Int], NEW w \in [Item -> Nat], NEW l \in Item,
         AddUp(w) <= M,
         \A i \in Item : w[i] > 0 => c[i] + w[i] <= c[l] + w[l],
         Spread(c, M),
         NEW d \in [Item -> Int],
         \A i \in Item : d[i] = c[i] + w[i] - (IF i = l THEN AddUp(w) ELSE 0)
  PROVE  Spread(d, M)
  <1> SUFFICES ASSUME NEW A \in SUBSET Item
               PROVE  2 * AddUp(On(d, A)) <= Size(A) * (N - Size(A)) * M
    BY DEF Spread
  <1> DEFINE t == AddUp(w)
             r == [i \in Item |-> c[i] + w[i]]
  <1>1. w \in [Item -> Int] /\ t \in Int /\ \A i \in Item : w[i] >= 0
    BY AddUpInt
  <1>2. r \in [Item -> Int]
    BY <1>1
  <1>3. ASSUME NEW B PROVE AddUp(On(r, B)) <= AddUp(On(c, B)) + t
    <2>1. AddUp(On(r, B)) = AddUp(On(c, B)) + AddUp(On(w, B))
      BY <1>1, OnPlus
    <2> QED BY <1>1, <2>1, PartOfWhole, OnInt
  <1>4. CASE l \in A
    <2> DEFINE e == [i \in Item |-> IF i = l THEN -t ELSE 0]
    <2>1. e \in [Item -> Int] /\ AddUp(e) = -t
      <3>1. e \in [Item -> Int] /\ e[l] = -t /\ \A i \in Item \ {l} : e[i] = 0
        BY <1>1
      <3> QED BY <3>1, AddUpOne
    <2>2. \A i \in Item : On(d, A)[i] = On(r, A)[i] + e[i]
      BY <1>1, <1>4 DEF On
    <2> HIDE DEF e, r, t
    <2>3. AddUp(On(d, A)) = AddUp(On(r, A)) + AddUp(e)
      <3>1. On(d, A) \in [Item -> Int] /\ On(r, A) \in [Item -> Int]
        BY <1>2, OnInt, Zenon
      <3> QED BY <2>1, <2>2, <3>1, AddUpPlus, Zenon
    <2>4. AddUp(On(d, A)) <= AddUp(On(c, A))
      BY <1>1, <1>2, <1>3, <2>1, <2>3, OnInt
    <2>5. 2 * AddUp(On(c, A)) <= Size(A) * (N - Size(A)) * M
      BY DEF Spread
    <2>6. Size(A) * (N - Size(A)) * M \in Int
      BY SizeInt, ItemIsInterval
    <2> QED BY <2>4, <2>5, <2>6, OnInt
  <1>5. CASE l \notin A
    <2> DEFINE B == {i \in A : w[i] > 0}
               Z == A \ B
               k == Size(A)
               b == Size(B)
    <2>1. A = Z \cup B /\ Z \cap B = {} /\ B \cap {l} = {} /\ A \cap {l} = {}
          /\ Z \cap (B \cup {l}) = {} /\ A \cup {l} = Z \cup (B \cup {l})
          /\ Z \in SUBSET Item /\ B \in SUBSET Item /\ A \cup {l} \in SUBSET Item
      BY <1>5
    <2>2. AddUp(On(d, A)) = AddUp(On(c, Z)) + AddUp(On(r, B))
      <3>1. \A i \in Item : On(d, A)[i] = On(c, Z)[i] + On(r, B)[i]
        BY <1>1, <1>5 DEF On
      <3> HIDE DEF Z, B, r
      <3> QED BY <1>2, <3>1, OnInt, AddUpPlus
    <2>3. AddUp(On(r, B)) <= r[l] * b
      <3>1. \A i \in Item : i \in B => r[i] <= r[l]
        OBVIOUS
      <3>2. r[l] \in Int
        BY <1>2
      <3> HIDE DEF B, r
      <3> QED BY <1>2, <3>1, <3>2, OnAtMost
    <2> HIDE DEF Z, B, r, t
    <2>4. AddUp(On(r, B)) + r[l] <= AddUp(On(c, B \cup {l})) + t
      <3>1. AddUp(On(r, {l})) = r[l]
        BY <1>2, OnSingle
      <3>2. AddUp(On(r, B \cup {l})) = AddUp(On(r, B)) + AddUp(On(r, {l}))
        BY <1>2, <2>1, OnUnion
      <3> QED BY <1>3, <3>1, <3>2
    <2>5. AddUp(On(c, A \cup {l})) = AddUp(On(c, Z)) + AddUp(On(c, B \cup {l}))
      BY <2>1, OnUnion
    <2>6. k = Size(Z) + b /\ Size(A \cup {l}) = k + 1
      <3>1. Size(Z \cup B) = Size(Z) + Size(B)
        BY <2>1, SizeUnion
      <3>2. Size(A \cup {l}) = Size(A) + Size({l})
        BY <2>1, SizeUnion
      <3> QED BY <2>1, <3>1, <3>2, SizeOne
    <2>7. k \in Nat /\ b \in Nat /\ N \in Nat /\ Size(Z) \in Int
      BY SizeBounds, ItemIsInterval
    <2>8. 2 * AddUp(On(c, Z)) <= (k - b) * ((N - k) + b) * M
      <3>1. Size(Z) = k - b /\ N - Size(Z) = (N - k) + b
        BY <2>6, <2>7
      <3>2. 2 * AddUp(On(c, Z)) <= Size(Z) * (N - Size(Z)) * M
        BY <2>1 DEF Spread
      <3> HIDE DEF k, b
      <3> QED BY <3>1, <3>2
    <2>9. 2 * AddUp(On(c, A \cup {l})) <= (k + 1) * ((N - k) - 1) * M
      <3>1. Size(A \cup {l}) = k + 1 /\ N - Size(A \cup {l}) = (N - k) - 1
        BY <2>6, <2>7
      <3>2. 2 * AddUp(On(c, A \cup {l})) <= Size(A \cup {l}) * (N - Size(A \cup {l})) * M
        BY <2>1 DEF Spread
      <3> HIDE DEF k, b
      <3> QED BY <3>1, <3>2
    <2>10. /\ AddUp(On(c, Z)) \in Int /\ AddUp(On(r, B)) \in Int
           /\ AddUp(On(c, A \cup {l})) \in Int /\ AddUp(On(c, B \cup {l})) \in Int
           /\ r[l] \in Int /\ N - k \in Int
      BY <1>2, <2>7, OnInt
    <2>11. AddUp(On(r, B)) + r[l] <= (AddUp(On(c, A \cup {l})) - AddUp(On(c, Z))) + t
      BY <1>1, <2>4, <2>5, <2>10
    <2>12. t <= M
      BY DEF t
    <2> HIDE DEF k, b
    <2>13. 2 * (AddUp(On(c, Z)) + AddUp(On(r, B))) <= k * (N - k) * M
      BY <1>1, <2>3, <2>7, <2>8, <2>9, <2>10, <2>11, <2>12, RoundArithmetic
    <2> QED BY <2>2, <2>13 DEF k
  <1> QED BY <1>4, <1>5

-----------------------------------------------------------------------------
(* Credits and waits in the pool *)

Counters ==
    /\ closed \in [Item -> BOOLEAN]
    /\ credit \in [Item -> Int] /\ wait \in [Item -> Nat]
    /\ AddUp(credit) = 0

\* A step that picks no item leaves the credits and the waits alone.
NoRound ==
    /\ closed' \in [Item -> BOOLEAN]
    /\ UNCHANGED <<credit, wait>>

Round == /\ closed' = closed
         /\ \E w \in Weightings, i \in Item : Picks(w, i)

LEMMA RoundOrNot == ASSUME Counters, [Next]_vars PROVE NoRound \/ Round
  <1>1. CASE \/ \E c \in Caller : Begin(c) \/ Exhausted(c)
             \/ \E S \in SUBSET Impatient : Cut(S)
    BY <1>1 DEF Begin, Exhausted, Cut, pool, NoRound, Counters
  <1>2. ASSUME NEW c \in Caller, Pick(c) PROVE NoRound \/ Round
    <2>1. PICK w \in Weightings : \/ UNCHANGED <<credit, wait>>
                                  \/ \E i \in Item : Picks(w, i)
      BY <1>2 DEF Pick
    <2> QED BY <1>2, <2>1 DEF Pick, NoRound, Round, Counters
  <1>3. ASSUME NEW c \in Caller, Succeeds(c) PROVE NoRound
    BY <1>3 DEF Succeeds, RecordSuccess, NoRound, Counters
  <1>4. ASSUME NEW c \in Caller, Fails(c) PROVE NoRound
    BY <1>4 DEF Fails, RecordFailure, NoRound, Counters
  <1>5. ASSUME NEW i \in Item, GateOpens(i) PROVE NoRound
    BY <1>5 DEF GateOpens, NoRound, Counters
  <1>6. ASSUME NEW i \in Item, HardFades(i) PROVE NoRound
    BY <1>6 DEF HardFades, NoRound, Counters
  <1>7. ASSUME NEW i \in Item, GoodFades(i) PROVE NoRound
    BY <1>7 DEF GoodFades, NoRound, Counters
  <1>8. ASSUME NEW i \in Item, FailsFade(i) PROVE NoRound
    BY <1>8 DEF FailsFade, NoRound, Counters
  <1>9. CASE UNCHANGED vars
    BY <1>9 DEF vars, NoRound, Counters
  <1> QED BY <1>1, <1>2, <1>3, <1>4, <1>5, <1>6, <1>7, <1>8, <1>9 DEF Next, Step

LEMMA WeightsNat ==
  ASSUME NEW w \in Weightings
  PROVE  w \in [Item -> Nat] /\ AddUp(w) \in Int
  <1> DEFINE Values == FullWeights \cup ProbeWeights \cup {0}
  <1>1. Values \subseteq Nat
    BY PoolAssumption
  <1>2. w \in [Item -> Values]
    BY DEF Weightings
  <1> HIDE DEF Values
  <1>3. w \in [Item -> Nat]
    BY <1>1, <1>2
  <1>4. w \in [Item -> Int]
    BY <1>3
  <1> QED BY <1>3, <1>4, AddUpInt

\* What a round does to each credit and each wait.
LEMMA RoundEffect ==
  ASSUME Counters, NEW w \in Weightings, NEW l \in Item, Picks(w, l)
  PROVE  /\ credit' \in [Item -> Int] /\ wait' \in [Item -> Nat]
         /\ w[l] > 0
         /\ \A i \in Item : w[i] > 0 => credit[i] + w[i] <= credit[l] + w[l]
         /\ \A i \in Item :
               credit'[i] = credit[i] + w[i] - (IF i = l THEN AddUp(w) ELSE 0)
         /\ \A i \in Item : \/ wait'[i] = 0
                            \/ i # l /\ w[i] > 0 /\ wait'[i] = wait[i] + 1
                            \/ i # l /\ w[i] = 0 /\ wait'[i] = wait[i]
  <1>1. /\ w \in [Item -> Nat] /\ AddUp(w) \in Int
        /\ credit \in [Item -> Int] /\ wait \in [Item -> Nat]
    BY WeightsNat DEF Counters
  <1>2. /\ Raised(w) \in [Item -> Int]
        /\ \A i \in Item : Raised(w)[i] = credit[i] + w[i]
    BY <1>1 DEF Raised
  <1>3. credit' = [Raised(w) EXCEPT ![l] = @ - AddUp(w)]
    BY DEF Picks, Total
  <1>4. Leads(w, l)
    BY DEF Picks
  <1>5. /\ w[l] > 0
        /\ \A i \in Item : w[i] > 0 => Raised(w)[i] <= Raised(w)[l]
    BY <1>1, <1>2, <1>4 DEF Leads, Active
  <1>6. wait' = [k \in Item |-> IF k = l THEN 0
                                ELSE IF w[k] > 0 THEN wait[k] + 1 ELSE wait[k]]
    BY DEF Picks
  <1>7. wait' \in [Item -> Nat]
    BY <1>1, <1>6
  <1>8. credit' \in [Item -> Int]
    BY <1>1, <1>2, <1>3
  <1>9. \A i \in Item :
            credit'[i] = credit[i] + w[i] - (IF i = l THEN AddUp(w) ELSE 0)
    BY <1>1, <1>2, <1>3
  <1>10. ASSUME NEW i \in Item
         PROVE  \/ wait'[i] = 0
                \/ i # l /\ w[i] > 0 /\ wait'[i] = wait[i] + 1
                \/ i # l /\ w[i] = 0 /\ wait'[i] = wait[i]
    BY <1>1, <1>6
  <1> QED BY <1>2, <1>5, <1>7, <1>8, <1>9, <1>10

LEMMA RoundBalanced ==
  ASSUME Counters, NEW w \in Weightings, NEW l \in Item, Picks(w, l)
  PROVE  AddUp(credit') = 0
  <1> DEFINE r == [i \in Item |-> credit[i] + w[i]]
             e == [i \in Item |-> IF i = l THEN -AddUp(w) ELSE 0]
  <1>1. w \in [Item -> Int] /\ AddUp(w) \in Int
    BY WeightsNat
  <1>2. credit \in [Item -> Int] /\ AddUp(credit) = 0
    BY DEF Counters
  <1>3. r \in [Item -> Int] /\ \A i \in Item : r[i] = credit[i] + w[i]
    BY <1>1, <1>2
  <1>4. e \in [Item -> Int] /\ e[l] = -AddUp(w) /\ \A i \in Item \ {l} : e[i] = 0
    BY <1>1
  <1>5. credit' \in [Item -> Int] /\ \A i \in Item : credit'[i] = r[i] + e[i]
    BY <1>1, <1>2, RoundEffect
  <1> HIDE DEF r, e
  <1>6. AddUp(r) = AddUp(w)
    BY <1>1, <1>2, <1>3, AddUpPlus
  <1>7. AddUp(e) = -AddUp(w)
    BY <1>4, AddUpOne
  <1>8. AddUp(credit') = AddUp(r) + AddUp(e)
    BY <1>3, <1>4, <1>5, AddUpPlus
  <1> QED BY <1>1, <1>6, <1>7, <1>8

LEMMA CountersInvariant == Spec => []Counters
  <1>1. Init => Counters
    <2> SUFFICES ASSUME Init PROVE Counters
      OBVIOUS
    <2>1. credit \in [Item -> Int] /\ \A i \in Item : credit[i] = 0
      BY DEF Init
    <2>2. AddUp(credit) = 0
      BY <2>1, AddUpZero
    <2> QED BY <2>1, <2>2 DEF Init, Counters
  <1>2. Counters /\ [Next]_vars => Counters'
    <2> SUFFICES ASSUME Counters, [Next]_vars PROVE Counters'
      OBVIOUS
    <2>1. CASE NoRound
      <3>1. AddUp(credit') = 0
        BY <2>1 DEF Counters, NoRound
      <3> QED BY <2>1, <3>1 DEF Counters, NoRound
    <2>2. CASE Round
      <3>1. PICK w \in Weightings, l \in Item : Picks(w, l)
        BY <2>2 DEF Round
      <3>2. AddUp(credit') = 0
        BY <3>1, RoundBalanced
      <3>3. credit' \in [Item -> Int] /\ wait' \in [Item -> Nat]
        BY <3>1, RoundEffect
      <3>4. closed' \in [Item -> BOOLEAN]
        BY <2>2 DEF Round, Counters
      <3> QED BY <3>2, <3>3, <3>4 DEF Counters
    <2> QED BY <2>1, <2>2, RoundOrNot
  <1> QED BY <1>1, <1>2, PTL DEF Spec

\* No item gains on all the others together, whatever the weights are and
\* however often items leave and re-enter the rotation (nextSmoothWeighted).
THEOREM CreditsBalance == Spec => []CreditBalanced
  <1>1. Counters => CreditBalanced
    BY DEF Counters, CreditBalanced
  <1> QED BY <1>1, CountersInvariant, PTL

\* No weight exceeds W, so that no total exceeds N * W.
TopWeight(W) == \A x \in FullWeights \cup ProbeWeights : x <= W

\* A round that passes an item by adds its weight to its credit, which is what it
\* adds to its wait, or more.
Patience(W) == \A i \in Item : 2 * (credit[i] - wait[i]) >= -((N - 1) * (N * W))

Rotation(W) == Spread(credit, N * W) /\ Patience(W)

LEMMA TotalBounded ==
  ASSUME NEW W \in Nat, TopWeight(W), NEW w \in Weightings
  PROVE  AddUp(w) <= N * W
  <1>1. \A i \in Item : w[i] <= W
    BY DEF Weightings, TopWeight
  <1>2. w \in [Item -> Int]
    BY WeightsNat
  <1>3. AddUp(On(w, Item)) <= W * Size(Item)
    BY <1>1, <1>2, OnAtMost
  <1>4. AddUp(On(w, Item)) = AddUp(w) /\ Size(Item) = N
    BY <1>2, OnAll, EachInt, SizeOfAll DEF Size
  <1>5. W * N = N * W
    BY ItemIsInterval
  <1> QED BY <1>3, <1>4, <1>5

\* With balanced credits the bound of the spread is one of each credit, from
\* above (the item alone) and from below (all others).
LEMMA CreditRange ==
  ASSUME NEW M \in Nat, NEW f \in [Item -> Int], AddUp(f) = 0, Spread(f, M), NEW i \in Item
  PROVE  2 * f[i] <= (N - 1) * M /\ 2 * f[i] >= -((N - 1) * M)
  <1> DEFINE others == Item \ {i}
  <1>1. others \in SUBSET Item /\ {i} \in SUBSET Item
        /\ Item = {i} \cup others /\ {i} \cap others = {}
    OBVIOUS
  <1>2. Size({i}) = 1
    BY SizeOne
  <1>3. Size(others) = N - 1
    <2>1. Size(Item) = Size({i}) + Size(others)
      BY <1>1, SizeUnion
    <2>2. Size(Item) = N
      BY OnAll, EachInt, SizeOfAll DEF Size
    <2> QED BY <1>2, <2>1, <2>2, SizeInt, ItemIsInterval
  <1>4. 0 = f[i] + AddUp(On(f, others))
    <2>1. AddUp(On(f, {i} \cup others)) = AddUp(On(f, {i})) + AddUp(On(f, others))
      BY <1>1, OnUnion
    <2>2. AddUp(On(f, {i} \cup others)) = 0
      BY <1>1, OnAll
    <2> QED BY <2>1, <2>2, OnSingle
  <1>5. 2 * AddUp(On(f, {i})) <= 1 * (N - 1) * M
    BY <1>1, <1>2 DEF Spread
  <1>6. 2 * AddUp(On(f, others)) <= (N - 1) * (N - (N - 1)) * M
    BY <1>1, <1>3 DEF Spread
  <1>7. AddUp(On(f, {i})) = f[i] /\ AddUp(On(f, others)) \in Int /\ N \in Nat
    BY OnSingle, OnInt, ItemIsInterval
  <1>8. 1 * (N - 1) * M = (N - 1) * M /\ (N - 1) * (N - (N - 1)) * M = (N - 1) * M
        /\ (N - 1) * M \in Int
    BY <1>7
  <1> QED BY <1>4, <1>5, <1>6, <1>7, <1>8

LEMMA RotationInvariant ==
  ASSUME NEW W \in Nat, TopWeight(W)
  PROVE  Spec => []Rotation(W)
  <1> DEFINE M == N * W
  <1>0. M \in Nat /\ N \in Nat /\ N - 1 \in Int
    BY ItemIsInterval
  <1>a. \A i \in Item : (N - 1) * M \in Int
    BY <1>0
  <1> HIDE DEF M
  <1>1. Init => Rotation(W)
    <2> SUFFICES ASSUME Init PROVE Rotation(W)
      OBVIOUS
    <2>1. credit \in [Item -> Int] /\ \A i \in Item : credit[i] = 0 /\ wait[i] = 0
      BY DEF Init
    <2>2. ASSUME NEW A \in SUBSET Item
          PROVE  2 * AddUp(On(credit, A)) <= Size(A) * (N - Size(A)) * M
      <3>1. AddUp(On(credit, A)) = 0
        <4>1. \A i \in Item : On(credit, A)[i] = 0
          BY <2>1 DEF On
        <4> QED BY <2>1, <4>1, OnInt, AddUpZero
      <3>2. Size(A) \in Nat /\ N - Size(A) \in Nat
        BY SizeBounds, <1>0
      <3>3. Size(A) * (N - Size(A)) \in Nat
        BY <3>2
      <3>4. Size(A) * (N - Size(A)) * M \in Nat
        BY <1>0, <3>3
      <3> QED BY <3>1, <3>4
    <2>3. ASSUME NEW i \in Item PROVE 2 * (credit[i] - wait[i]) >= -((N - 1) * M)
      <3>1. N - 1 \in Nat
        BY ItemIsInterval
      <3>2. (N - 1) * M \in Nat
        BY <1>0, <3>1
      <3> QED BY <2>1, <3>2
    <2> QED BY <2>2, <2>3 DEF Rotation, Spread, Patience, M
  <1>2. Counters /\ Counters' /\ Rotation(W) /\ [Next]_vars => Rotation(W)'
    <2> SUFFICES ASSUME Counters, Counters', Rotation(W), [Next]_vars PROVE Rotation(W)'
      OBVIOUS
    <2>0. /\ credit \in [Item -> Int] /\ wait \in [Item -> Nat]
          /\ credit' \in [Item -> Int] /\ wait' \in [Item -> Nat] /\ AddUp(credit') = 0
          /\ Spread(credit, M)
          /\ \A i \in Item : 2 * (credit[i] - wait[i]) >= -((N - 1) * M)
      BY DEF Counters, Rotation, Patience, M
    <2>1. Spread(credit', M)
      <3>1. CASE NoRound
        BY <2>0, <3>1 DEF NoRound
      <3>2. CASE Round
        <4>1. PICK w \in Weightings, l \in Item : Picks(w, l)
          BY <3>2 DEF Round
        <4>2. w \in [Item -> Nat] /\ AddUp(w) <= M
          BY TotalBounded, WeightsNat DEF M
        <4>3. /\ \A i \in Item : w[i] > 0 => credit[i] + w[i] <= credit[l] + w[l]
              /\ \A i \in Item :
                    credit'[i] = credit[i] + w[i] - (IF i = l THEN AddUp(w) ELSE 0)
          BY <4>1, RoundEffect
        <4> QED BY <1>0, <2>0, <4>2, <4>3, SpreadKept
      <3> QED BY <3>1, <3>2, RoundOrNot
    <2>2. ASSUME NEW i \in Item PROVE 2 * (credit'[i] - wait'[i]) >= -((N - 1) * M)
      <3>1. CASE wait'[i] = 0
        <4>1. 2 * credit'[i] >= -((N - 1) * M)
          BY <1>0, <2>0, <2>1, CreditRange
        <4> QED BY <2>0, <3>1, <4>1
      <3>2. CASE NoRound /\ wait'[i] # 0
        BY <2>0, <3>2 DEF NoRound
      <3>3. CASE Round /\ wait'[i] # 0
        <4>1. PICK w \in Weightings, l \in Item : Picks(w, l)
          BY <3>3 DEF Round
        <4>2. i # l /\ w[i] \in Nat
          BY <3>3, <4>1, RoundEffect, WeightsNat
        <4>3. credit'[i] = credit[i] + w[i]
          BY <2>0, <4>1, <4>2, RoundEffect
        <4>4. \/ w[i] >= 1 /\ wait'[i] = wait[i] + 1
              \/ w[i] = 0 /\ wait'[i] = wait[i]
          BY <3>3, <4>1, <4>2, RoundEffect
        <4>5. /\ credit[i] \in Int /\ wait[i] \in Int
              /\ 2 * (credit[i] - wait[i]) >= -((N - 1) * M) /\ (N - 1) * M \in Int
          BY <1>a, <2>0
        <4> QED BY <4>2, <4>3, <4>4, <4>5
      <3> QED BY <3>1, <3>2, <3>3, RoundOrNot
    <2> QED BY <2>1, <2>2 DEF Rotation, Patience, M
  <1> QED BY <1>1, <1>2, CountersInvariant, PTL DEF Spec

\* The bounds that the model claims are at least those that follow from the
\* number of keys and their weights.
ClaimsWide(W) == /\ TopWeight(W)
                 /\ 2 * MaxCredit >= (N - 1) * (N * W)
                 /\ MaxWait >= (N - 1) * (N * W)

LEMMA RotationBounds ==
  ASSUME NEW W \in Nat, ClaimsWide(W), Counters, Rotation(W), NEW i \in Item
  PROVE  credit[i] \in -MaxCredit .. MaxCredit /\ wait[i] <= MaxWait
  <1> DEFINE M == N * W
  <1>1. M \in Nat /\ MaxCredit \in Nat /\ MaxWait \in Nat
    BY ItemIsInterval, PoolAssumption
  <1>2. 2 * MaxCredit >= (N - 1) * M /\ MaxWait >= (N - 1) * M
    BY DEF ClaimsWide
  <1>3. Spread(credit, M) /\ 2 * (credit[i] - wait[i]) >= -((N - 1) * M)
    BY DEF Rotation, Patience
  <1>4. (N - 1) * M \in Int
    BY <1>1, ItemIsInterval
  <1> HIDE DEF M
  <1>5. 2 * credit[i] <= (N - 1) * M /\ 2 * credit[i] >= -((N - 1) * M)
    BY <1>1, <1>3, CreditRange DEF Counters
  <1>6. credit[i] \in Int /\ wait[i] \in Int
    BY DEF Counters
  <1> QED BY <1>1, <1>2, <1>3, <1>4, <1>5, <1>6

\* An item is picked after at most (N - 1) * N * W of the picks at which it has a
\* weight, whatever the other items' weights and outcomes are and however often
\* its own weight is 0 in between (nextSmoothWeighted).
THEOREM Fair ==
  ASSUME NEW W \in Nat, ClaimsWide(W)
  PROVE  Spec => []FairRotation
  <1>1. Counters /\ Rotation(W) => FairRotation
    BY RotationBounds DEF FairRotation
  <1>2. Spec => []Rotation(W)
    BY RotationInvariant DEF ClaimsWide
  <1> QED BY <1>1, <1>2, CountersInvariant, PTL

-----------------------------------------------------------------------------

\* All parts of the state keep their types, and the credits the claimed bound.
THEOREM TypeCorrect ==
  ASSUME NEW W \in Nat, ClaimsWide(W)
  PROVE  Spec => []TypeOK
  <1>1. Learned /\ Counters /\ Rotation(W) /\ call \in [Caller -> Call] => TypeOK
    <2> SUFFICES ASSUME Learned, Counters, Rotation(W), call \in [Caller -> Call]
                 PROVE  TypeOK
      OBVIOUS
    <2>1. credit \in [Item -> -MaxCredit .. MaxCredit]
      BY RotationBounds DEF Counters
    <2> QED BY <2>1 DEF TypeOK, Learned, Counters
  <1>2. Spec => []Rotation(W)
    BY RotationInvariant DEF ClaimsWide
  <1> QED BY <1>1, <1>2, LearnedInvariant, CountersInvariant, CallsTyped, PTL
=============================================================================
