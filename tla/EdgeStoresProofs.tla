--------------------------- MODULE EdgeStoresProofs ----------------------------
(***************************************************************************)
(* Proofs about EdgeStores, for all clients, asks, places, widths, slots,  *)
(* lifetimes and queue lengths, any number of purchases and faults:        *)
(* TypeOK; what a client is served fits its request (ServedFits); nothing  *)
(* is paid for again while a store has it (PaysOnce); and, where each row  *)
(* has one buyer, older data never replaces newer (ArchiveKeeps).          *)
(*                                                                         *)
(* Each needs more than the step before: ServedFits that every edge in a   *)
(* store, in the queue or in a client's hands is filed as it was bought    *)
(* and that a lookup's slot is one its client asks for at some time of the *)
(* call (IInv); PaysOnce what a client has learned at each step of its     *)
(* lookup (Memory) and that a version is somewhere on its way to the       *)
(* archive, or lost (ArchiveHolds); ArchiveKeeps that the jobs of a row    *)
(* are queued in the order of purchase (InOrder).                          *)
(***************************************************************************)
EXTENDS EdgeStores, WellFoundedInduction, TLAPS

Edge == [ctx : Context, o : Place, d : Place, slot : Slot, v : Nat]

AnyAsk == UNION {Asks[c] : c \in Client}

Bill == [by : Client, ctx : Context, key : HashKey, row : RowKey, slot : Slot,
         until : Nat]

Steps == {"idle", "exact", "near", "slots", "hour", "promote", "buy", "put", "enqueue", "done"}

Local == [pc : Steps, ask : AnyAsk \cup {NoAsk}, slot : Slot \cup {NoSlot},
          wmt : Slot \cup {NoSlot}, asked : Nat, queued : SUBSET Nat, got : Edge \cup {Nothing}]

\* e is what the bill of its version says.
Bought(e) ==
    /\ e \in Edge
    /\ e.v \in DOMAIN bills
    /\ bills[e.v].ctx = e.ctx /\ bills[e.v].slot = e.slot
    /\ bills[e.v].key = KeyOf(e) /\ bills[e.v].row = RowOf(e)

Longest == CHOOSE j \in Jumps : \A k \in Jumps : k <= j

Clock ==
    /\ now \in Nat /\ StartHour <= now /\ faults \in 0 .. MaxFaults
    /\ now <= StartHour + Longest * faults
    /\ expires \in [HashKey -> Nat] /\ \A h \in HashKey : expires[h] <= Forever

Stores ==
    /\ bills \in Seq(Bill)
    /\ \A e \in redis : Bought(e)
    /\ rows \in Seq(Edge) /\ \A i \in DOMAIN rows : Bought(rows[i])
    /\ \A i, k \in DOMAIN rows : SameRow(rows[i], rows[k]) => i = k
    /\ queue \in Seq(Edge) /\ \A i \in DOMAIN queue : Bought(queue[i])
    /\ Len(queue) <= QueueCap

\* The slot of a lookup is one that the client asks for at some time of its call.
Current(r) == \E t \in r.asked .. now : r.slot = SlotOf(r.ask, t)

\* What r.got is: a fitting edge, or the client's own.
Own(r) == /\ Bought(r.got)
          /\ r.got.ctx = r.ask.ctx /\ r.got.o = r.ask.o /\ r.got.d = r.ask.d
          /\ r.got.slot = SlotOf(r.ask, r.asked)

\* An answer is a bought edge, or one of no length.
Served(r) == r.got.v = 0 \/ r.got.v \in DOMAIN bills

Working(c, r) ==
    /\ r \in Local
    /\ r.pc # "idle" => r.ask \in Asks[c] /\ r.asked \in StartHour .. now
    /\ r.pc \notin {"idle", "done"} => r.wmt = SlotOf(r.ask, r.asked)
    /\ r.pc \in {"near", "hour"} => Current(r)
    /\ r.pc = "hour" => ~r.ask.strict
    /\ r.pc = "promote" => Bought(r.got) /\ Fits(r.got, r.ask, r.asked .. now)
    /\ r.pc \in {"put", "enqueue"} => Own(r)
    /\ r.pc = "done" => Served(r) /\ Fits(r.got, r.ask, r.asked .. now)

Clients == client \in [Client -> Local] /\ \A c \in Client : Working(c, client[c])

Places == geo \in [Tenant -> SUBSET Place]

IInv == Clock /\ Stores /\ Places /\ Clients

-----------------------------------------------------------------------------
(* Time slots and asks *)

LEMMA AskFacts ==
  ASSUME NEW c \in Client, NEW a \in Asks[c]
  PROVE  /\ a.o \in Place /\ a.d \in Place /\ a.ctx \in Context /\ a.ctx[1] \in Tenant
         /\ a.ctx[2] \in Int /\ a.ctx[3] \in Int
         /\ a.slot \in Slot \cup {NoSlot} /\ a.strict \in BOOLEAN /\ a.wide \in Nat \ {0}
         /\ a \in AnyAsk
  <1>1. a.ctx \in Context
    BY DEF Context
  <1>2. a.ctx[1] \in Tenant
    BY <1>1 DEF Tenant
  <1>3. a \in AnyAsk
    BY DEF AnyAsk
  <1> QED BY <1>1, <1>2, <1>3, StoresAssumption

LEMMA KeyTyped ==
  ASSUME NEW x \in Context, NEW p \in Place, NEW q \in Place
  PROVE  KeyFor(x, p, q) \in HashKey /\ RowFor(x, p, q) \in RowKey
  BY DEF KeyFor, HashKey, RowFor, RowKey

LEMMA SlotAtTyped == ASSUME NEW t \in Nat PROVE SlotAt(t) \in Slot /\ SlotAt(t).day # NoDay
  <1>1. t % 24 \in 0 .. 23
    OBVIOUS
  <1>2. (t \div 24) \in Nat
    OBVIOUS
  <1>3. (t \div 24) % 7 \in 0 .. 6
    BY <1>2
  <1> QED BY <1>1, <1>3 DEF SlotAt, Slot, NoDay

LEMMA SlotOfTyped ==
  ASSUME NEW c \in Client, NEW a \in Asks[c], NEW t \in Nat
  PROVE  SlotOf(a, t) \in Slot
  BY AskFacts, SlotAtTyped DEF SlotOf

\* Once a lookup has a slot, what it accepts does not depend on when it looks,
\* unless it is a bare hour, which is asked for at any time.
LEMMA AdjacentLater ==
  ASSUME NEW c \in Client, NEW a \in Asks[c], NEW t \in Nat, NEW u \in Nat
  PROVE  \/ AdjacentSlots(SlotOf(a, t), u) = AdjacentSlots(SlotOf(a, t), t)
         \/ SlotOf(a, t) = SlotOf(a, u)
  BY SlotAtTyped DEF AdjacentSlots, SlotOf

-----------------------------------------------------------------------------
(* What a step keeps *)

\* Time goes on, and bills are added, but for until never changed.
Grows ==
    /\ now \in Nat /\ now' \in Nat /\ now <= now'
    /\ bills' \in Seq(Bill)
    /\ \A v \in DOMAIN bills :
          /\ v \in DOMAIN bills'
          /\ bills'[v].by = bills[v].by /\ bills'[v].ctx = bills[v].ctx
          /\ bills'[v].key = bills[v].key /\ bills'[v].row = bills[v].row
          /\ bills'[v].slot = bills[v].slot

LEMMA BoughtStays == ASSUME Grows, NEW e, Bought(e) PROVE Bought(e)'
  BY DEF Grows, Bought

LEMMA FitsStays ==
  ASSUME Grows, NEW e, NEW a, NEW t \in Nat, Fits(e, a, t .. now),
         e.v = 0 \/ e.v \in DOMAIN bills
  PROVE  Fits(e, a, t .. now)'
  <1>1. t .. now \subseteq t .. now'
    BY DEF Grows
  <1>2. e.v # 0 => SameContext(bills'[e.v].ctx, a.ctx)
    BY DEF Grows, Fits
  <1>3. FitsPlace(e, a) /\ \E u \in t .. now' : FitsSlot(e, a, u)
    BY <1>1 DEF Fits
  <1> QED BY <1>2, <1>3 DEF Fits, FitsPlace, FitsSlot, SameContext, Agree, Apart, SlotOf, SlotAt

LEMMA OwnStays == ASSUME Grows, NEW r, Own(r) PROVE Own(r)'
  BY BoughtStays DEF Own

LEMMA WorkingStays ==
  ASSUME Grows, NEW c \in Client, NEW r, Working(c, r) PROVE Working(c, r)'
  <1>1. /\ r \in Local
        /\ r.pc # "idle" => r.ask \in Asks[c] /\ r.asked \in StartHour .. now'
        /\ r.pc \notin {"idle", "done"} => r.wmt = SlotOf(r.ask, r.asked)
        /\ r.pc = "hour" => ~r.ask.strict
    BY DEF Grows, Working
  <1>2. r.pc \in {"near", "hour"} => Current(r)'
    BY DEF Grows, Working, Current
  <1>3. r.pc = "promote" => Bought(r.got)' /\ Fits(r.got, r.ask, r.asked .. now)'
    <2> SUFFICES ASSUME r.pc = "promote"
                 PROVE  Bought(r.got)' /\ Fits(r.got, r.ask, r.asked .. now)'
      OBVIOUS
    <2>1. Bought(r.got) /\ Fits(r.got, r.ask, r.asked .. now) /\ r.asked \in Nat
      BY DEF Working, Local
    <2> QED BY <2>1, BoughtStays, FitsStays DEF Bought
  <1>4. r.pc \in {"put", "enqueue"} => Own(r)'
    BY OwnStays DEF Working
  <1>5. r.pc = "done" => Fits(r.got, r.ask, r.asked .. now)' /\ Served(r)'
    BY FitsStays DEF Working, Local, Served, Grows
  <1> QED BY <1>1, <1>2, <1>3, <1>4, <1>5 DEF Working

LEMMA StoresStay ==
  ASSUME Grows, Stores, UNCHANGED <<redis, rows, queue>> PROVE Stores'
  <1>1. bills' \in Seq(Bill)
    BY DEF Grows
  <1>2. \A e \in redis : Bought(e)'
    BY BoughtStays DEF Stores
  <1>3. \A i \in DOMAIN rows : Bought(rows[i])'
    BY BoughtStays DEF Stores
  <1>4. \A i \in DOMAIN queue : Bought(queue[i])'
    BY BoughtStays DEF Stores
  <1> QED BY <1>1, <1>2, <1>3, <1>4 DEF Stores

\* One client moves on.
LEMMA OneMoves ==
  ASSUME Grows, Clients, NEW c \in Client, NEW r, Working(c, r)', Go(c, r)
  PROVE  Clients'
  <1>1. r \in Local
    BY DEF Working
  <1>2. client' \in [Client -> Local] /\ client'[c] = r
        /\ \A d \in Client \ {c} : client'[d] = client[d]
    BY <1>1 DEF Clients, Go
  <1>3. ASSUME NEW d \in Client PROVE Working(d, client[d])'
    <2>1. CASE d = c
      BY <1>2, <2>1
    <2>2. CASE d # c
      <3>1. Working(d, client[d])
        BY DEF Clients
      <3>2. client'[d] = client[d]
        BY <1>2, <2>2
      <3> DEFINE q == client[d]
      <3>3. Working(d, q)
        BY <3>1
      <3> QED BY <3>2, <3>1, WorkingStays
    <2> QED BY <2>1, <2>2
  <1> QED BY <1>2, <1>3 DEF Clients

\* What a step that touches neither bills nor clock keeps of it.
LEMMA SameBillsGrow ==
  ASSUME Clock, Stores, UNCHANGED <<now, bills>> PROVE Grows
  BY DEF Clock, Stores, Grows

LEMMA ClockStays ==
  ASSUME Clock, UNCHANGED <<now, faults, expires>> PROVE Clock'
  BY DEF Clock

\* A lookup moves its client only.
Looks == UNCHANGED <<redis, expires, geo, rows, queue, now, bills, lost, faults>>

LEMMA LookKeeps ==
  ASSUME IInv, Looks, NEW c \in Client, NEW r, Go(c, r), Working(c, r)
  PROVE  IInv'
  <1>1. Grows
    BY SameBillsGrow DEF IInv, Looks
  <1>2. Clock'
    BY ClockStays DEF IInv, Looks
  <1>3. Stores'
    BY <1>1, StoresStay DEF IInv, Looks
  <1>4. Working(c, r)'
    BY <1>1, WorkingStays
  <1>5. Clients'
    BY <1>1, <1>4, OneMoves DEF IInv
  <1>6. Places'
    BY DEF IInv, Looks, Places
  <1> QED BY <1>2, <1>3, <1>5, <1>6 DEF IInv

-----------------------------------------------------------------------------
(* What lookups find *)

LEMMA IdleTyped == Idle \in Local /\ Idle.pc = "idle" /\ Idle.wmt = NoSlot
  BY DEF Idle, Local, Steps

LEMMA AnswerFacts ==
  ASSUME Clients, NEW c \in Client, NEW e \in Edge
  PROVE  /\ Answer(c, e) \in Local
         /\ Answer(c, e).pc = "done" /\ Answer(c, e).got = e
         /\ Answer(c, e).ask = client[c].ask /\ Answer(c, e).asked = client[c].asked
  <1>1. client[c] \in Local
    BY DEF Clients
  <1>2. client[c].ask \in AnyAsk \cup {NoAsk} /\ client[c].asked \in Nat
    BY <1>1 DEF Local
  <1> QED BY <1>2 DEF Answer, Idle, Local, Steps

LEMMA AnswerWorks ==
  ASSUME Clients, NEW c \in Client, client[c].pc # "idle", NEW e \in Edge,
         e.v = 0 \/ e.v \in DOMAIN bills,
         Fits(e, client[c].ask, client[c].asked .. now)
  PROVE  Working(c, Answer(c, e))
  <1>1. client[c].ask \in Asks[c] /\ client[c].asked \in StartHour .. now
    BY DEF Clients, Working
  <1> QED BY <1>1, AnswerFacts DEF Working, Served

\* The third part of Fits.
FitsTime(e, a, times) == \E t \in times : FitsSlot(e, a, t)

\* The hours before and after one, on the clock's face.
LEMMA Hours ==
  ASSUME NEW h \in 0 .. 23
  PROVE  ((h + 23) % 24) - h \in {-1, 23} /\ ((h + 1) % 24) - h \in {1, -23}
  <1>1. CASE h = 0
    BY <1>1
  <1>2. CASE h = 23
    BY <1>2
  <1>3. CASE h \in 1 .. 22
    <2>1. (h + 23) % 24 = h - 1 /\ (h + 1) % 24 = h + 1
      BY <1>3
    <2> QED BY <1>3, <2>1
  <1> QED BY <1>1, <1>2, <1>3

LEMMA AdjacentFit ==
  ASSUME NEW c \in Client, NEW a \in Asks[c], ~a.strict, NEW t \in Nat, NEW e,
         e.slot \in ToSet(AdjacentSlots(SlotOf(a, t), t))
  PROVE  FitsSlot(e, a, t)
  <1> DEFINE asked == SlotOf(a, t)
             ref   == IF asked.day = NoDay THEN SlotAt(t) ELSE asked
  <1>1. ref \in Slot
    BY SlotOfTyped, SlotAtTyped
  <1>2. PICK i \in 1 .. 3 : e.slot = AdjacentSlots(asked, t)[i]
    BY DEF ToSet, AdjacentSlots
  <1>3. /\ AdjacentSlots(asked, t)[1] = ref
        /\ AdjacentSlots(asked, t)[2] = [ref EXCEPT !.hour = (ref.hour + 23) % 24]
        /\ AdjacentSlots(asked, t)[3] = [ref EXCEPT !.hour = (ref.hour + 1) % 24]
    BY DEF AdjacentSlots
  <1> HIDE DEF ref
  <1>4. ref.hour \in 0 .. 23
    BY <1>1 DEF Slot
  <1>5. e.slot.day = ref.day
    BY <1>1, <1>2, <1>3 DEF Slot
  <1>6. e.slot.hour - ref.hour \in {-23, -1, 0, 1, 23}
    <2>1. CASE i = 1
      BY <1>2, <1>3, <1>4, <2>1
    <2>2. CASE i = 2
      <3>1. e.slot.hour = (ref.hour + 23) % 24
        BY <1>1, <1>2, <1>3, <2>2 DEF Slot
      <3> QED BY <1>4, <3>1, Hours
    <2>3. CASE i = 3
      <3>1. e.slot.hour = (ref.hour + 1) % 24
        BY <1>1, <1>2, <1>3, <2>3 DEF Slot
      <3> QED BY <1>4, <3>1, Hours
    <2> QED BY <2>1, <2>2, <2>3
  <1> QED BY <1>5, <1>6 DEF FitsSlot, ref

LEMMA FieldsFit ==
  ASSUME Clock, NEW c \in Client, NEW a \in Asks[c], NEW s \in Nat, NEW t \in s .. now,
         NEW e, NEW i \in DOMAIN Fields(a, SlotOf(a, t), now),
         e.slot = Fields(a, SlotOf(a, t), now)[i]
  PROVE  FitsTime(e, a, s .. now)
  <1>0. now \in s .. now /\ t \in Nat /\ now \in Nat
    BY DEF Clock
  <1>1. CASE a.strict
    BY <1>1 DEF FitsTime, FitsSlot, Fields
  <1>2. CASE ~a.strict
    <2>1. e.slot \in ToSet(AdjacentSlots(SlotOf(a, t), now))
      BY <1>2 DEF Fields, ToSet
    <2>2. \/ e.slot \in ToSet(AdjacentSlots(SlotOf(a, t), t))
          \/ e.slot \in ToSet(AdjacentSlots(SlotOf(a, now), now))
      BY <1>0, <2>1, AdjacentLater
    <2>3. FitsSlot(e, a, t) \/ FitsSlot(e, a, now)
      BY <1>0, <1>2, <2>2, AdjacentFit
    <2> QED BY <1>0, <2>3 DEF FitsTime
  <1> QED BY <1>1, <1>2

LEMMA BySlotFits ==
  ASSUME Clock, NEW c \in Client, NEW a \in Asks[c], NEW s \in Nat, NEW t \in s .. now,
         NEW S, NEW e \in FirstBySlot(S, Fields(a, SlotOf(a, t), now))
  PROVE  e \in S /\ FitsTime(e, a, s .. now)
  <1>1. e \in S /\ \E i \in DOMAIN Fields(a, SlotOf(a, t), now) :
                         e.slot = Fields(a, SlotOf(a, t), now)[i]
    BY DEF FirstBySlot
  <1> QED BY <1>1, FieldsFit

LEMMA HashFits ==
  ASSUME Clock, Stores, NEW c \in Client, NEW a \in Asks[c], NEW s \in Nat,
         NEW t \in s .. now, NEW k, NEW e \in TryHash(a, k, SlotOf(a, t))
  PROVE  e \in redis /\ Bought(e) /\ KeyOf(e) = k /\ FitsTime(e, a, s .. now)
  BY BySlotFits DEF TryHash, InHash, Stores

\* The digits tell two numbers apart unless both are negative.
LEMMA DigitsAgree ==
  ASSUME NEW m \in Int, NEW n \in Int, Digits(m) = Digits(n)
  PROVE  Agree(m, n)
  BY DEF Digits, Agree

LEMMA KeyCells ==
  ASSUME NEW e \in Edge, NEW x \in Context, NEW p, NEW q, KeyOf(e) = KeyFor(x, p, q)
  PROVE  SameContext(e.ctx, x) /\ GeoHash[p] = GeoHash[e.o] /\ GeoHash[q] = GeoHash[e.d]
  <1>1. ContextKey(e.ctx) = ContextKey(x) /\ GeoHash[p] = GeoHash[e.o] /\ GeoHash[q] = GeoHash[e.d]
    BY DEF KeyOf, KeyFor
  <1>2. e.ctx[1] = x[1] /\ Digits(e.ctx[2]) = Digits(x[2]) /\ Digits(e.ctx[3]) = Digits(x[3])
    BY <1>1 DEF ContextKey
  <1>3. \A y \in Context : y[2] \in Int /\ y[3] \in Int
    BY StoresAssumption DEF Context
  <1>4. e.ctx \in Context
    BY DEF Edge
  <1> QED BY <1>1, <1>2, <1>3, <1>4, DigitsAgree DEF SameContext

\* Rows are found by the context's numbers, so by its digits too.
LEMMA RowKeys ==
  ASSUME NEW e, NEW x, NEW p, NEW q, RowOf(e) = RowFor(x, p, q)
  PROVE  KeyOf(e) = KeyFor(x, p, q)
  <1>1. e.ctx = x /\ GeoHash[e.o] = GeoHash[p] /\ GeoHash[e.d] = GeoHash[q]
    BY DEF RowOf, RowFor
  <1> QED BY <1>1 DEF KeyOf, KeyFor

\* An edge filed for the cells asked for.
LEMMA PairFits ==
  ASSUME NEW c \in Client, NEW a \in Asks[c], NEW e, Bought(e), KeyOf(e) = KeyFor(a.ctx, a.o, a.d),
         NEW s, FitsTime(e, a, s)
  PROVE  Fits(e, a, s)
  <1>1. e \in Edge /\ a.ctx \in Context
    BY AskFacts DEF Bought
  <1>2. SameContext(e.ctx, a.ctx) /\ GeoHash[a.o] = GeoHash[e.o] /\ GeoHash[a.d] = GeoHash[e.d]
    BY <1>1, KeyCells
  <1>3. SameContext(bills[e.v].ctx, a.ctx)
    BY <1>2 DEF Bought
  <1> QED BY <1>2, <1>3 DEF Fits, FitsPlace, FitsTime

LEMMA NearFits ==
  ASSUME Clock, Stores, Places, NEW c \in Client, NEW a \in Asks[c], ~a.strict,
         NEW s \in Nat, NEW t \in s .. now, NEW e \in TryFuzzySpatial(a, SlotOf(a, t))
  PROVE  Bought(e) /\ Fits(e, a, s .. now)
  <1> DEFINE slot == SlotOf(a, t)
             There(x) == TryHash(a, KeyFor(a.ctx, x[1], x[2]), slot)
             Back(x)  == TryHash(a, KeyFor(a.ctx, x[2], x[1]), slot)
             Close(p, x) == 2 * Apart(p, x) <= a.wide \/ (a.wide = 1 /\ Apart(p, x) <= 100)
  <1>1. PICK x \in Nearest(a, a.o) \X Nearest(a, a.d) : e \in There(x) \/ e \in Back(x)
    BY DEF TryFuzzySpatial
  <1> DEFINE p == x[1]
             q == x[2]
  <1>2. /\ p \in Place /\ q \in Place /\ a.o \in Place /\ a.d \in Place
        /\ Apart(a.o, p) <= Radius(a) /\ Apart(a.d, q) <= Radius(a)
    BY AskFacts DEF Nearest, Places
  <1>3. ASSUME NEW y \in Place, NEW z \in Place, Apart(y, z) <= Radius(a) PROVE Close(y, z)
    <2>1. a.wide \in Nat \ {0} /\ Apart(y, z) \in Nat
      BY AskFacts, StoresAssumption
    <2>2. CASE a.wide < 2
      BY <1>3, <2>1, <2>2 DEF Radius
    <2>3. CASE ~(a.wide < 2)
      <3>1. Apart(y, z) <= a.wide \div 2
        BY <1>3, <2>3 DEF Radius
      <3>2. \A w \in Nat : 2 * (w \div 2) <= w
        OBVIOUS
      <3> QED BY <2>1, <3>1, <3>2
    <2> QED BY <2>2, <2>3
  <1>4. Close(a.o, p) /\ Close(a.d, q)
    BY <1>2, <1>3
  <1> HIDE DEF Close
  <1>5. a.ctx \in Context
    BY AskFacts
  <1>6. CASE e \in There(x)
    <2>1. Bought(e) /\ e \in Edge /\ KeyOf(e) = KeyFor(a.ctx, p, q) /\ FitsTime(e, a, s .. now)
      BY <1>6, HashFits DEF Bought
    <2>2. SameContext(bills[e.v].ctx, a.ctx) /\ GeoHash[p] = GeoHash[e.o] /\ GeoHash[q] = GeoHash[e.d]
      BY <1>5, <2>1, KeyCells DEF Bought
    <2>3. FitsPlace(e, a)
      BY <1>2, <1>4, <2>2 DEF FitsPlace, Close
    <2> QED BY <2>1, <2>2, <2>3 DEF Fits, FitsTime
  <1>7. CASE e \in Back(x)
    <2>1. Bought(e) /\ e \in Edge /\ KeyOf(e) = KeyFor(a.ctx, q, p) /\ FitsTime(e, a, s .. now)
      BY <1>7, HashFits DEF Bought
    <2>2. SameContext(bills[e.v].ctx, a.ctx) /\ GeoHash[q] = GeoHash[e.o] /\ GeoHash[p] = GeoHash[e.d]
      BY <1>5, <2>1, KeyCells DEF Bought
    <2>3. FitsPlace(e, a)
      BY <1>2, <1>4, <2>2 DEF FitsPlace, Close
    <2> QED BY <2>1, <2>2, <2>3 DEF Fits, FitsTime
  <1> QED BY <1>1, <1>6, <1>7

-----------------------------------------------------------------------------
(* Every step keeps IInv: lookups *)

LEMMA StartInv == ASSUME IInv, NEW c \in Client, Start(c) PROVE IInv'
  <1>1. PICK a \in Asks[c] :
            Go(c, [Idle EXCEPT !.pc = "exact", !.ask = a, !.wmt = SlotOf(a, now),
                               !.asked = now, !.queued = Queued])
    BY DEF Start
  <1> DEFINE r == [Idle EXCEPT !.pc = "exact", !.ask = a, !.wmt = SlotOf(a, now),
                               !.asked = now, !.queued = Queued]
  <1>2. now \in Nat /\ StartHour <= now
    BY DEF IInv, Clock
  <1>3. Queued \in SUBSET Nat
    <2>1. ASSUME NEW i \in DOMAIN queue PROVE queue[i].v \in Nat
      <3>1. queue[i] \in Edge
        BY DEF IInv, Stores
      <3> QED BY <3>1 DEF Edge
    <2> QED BY <2>1 DEF Queued
  <1>4. a \in AnyAsk /\ SlotOf(a, now) \in Slot
    BY <1>2, AskFacts, SlotOfTyped
  <1>5. /\ r \in Local
        /\ r.pc = "exact" /\ r.ask = a /\ r.wmt = SlotOf(a, now) /\ r.asked = now
    BY <1>2, <1>3, <1>4 DEF Idle, Local, Steps
  <1> HIDE DEF r
  <1>6. StartHour \in Nat
    BY StoresAssumption
  <1>7. Working(c, r)
    BY <1>2, <1>5, <1>6 DEF Working
  <1>8. Looks /\ Go(c, r)
    BY <1>1 DEF Start, Looks, r
  <1> QED BY <1>7, <1>8, LookKeeps

\* What is known of a client in the middle of its call.
LEMMA AtWork ==
  ASSUME IInv, NEW c \in Client, client[c].pc # "idle"
  PROVE  /\ client[c] \in Local /\ Of(c) \in Asks[c] /\ Of(c) = client[c].ask
         /\ client[c].asked \in StartHour .. now /\ client[c].asked \in Nat
         /\ now \in client[c].asked .. now /\ now \in Nat
  <1>1. client[c] \in Local /\ client[c].ask \in Asks[c] /\ client[c].asked \in StartHour .. now
    BY DEF IInv, Clients, Working
  <1>2. client[c].asked \in Nat /\ now \in Nat
    BY <1>1 DEF Local, IInv, Clock
  <1> QED BY <1>1, <1>2 DEF Of

LEMMA AnswerKeeps ==
  ASSUME IInv, NEW c \in Client, client[c].pc # "idle", Looks,
         NEW e \in Edge, e.v = 0 \/ e.v \in DOMAIN bills, Go(c, Answer(c, e)),
         Fits(e, Of(c), client[c].asked .. now)
  PROVE  IInv'
  <1>1. Working(c, Answer(c, e))
    BY AtWork, AnswerWorks DEF IInv
  <1> QED BY <1>1, LookKeeps

\* A client that goes on with another step of its lookup.
LEMMA MoveWorks ==
  ASSUME IInv, NEW c \in Client, client[c].pc \notin {"idle", "done"},
         NEW r \in Local, r.pc \in {"near", "slots", "hour", "buy"},
         r.ask = client[c].ask, r.asked = client[c].asked, r.wmt = client[c].wmt,
         r.pc \in {"near", "hour"} => Current(r),
         r.pc = "hour" => ~r.ask.strict
  PROVE  Working(c, r)
  <1>1. Working(c, client[c])
    BY DEF IInv, Clients
  <1> QED BY <1>1 DEF Working

LEMMA ExactGetInv == ASSUME IInv, NEW c \in Client, ExactGet(c) PROVE IInv'
  <1> DEFINE a == Of(c)
             slot == SlotOf(a, now)
             found == TryHash(a, KeyFor(a.ctx, a.o, a.d), slot)
  <1>0. client[c].pc = "exact" /\ Looks
    BY DEF ExactGet, Looks
  <1>1. a \in Asks[c] /\ client[c].asked \in Nat /\ now \in client[c].asked .. now /\ now \in Nat
    BY <1>0, AtWork
  <1>2. ASSUME NEW e \in found, Go(c, Answer(c, e)) PROVE IInv'
    <2>1. Bought(e) /\ KeyOf(e) = KeyFor(a.ctx, a.o, a.d)
          /\ FitsTime(e, a, client[c].asked .. now)
      BY <1>1, HashFits DEF IInv
    <2>2. e \in Edge /\ e.v \in DOMAIN bills
      BY <2>1 DEF Bought
    <2>3. Fits(e, a, client[c].asked .. now)
      BY <1>1, <2>1, PairFits
    <2> QED BY <1>0, <1>2, <2>2, <2>3, AnswerKeeps
  <1> DEFINE r == [client[c] EXCEPT !.pc = "near", !.slot = slot]
  <1>3. CASE Go(c, r)
    <2>1. slot \in Slot
      BY <1>1, SlotOfTyped
    <2>2. client[c] \in Local
      BY <1>0, AtWork
    <2>3. /\ r \in Local /\ r.pc = "near" /\ r.slot = slot
          /\ r.ask = client[c].ask /\ r.asked = client[c].asked /\ r.wmt = client[c].wmt
      BY <2>1, <2>2 DEF Local, Steps
    <2> HIDE DEF r
    <2>4. Current(r)
      BY <1>1, <2>3 DEF Current, Of
    <2>5. Working(c, r)
      BY <1>0, <2>3, <2>4, MoveWorks
    <2> QED BY <1>0, <1>3, <2>5, LookKeeps
  <1> QED BY <1>2, <1>3 DEF ExactGet

LEMMA NearGetInv == ASSUME IInv, NEW c \in Client, NearGet(c) PROVE IInv'
  <1> DEFINE a == Of(c)
             found == IF a.strict THEN {} ELSE TryFuzzySpatial(a, client[c].slot)
             zero == [ctx |-> a.ctx, o |-> a.o, d |-> a.d, slot |-> client[c].slot, v |-> 0]
             r == [client[c] EXCEPT !.pc = "slots"]
  <1>0. client[c].pc = "near" /\ Looks
    BY DEF NearGet, Looks
  <1>1. a \in Asks[c] /\ client[c] \in Local /\ client[c].asked \in Nat /\ now \in Nat
    BY <1>0, AtWork
  <1>2. PICK t \in client[c].asked .. now : client[c].slot = SlotOf(a, t)
    BY <1>0 DEF IInv, Clients, Working, Current, Of
  <1>3. ASSUME NEW e \in found, Go(c, Answer(c, e)) PROVE IInv'
    <2>1. ~a.strict /\ e \in TryFuzzySpatial(a, SlotOf(a, t))
      BY <1>2, <1>3
    <2>2. Bought(e) /\ Fits(e, a, client[c].asked .. now)
      BY <1>1, <2>1, NearFits DEF IInv
    <2>3. e \in Edge /\ e.v \in DOMAIN bills
      BY <2>2 DEF Bought
    <2> QED BY <1>0, <1>3, <2>2, <2>3, AnswerKeeps
  <1>4. CASE Go(c, Answer(c, zero))
    <2>1. client[c].slot \in Slot
      BY <1>1, <1>2, SlotOfTyped
    <2>2. zero \in Edge /\ zero.v = 0
      BY <1>1, <2>1, AskFacts DEF Edge
    <2>3. Fits(zero, a, client[c].asked .. now)
      BY <1>2 DEF Fits, FitsPlace, FitsSlot
    <2> HIDE DEF zero
    <2> QED BY <1>0, <1>4, <2>2, <2>3, AnswerKeeps
  <1>5. CASE Go(c, r)
    <2>1. /\ r \in Local /\ r.pc = "slots"
          /\ r.ask = client[c].ask /\ r.asked = client[c].asked /\ r.wmt = client[c].wmt
      BY <1>1 DEF Local, Steps
    <2> HIDE DEF r
    <2>2. Working(c, r)
      BY <1>0, <2>1, MoveWorks
    <2> QED BY <1>0, <1>5, <2>2, LookKeeps
  <1> QED BY <1>3, <1>4, <1>5 DEF NearGet

\* An archive edge is about to be promoted.
LEMMA HoldWorks ==
  ASSUME IInv, NEW c \in Client, client[c].pc \in {"slots", "hour"}, Looks,
         NEW e, Bought(e), Fits(e, Of(c), client[c].asked .. now),
         Go(c, [client[c] EXCEPT !.pc = "promote", !.got = e, !.queued = {}])
  PROVE  IInv'
  <1> DEFINE r == [client[c] EXCEPT !.pc = "promote", !.got = e, !.queued = {}]
  <1>1. client[c] \in Local /\ Working(c, client[c])
    BY DEF IInv, Clients, Working
  <1>2. e \in Edge
    BY DEF Bought
  <1>3. /\ r \in Local /\ r.pc = "promote" /\ r.got = e
        /\ r.ask = client[c].ask /\ r.asked = client[c].asked /\ r.wmt = client[c].wmt
    BY <1>1, <1>2 DEF Local, Steps
  <1>4. Go(c, r)
    OBVIOUS
  <1> HIDE DEF r
  <1>5. Working(c, r)
    BY <1>1, <1>3 DEF Working, Of
  <1> QED BY <1>4, <1>5, LookKeeps

LEMMA RowFits ==
  ASSUME Stores, NEW a, NEW e \in RowsOf(a)
  PROVE  Bought(e) /\ KeyOf(e) = KeyFor(a.ctx, a.o, a.d)
  BY RowKeys DEF RowsOf, ToSet, Stores

LEMMA SlotsGetInv == ASSUME IInv, NEW c \in Client, SlotsGet(c) PROVE IInv'
  <1> DEFINE a == Of(c)
             slot == SlotOf(a, now)
             r == [client[c] EXCEPT !.pc = IF a.strict THEN "buy" ELSE "hour", !.slot = slot]
  <1>0. client[c].pc = "slots" /\ Looks
    BY DEF SlotsGet, Looks
  <1>1. /\ a \in Asks[c] /\ client[c] \in Local /\ client[c].asked \in Nat
        /\ now \in client[c].asked .. now /\ now \in Nat
    BY <1>0, AtWork
  <1>2. ASSUME NEW e \in GetBySlots(a, slot),
               Go(c, [client[c] EXCEPT !.pc = "promote", !.got = e, !.queued = {}])
        PROVE  IInv'
    <2>1. e \in RowsOf(a) /\ FitsTime(e, a, client[c].asked .. now)
      BY <1>1, <1>2, BySlotFits DEF GetBySlots, IInv
    <2>2. Bought(e) /\ Fits(e, a, client[c].asked .. now)
      BY <1>1, <2>1, RowFits, PairFits DEF IInv
    <2> QED BY <1>0, <1>2, <2>2, HoldWorks
  <1>3. CASE Go(c, r)
    <2>1. slot \in Slot /\ a.strict \in BOOLEAN
      BY <1>1, SlotOfTyped, AskFacts
    <2>2. /\ r \in Local /\ r.pc = (IF a.strict THEN "buy" ELSE "hour") /\ r.slot = slot
          /\ r.ask = client[c].ask /\ r.asked = client[c].asked /\ r.wmt = client[c].wmt
      BY <1>1, <2>1 DEF Local, Steps
    <2> HIDE DEF r
    <2>3. Current(r) /\ (r.pc = "hour" => ~r.ask.strict)
      BY <1>1, <2>2 DEF Current, Of
    <2>4. Working(c, r)
      BY <1>0, <2>2, <2>3, MoveWorks
    <2> QED BY <1>0, <1>3, <2>4, LookKeeps
  <1> QED BY <1>2, <1>3 DEF SlotsGet

LEMMA HourGetInv == ASSUME IInv, NEW c \in Client, HourGet(c) PROVE IInv'
  <1> DEFINE a == Of(c)
             r == [client[c] EXCEPT !.pc = "buy"]
  <1>0. client[c].pc = "hour" /\ Looks
    BY DEF HourGet, Looks
  <1>1. a \in Asks[c] /\ client[c] \in Local /\ client[c].asked \in Nat
    BY <1>0, AtWork
  <1>2. ~a.strict
    BY <1>0 DEF IInv, Clients, Working, Of
  <1>3. PICK t \in client[c].asked .. now : client[c].slot = SlotOf(a, t)
    BY <1>0 DEF IInv, Clients, Working, Current, Of
  <1>4. ASSUME NEW e \in GetByHour(a, client[c].slot),
               Go(c, [client[c] EXCEPT !.pc = "promote", !.got = e, !.queued = {}])
        PROVE  IInv'
    <2>1. e \in RowsOf(a) /\ e.slot.hour = client[c].slot.hour
      BY <1>4 DEF GetByHour
    <2>2. FitsTime(e, a, client[c].asked .. now)
      BY <1>2, <1>3, <2>1 DEF FitsTime, FitsSlot
    <2>3. Bought(e) /\ Fits(e, a, client[c].asked .. now)
      BY <1>1, <2>1, <2>2, RowFits, PairFits DEF IInv
    <2> QED BY <1>0, <1>4, <2>3, HoldWorks
  <1>5. CASE Go(c, r)
    <2>1. /\ r \in Local /\ r.pc = "buy"
          /\ r.ask = client[c].ask /\ r.asked = client[c].asked /\ r.wmt = client[c].wmt
      BY <1>1 DEF Local, Steps
    <2> HIDE DEF r
    <2>2. Working(c, r)
      BY <1>0, <2>1, MoveWorks
    <2> QED BY <1>0, <1>5, <2>2, LookKeeps
  <1> QED BY <1>4, <1>5 DEF HourGet

LEMMA ReturnInv == ASSUME IInv, NEW c \in Client, Return(c) PROVE IInv'
  <1>1. Looks /\ Go(c, Idle)
    BY DEF Return, Looks
  <1>2. Working(c, Idle)
    BY IdleTyped DEF Working
  <1> QED BY <1>1, <1>2, LookKeeps

-----------------------------------------------------------------------------
(* The clock and Put *)

LEMMA Product ==
  ASSUME NEW x \in Nat, NEW m \in Nat, NEW n \in Nat, m <= n
  PROVE  x * m \in Nat /\ x * n \in Nat /\ x * m <= x * n /\ x * (m + 1) = x * m + x
  <1>1. x * m \in Nat /\ x * n \in Nat /\ x * (n - m) >= 0 /\ n - m \in Nat
    OBVIOUS
  <1>2. x * n = x * m + x * (n - m)
    OBVIOUS
  <1> QED BY <1>1, <1>2

LEMMA LongestTyped ==
  /\ Longest \in Nat /\ \A k \in Jumps : k <= Longest
  /\ Forever = StartHour + Longest * MaxFaults + TTL + 1 /\ Forever \in Nat
  <1>1. Longest \in Jumps /\ \A k \in Jumps : k <= Longest
    BY StoresAssumption DEF Longest
  <1>2. Longest \in Nat /\ StartHour \in Nat /\ MaxFaults \in Nat /\ TTL \in Nat
    BY <1>1, StoresAssumption
  <1>3. Longest * MaxFaults \in Nat
    BY <1>2
  <1> QED BY <1>1, <1>2, <1>3 DEF Forever, Longest

LEMMA ClockBelow ==
  ASSUME Clock
  PROVE  now \in Nat /\ now + TTL \in Nat /\ now + TTL < Forever
  <1>1. faults \in Nat /\ MaxFaults \in Nat /\ faults <= MaxFaults /\ TTL \in Nat
    BY StoresAssumption DEF Clock
  <1>2. Longest * faults <= Longest * MaxFaults
    BY <1>1, LongestTyped, Product
  <1>3. StartHour \in Nat /\ Longest * faults \in Nat /\ Longest * MaxFaults \in Nat
    BY <1>1, LongestTyped, StoresAssumption
  <1>4. now \in Nat /\ now <= StartHour + Longest * faults
    BY DEF Clock
  <1> QED BY <1>1, <1>2, <1>3, <1>4, LongestTyped

\* A fault at hand leaves the clock in its bounds.
LEMMA OneMoreFault ==
  ASSUME Clock, faults < MaxFaults
  PROVE  /\ faults + 1 \in 0 .. MaxFaults
         /\ \A k \in Jumps \cup {0} : k \in Nat /\ now + k <= StartHour + Longest * (faults + 1)
  <1>1. faults \in Nat /\ MaxFaults \in Nat
    BY StoresAssumption DEF Clock
  <1>2. Longest \in Nat /\ Longest * faults \in Nat /\ Longest * (faults + 1) = Longest * faults + Longest
    BY <1>1, LongestTyped, Product
  <1>3. now \in Nat /\ StartHour \in Nat /\ now <= StartHour + Longest * faults
    BY StoresAssumption DEF Clock
  <1>4. \A k \in Jumps \cup {0} : k \in Nat /\ k <= Longest
    BY <1>2, LongestTyped, StoresAssumption
  <1> HIDE DEF Longest
  <1>5. ASSUME NEW k \in Jumps \cup {0} PROVE now + k <= StartHour + Longest * (faults + 1)
    <2>1. k \in Nat /\ k <= Longest
      BY <1>4
    <2> QED BY <1>2, <1>3, <2>1
  <1> QED BY <1>1, <1>4, <1>5

LEMMA PutFacts ==
  ASSUME Clock, Places, NEW e \in Edge, NEW n \in Commands, Put(e, n), UNCHANGED now
  PROVE  Clock' /\ Places' /\ redis' \subseteq redis \cup {e}
  <1>1. faults' \in 0 .. MaxFaults /\ now <= StartHour + Longest * faults'
    <2>1. CASE n = 3
      BY <2>1 DEF Put, Clock
    <2>2. CASE n # 3
      <3>1. faults < MaxFaults /\ faults' = faults + 1
        BY <2>2 DEF Commands, Put
      <3>2. now + 0 <= StartHour + Longest * (faults + 1) /\ faults + 1 \in 0 .. MaxFaults
        BY <3>1, OneMoreFault
      <3>3. now \in Nat
        BY DEF Clock
      <3> QED BY <3>1, <3>2, <3>3
    <2> QED BY <2>1, <2>2
  <1>2. KeyOf(e) \in HashKey
    BY KeyTyped DEF KeyOf, Edge
  <1>3. expires' \in [HashKey -> Nat] /\ \A h \in HashKey : expires'[h] <= Forever
    <2>1. now + TTL \in Nat /\ now + TTL <= Forever
      BY ClockBelow, LongestTyped
    <2> QED BY <1>2, <2>1 DEF Put, Clock
  <1>4. Clock'
    BY <1>1, <1>3 DEF Clock
  <1>5. Places'
    <2>1. e.ctx[1] \in Tenant /\ e.o \in Place /\ e.d \in Place
      BY DEF Edge, Tenant
    <2> QED BY <2>1 DEF Places, Put
  <1>6. redis' \subseteq redis \cup {e}
    BY DEF Put
  <1> QED BY <1>4, <1>5, <1>6

LEMMA EdgesStay ==
  ASSUME Grows, Stores, NEW e, Bought(e), redis' \subseteq redis \cup {e}, UNCHANGED <<rows, queue>>
  PROVE  Stores'
  <1>1. bills' \in Seq(Bill)
    BY DEF Grows
  <1>2. \A x \in redis' : Bought(x)'
    <2>1. \A x \in redis \cup {e} : Bought(x)
      BY DEF Stores
    <2> QED BY <2>1, BoughtStays
  <1>3. \A i \in DOMAIN rows : Bought(rows[i])'
    BY BoughtStays DEF Stores
  <1>4. \A i \in DOMAIN queue : Bought(queue[i])'
    BY BoughtStays DEF Stores
  <1> QED BY <1>1, <1>2, <1>3, <1>4 DEF Stores

LEMMA PromoteInv == ASSUME IInv, NEW c \in Client, Promote(c) PROVE IInv'
  <1> DEFINE e == client[c].got
  <1>0. client[c].pc = "promote"
    BY DEF Promote
  <1>1. Bought(e) /\ Fits(e, Of(c), client[c].asked .. now) /\ e \in Edge /\ e.v \in DOMAIN bills
    BY <1>0 DEF IInv, Clients, Working, Of, Bought
  <1>2. PICK n \in Commands : Put(e, n)
    BY DEF Promote
  <1>3. UNCHANGED <<rows, queue, now, bills>> /\ Go(c, Answer(c, e))
    BY DEF Promote
  <1>4. Grows
    BY <1>3, SameBillsGrow DEF IInv
  <1>5. Clock' /\ Places' /\ redis' \subseteq redis \cup {e}
    BY <1>1, <1>2, <1>3, PutFacts DEF IInv
  <1>6. Stores'
    BY <1>1, <1>3, <1>4, <1>5, EdgesStay DEF IInv
  <1>7. Working(c, Answer(c, e))
    BY <1>0, <1>1, AnswerWorks DEF IInv, Of
  <1>8. Clients'
    BY <1>3, <1>4, <1>7, WorkingStays, OneMoves DEF IInv
  <1> QED BY <1>5, <1>6, <1>8 DEF IInv

-----------------------------------------------------------------------------
(* Purchases *)

LEMMA BuyFacts ==
  ASSUME IInv, NEW c \in Client, client[c].pc = "buy",
         NEW e, e = [ctx |-> Of(c).ctx, o |-> Of(c).o, d |-> Of(c).d,
                     slot |-> FiledUnder(c), v |-> Len(bills) + 1],
         NEW b, b = [by |-> c, ctx |-> e.ctx, key |-> KeyOf(e), row |-> RowOf(e), slot |-> client[c].wmt, until |-> 0],
         bills' = Append(bills, b), UNCHANGED now
  PROVE  Grows /\ e \in Edge /\ Bought(e)' /\ Len(bills) \in Nat
  <1>1. Of(c) \in Asks[c] /\ client[c].asked \in Nat /\ Of(c) = client[c].ask
    BY AtWork
  <1>2. client[c].wmt = SlotOf(Of(c), client[c].asked)
    BY <1>1 DEF IInv, Clients, Working
  <1>3. client[c].wmt \in Slot
    BY <1>1, <1>2, SlotOfTyped
  <1>4. Len(bills) \in Nat /\ bills \in Seq(Bill)
    BY DEF IInv, Stores
  <1>5. e \in Edge
    BY <1>1, <1>3, <1>4, AskFacts DEF Edge, FiledUnder
  <1>6. b \in Bill
    <2>1. KeyOf(e) \in HashKey /\ RowOf(e) \in RowKey
      BY <1>5, KeyTyped DEF KeyOf, RowOf, Edge
    <2> QED BY <1>1, <1>3, <2>1, AskFacts DEF Bill
  <1>7. /\ bills' \in Seq(Bill) /\ Len(bills') = Len(bills) + 1 /\ DOMAIN bills' = 1 .. Len(bills) + 1
        /\ bills'[Len(bills) + 1] = b /\ \A v \in DOMAIN bills : bills'[v] = bills[v]
    BY <1>4, <1>6
  <1>8. Grows
    <2>1. now \in Nat /\ now' \in Nat /\ now <= now'
      BY DEF IInv, Clock
    <2>2. DOMAIN bills \subseteq DOMAIN bills'
      BY <1>4, <1>7
    <2> QED BY <1>7, <2>1, <2>2 DEF Grows
  <1>9. e.v \in DOMAIN bills' /\ bills'[e.v] = b
    BY <1>4, <1>7
  <1>10. b.ctx = e.ctx /\ b.key = KeyOf(e) /\ b.row = RowOf(e) /\ b.slot = e.slot
    BY DEF FiledUnder
  <1> QED BY <1>4, <1>5, <1>8, <1>9, <1>10 DEF Bought

LEMMA BuyInv == ASSUME IInv, NEW c \in Client, Buy(c) PROVE IInv'
  <1>1. PICK e : e = [ctx |-> Of(c).ctx, o |-> Of(c).o, d |-> Of(c).d,
                      slot |-> FiledUnder(c), v |-> Len(bills) + 1]
    OBVIOUS
  <1>2. PICK r : r = [client[c] EXCEPT !.pc = "put", !.got = e, !.queued = {}]
    OBVIOUS
  <1>3. /\ client[c].pc = "buy" /\ Go(c, r)
        /\ UNCHANGED <<redis, expires, geo, rows, queue, now, lost, faults>>
    BY <1>1, <1>2 DEF Buy
  <1>4. Grows /\ e \in Edge /\ Bought(e)'
    BY <1>1, <1>3, BuyFacts DEF Buy
  <1>5. Clock' /\ Places'
    BY <1>3, ClockStays DEF IInv, Places
  <1>6. Stores'
    BY <1>3, <1>4, StoresStay DEF IInv
  <1>7. client[c] \in Local /\ Of(c) = client[c].ask /\ Working(c, client[c])
    BY <1>3, AtWork DEF IInv, Clients
  <1>8. e.ctx = Of(c).ctx /\ e.o = Of(c).o /\ e.d = Of(c).d /\ e.slot = client[c].wmt
    BY <1>1 DEF FiledUnder
  <1>9. /\ r \in Local /\ r.pc = "put" /\ r.got = e
        /\ r.ask = client[c].ask /\ r.asked = client[c].asked /\ r.wmt = client[c].wmt
    BY <1>2, <1>4, <1>7 DEF Local, Steps
  <1>10. r.ask \in Asks[c] /\ r.asked \in StartHour .. now /\ r.wmt = SlotOf(r.ask, r.asked)
    BY <1>3, <1>7, <1>9 DEF Working
  <1>11. Own(r)'
    BY <1>4, <1>7, <1>8, <1>9, <1>10 DEF Own
  <1>12. r.asked \in StartHour .. now'
    BY <1>3, <1>10
  <1>13. Working(c, r)'
    BY <1>9, <1>10, <1>11, <1>12 DEF Working
  <1>14. Clients'
    BY <1>3, <1>4, <1>13, OneMoves DEF IInv
  <1> QED BY <1>5, <1>6, <1>14 DEF IInv

LEMMA PutEdgeInv == ASSUME IInv, NEW c \in Client, PutEdge(c) PROVE IInv'
  <1> DEFINE e == client[c].got
             r == [client[c] EXCEPT !.pc = "enqueue"]
  <1>0. /\ client[c].pc = "put" /\ Go(c, r) /\ UNCHANGED <<rows, queue, now, lost>>
    BY DEF PutEdge
  <1>1. PICK n \in Commands :
          /\ Put(e, n)
          /\ bills' = IF n < 2 THEN bills ELSE [bills EXCEPT ![e.v].until = LifeOf(KeyOf(e), n)]
    BY DEF PutEdge
  <1>2. client[c] \in Local /\ Working(c, client[c]) /\ Own(client[c])
    BY <1>0 DEF IInv, Clients, Working
  <1>3. Bought(e) /\ e \in Edge /\ e.v \in DOMAIN bills /\ KeyOf(e) \in HashKey
    BY <1>2, KeyTyped DEF Own, Bought, KeyOf, Edge
  <1>4. Clock' /\ Places' /\ redis' \subseteq redis \cup {e}
    BY <1>0, <1>1, <1>3, PutFacts DEF IInv
  <1>5. Grows
    <2>1. now + TTL \in Nat /\ expires[KeyOf(e)] \in Nat
      BY <1>3, ClockBelow DEF IInv, Clock
    <2>2. LifeOf(KeyOf(e), n) \in Nat
      BY <2>1 DEF LifeOf
    <2>3. bills \in Seq(Bill) /\ now \in Nat
      BY DEF IInv, Stores, Clock
    <2>4. CASE n < 2
      BY <1>0, <1>1, <2>3, <2>4 DEF Grows
    <2>5. CASE ~(n < 2)
      <3>1. bills' = [bills EXCEPT ![e.v].until = LifeOf(KeyOf(e), n)]
        BY <1>1, <2>5
      <3> HIDE DEF e
      <3>2. bills[e.v] \in Bill
        BY <1>3, <2>3
      <3>3. [bills[e.v] EXCEPT !.until = LifeOf(KeyOf(e), n)] \in Bill
        BY <2>2, <3>2 DEF Bill
      <3>4. bills' \in Seq(Bill)
        BY <1>3, <2>3, <3>1, <3>3
      <3>5. ASSUME NEW v \in DOMAIN bills
            PROVE  /\ v \in DOMAIN bills'
                   /\ bills'[v].by = bills[v].by /\ bills'[v].ctx = bills[v].ctx
                   /\ bills'[v].key = bills[v].key /\ bills'[v].row = bills[v].row
                   /\ bills'[v].slot = bills[v].slot
        <4>1. bills[v] \in Bill
          BY <2>3
        <4> QED BY <3>1, <4>1 DEF Bill
      <3> QED BY <1>0, <2>3, <3>4, <3>5 DEF Grows
    <2> QED BY <2>4, <2>5
  <1>6. Stores'
    BY <1>0, <1>3, <1>4, <1>5, EdgesStay DEF IInv
  <1>7. /\ r \in Local /\ r.pc = "enqueue" /\ r.got = e
        /\ r.ask = client[c].ask /\ r.asked = client[c].asked /\ r.wmt = client[c].wmt
    BY <1>2 DEF Local, Steps
  <1> HIDE DEF r
  <1>8. Own(r)
    BY <1>2, <1>7 DEF Own
  <1>9. Working(c, r)
    BY <1>0, <1>2, <1>7, <1>8 DEF Working
  <1>10. Clients'
    BY <1>0, <1>5, <1>9, WorkingStays, OneMoves DEF IInv
  <1> QED BY <1>4, <1>6, <1>10 DEF IInv

-----------------------------------------------------------------------------
(* The queue and the archive *)

LEMMA EnqueueInv == ASSUME IInv, NEW c \in Client, Enqueue(c) PROVE IInv'
  <1> DEFINE e == client[c].got
  <1>0. /\ client[c].pc = "enqueue" /\ Go(c, Answer(c, e))
        /\ UNCHANGED <<redis, expires, geo, rows, now, bills, faults>>
        /\ queue' \in {queue, Append(queue, e)}
        /\ queue' = Append(queue, e) => Len(queue) < QueueCap
    <2>1. queue' = queue \/ (queue' = Append(queue, e) /\ Len(queue) < QueueCap)
      BY DEF Enqueue
    <2>2. queue # Append(queue, e)
      <3>1. queue \in Seq(Edge)
        BY DEF IInv, Stores
      <3>2. Len(Append(queue, e)) = Len(queue) + 1 /\ Len(queue) \in Nat
        BY <3>1
      <3> QED BY <3>2
    <2> QED BY <2>1, <2>2 DEF Enqueue
  <1>1. Own(client[c]) /\ client[c].ask \in Asks[c]
        /\ client[c].asked \in StartHour .. now /\ client[c] \in Local
    BY <1>0 DEF IInv, Clients, Working
  <1>2. Bought(e) /\ e \in Edge /\ e.v \in DOMAIN bills
    BY <1>1 DEF Own, Bought
  <1>3. Grows
    BY <1>0, SameBillsGrow DEF IInv
  <1>4. Clock' /\ Places'
    BY <1>0, ClockStays DEF IInv, Places
  <1>5. Stores'
    <2>1. queue' \in Seq(Edge) /\ (\A i \in DOMAIN queue' : Bought(queue'[i])) /\ Len(queue') <= QueueCap
      <3>1. CASE queue' = queue
        BY <3>1 DEF IInv, Stores
      <3>2. CASE queue' = Append(queue, e)
        <4>1. queue \in Seq(Edge) /\ Len(queue) \in Nat /\ QueueCap \in Nat /\ Len(queue) < QueueCap
          BY <1>0, <3>2, StoresAssumption DEF IInv, Stores
        <4>2. /\ queue' \in Seq(Edge) /\ Len(queue') = Len(queue) + 1
              /\ DOMAIN queue' = 1 .. Len(queue) + 1
              /\ \A i \in DOMAIN queue' : queue'[i] = e \/ (i \in DOMAIN queue /\ queue'[i] = queue[i])
          BY <1>2, <3>2, <4>1
        <4>3. ASSUME NEW i \in DOMAIN queue' PROVE Bought(queue'[i])
          BY <1>2, <4>2 DEF IInv, Stores
        <4> QED BY <4>1, <4>2, <4>3
      <3> QED BY <1>0, <3>1, <3>2
    <2>2. UNCHANGED <<bills, rows, redis>>
      BY <1>0
    <2>3. \A x : Bought(x) => Bought(x)'
      BY <1>3, BoughtStays
    <2>4. \A i \in DOMAIN queue' : Bought(queue[i])'
      BY <2>1, <2>2 DEF Bought
    <2>5. /\ \A x \in redis : Bought(x)' 
          /\ \A i \in DOMAIN rows : Bought(rows[i])'
      BY <2>2, BoughtStays, <1>3 DEF IInv, Stores
    <2> QED BY <2>1, <2>2, <2>4, <2>5 DEF IInv, Stores
  <1>6. Working(c, Answer(c, e))
    <2>1. GeoHash[e.o] = GeoHash[client[c].ask.o] /\ GeoHash[e.d] = GeoHash[client[c].ask.d]
      BY <1>1 DEF Own
    <2>2. SameContext(bills[e.v].ctx, client[c].ask.ctx)
      BY <1>1, <1>2 DEF Own, Bought, SameContext, Agree
    <2>3. client[c].asked \in client[c].asked .. now
      BY <1>1 DEF Local
    <2>4. Fits(e, client[c].ask, client[c].asked .. now)
      BY <1>1, <2>1, <2>2, <2>3 DEF Fits, FitsPlace, FitsSlot, Own
    <2> QED BY <1>0, <1>2, <2>4, AnswerWorks DEF IInv
  <1>7. Clients'
    BY <1>0, <1>3, <1>6, WorkingStays, OneMoves DEF IInv
  <1> QED BY <1>4, <1>5, <1>7 DEF IInv

LEMMA RemoveAtFacts ==
  ASSUME NEW S, NEW s \in Seq(S), NEW j \in DOMAIN s
  PROVE  /\ RemoveAt(s, j) \in Seq(S) /\ Len(RemoveAt(s, j)) = Len(s) - 1
         /\ \A i \in 1 .. Len(s) - 1 : RemoveAt(s, j)[i] = s[IF i < j THEN i ELSE i + 1]
  <1> DEFINE a == SubSeq(s, 1, j - 1)
             b == SubSeq(s, j + 1, Len(s))
  <1>1. Len(s) \in Nat /\ j \in 1 .. Len(s)
    OBVIOUS
  <1>2. a \in Seq(S) /\ Len(a) = j - 1 /\ \A i \in 1 .. j - 1 : a[i] = s[i]
    BY <1>1
  <1>3. b \in Seq(S) /\ Len(b) = Len(s) - j /\ \A i \in 1 .. Len(s) - j : b[i] = s[j + i]
    BY <1>1
  <1> HIDE DEF a, b
  <1>4. a \o b \in Seq(S) /\ Len(a \o b) = Len(s) - 1
    BY <1>1, <1>2, <1>3
  <1>5. ASSUME NEW i \in 1 .. Len(s) - 1 PROVE (a \o b)[i] = s[IF i < j THEN i ELSE i + 1]
    <2>1. CASE i < j
      BY <1>1, <1>2, <1>3, <2>1
    <2>2. CASE ~(i < j)
      <3>1. i - (j - 1) \in 1 .. Len(s) - j /\ (a \o b)[i] = b[i - (j - 1)]
        BY <1>1, <1>2, <1>3, <2>2
      <3>2. b[i - (j - 1)] = s[j + (i - (j - 1))]
        BY <1>3, <3>1
      <3>3. j + (i - (j - 1)) = i + 1
        BY <1>1
      <3> QED BY <2>2, <3>1, <3>2, <3>3
    <2> QED BY <2>1, <2>2
  <1> QED BY <1>4, <1>5 DEF RemoveAt, a, b

Distinct(rs) == \A i, k \in DOMAIN rs : SameRow(rs[i], rs[k]) => i = k

\* us is rs with e as the row of its row and slot, at the end.
Upserted(rs, e, us) ==
    /\ us \in Seq(Edge) /\ Len(us) \in Nat \ {0} /\ us[Len(us)] = e
    /\ \A i \in 1 .. Len(us) - 1 : \E k \in DOMAIN rs : us[i] = rs[k] /\ ~SameRow(rs[k], e)
    /\ \A k \in DOMAIN rs : SameRow(rs[k], e) \/ \E i \in 1 .. Len(us) - 1 : us[i] = rs[k]
    /\ Distinct(us)

LEMMA UpsertFacts ==
  ASSUME NEW rs \in Seq(Edge), Distinct(rs), NEW e \in Edge, NEW us, us = Upsert(rs, e)
  PROVE  Upserted(rs, e, us)
  <1> DEFINE old == {i \in DOMAIN rs : SameRow(rs[i], e)}
  <1>0. Len(rs) \in Nat /\ DOMAIN rs = 1 .. Len(rs)
    OBVIOUS
  <1>1. CASE old = {}
    <2>1. us = Append(rs, e)
      BY <1>1 DEF Upsert
    <2>2. /\ us \in Seq(Edge) /\ Len(us) = Len(rs) + 1 /\ us[Len(us)] = e
          /\ \A i \in 1 .. Len(rs) : us[i] = rs[i]
      BY <2>1, <1>0
    <2>3. \A k \in DOMAIN rs : ~SameRow(rs[k], e)
      BY <1>1
    <2>4. ASSUME NEW i \in DOMAIN us, NEW k \in DOMAIN us, SameRow(us[i], us[k]) PROVE i = k
      <3>1. i \in 1 .. Len(rs) + 1 /\ k \in 1 .. Len(rs) + 1
        BY <2>2
      <3>2. CASE i \in DOMAIN rs /\ k \in DOMAIN rs
        BY <1>0, <2>2, <2>4, <3>2 DEF Distinct
      <3>3. CASE i = Len(us) /\ k \in DOMAIN rs
        <4>1. SameRow(rs[k], e)
          BY <1>0, <2>2, <2>4, <3>3 DEF SameRow
        <4> QED BY <2>3, <3>3, <4>1
      <3>4. CASE k = Len(us) /\ i \in DOMAIN rs
        BY <1>0, <2>2, <2>3, <2>4, <3>4
      <3>5. CASE i = Len(us) /\ k = Len(us)
        BY <3>5
      <3> QED BY <1>0, <2>2, <3>1, <3>2, <3>3, <3>4, <3>5
    <2> QED BY <1>0, <2>2, <2>3, <2>4 DEF Distinct, Upserted
  <1>2. CASE old # {}
    <2> DEFINE j == CHOOSE i \in old : TRUE
               q == RemoveAt(rs, j)
    <2>1. j \in DOMAIN rs /\ SameRow(rs[j], e) /\ us = Append(q, e)
      BY <1>2 DEF Upsert
    <2> HIDE DEF j
    <2>2. /\ q \in Seq(Edge) /\ Len(q) = Len(rs) - 1
          /\ \A i \in 1 .. Len(rs) - 1 : q[i] = rs[IF i < j THEN i ELSE i + 1]
      BY <2>1, RemoveAtFacts
    <2> HIDE DEF q
    <2>3. Len(rs) >= 1 /\ j \in 1 .. Len(rs)
      BY <1>0, <2>1
    <2>4. /\ us \in Seq(Edge) /\ Len(us) = Len(rs) /\ us[Len(us)] = e
          /\ \A i \in 1 .. Len(rs) - 1 : us[i] = rs[IF i < j THEN i ELSE i + 1]
      <3>0. Len(q) \in Nat /\ Len(q) + 1 = Len(rs)
        BY <1>0, <2>2, <2>3
      <3>1. us \in Seq(Edge) /\ Len(us) = Len(q) + 1 /\ us[Len(q) + 1] = e /\ Len(q) + 1 = Len(rs)
        <4>1. us \in Seq(Edge) /\ Len(us) = Len(q) + 1
          BY <2>1, <2>2, <3>0
        <4>2. us[Len(q) + 1] = e
          BY <2>1, <2>2, <3>0
        <4> QED BY <3>0, <4>1, <4>2
      <3>2. ASSUME NEW i \in 1 .. Len(rs) - 1 PROVE us[i] = q[i]
        BY <1>0, <2>1, <2>2, <2>3
      <3> QED BY <2>2, <3>1, <3>2
    <2> DEFINE At(i) == IF i < j THEN i ELSE i + 1
    <2>5. \A i \in 1 .. Len(rs) - 1 : At(i) \in DOMAIN rs \ {j} /\ us[i] = rs[At(i)]
      <3>1. \A i \in 1 .. Len(rs) - 1 : us[i] = rs[At(i)]
        BY <2>4
      <3>2. \A i \in 1 .. Len(rs) - 1 : At(i) \in DOMAIN rs \ {j}
        BY <1>0, <2>3
      <3> QED BY <3>1, <3>2
    <2>6. \A i, k \in 1 .. Len(rs) - 1 : At(i) = At(k) => i = k
      BY <1>0, <2>3
    <2>7. ASSUME NEW k \in DOMAIN rs, SameRow(rs[k], e) PROVE k = j
      <3>1. SameRow(rs[k], rs[j])
        BY <2>1, <2>7 DEF SameRow
      <3> QED BY <2>1, <3>1 DEF Distinct
    <2>8. \A k \in DOMAIN rs \ {j} : \E i \in 1 .. Len(rs) - 1 : At(i) = k
      <3> SUFFICES ASSUME NEW k \in DOMAIN rs \ {j} PROVE \E i \in 1 .. Len(rs) - 1 : At(i) = k
        OBVIOUS
      <3>1. CASE k < j
        BY <1>0, <2>3, <3>1
      <3>2. CASE k > j
        <4>1. k - 1 \in 1 .. Len(rs) - 1 /\ At(k - 1) = k
          BY <1>0, <2>3, <3>2
        <4> QED BY <4>1
      <3> QED BY <1>0, <2>3, <3>1, <3>2
    <2> HIDE DEF At
    <2>9. ASSUME NEW i \in DOMAIN us, NEW k \in DOMAIN us, SameRow(us[i], us[k]) PROVE i = k
      <3>1. DOMAIN us = 1 .. Len(rs)
        BY <2>4
      <3>2. CASE i \in 1 .. Len(rs) - 1 /\ k \in 1 .. Len(rs) - 1
        <4>1. SameRow(rs[At(i)], rs[At(k)])
          BY <2>5, <2>9, <3>2
        <4> QED BY <2>5, <2>6, <3>2, <4>1 DEF Distinct
      <3>3. CASE i = Len(rs) /\ k \in 1 .. Len(rs) - 1
        <4>1. SameRow(rs[At(k)], e)
          BY <2>4, <2>5, <2>9, <3>3 DEF SameRow
        <4> QED BY <2>5, <2>7, <3>3, <4>1
      <3>4. CASE k = Len(rs) /\ i \in 1 .. Len(rs) - 1
        <4>1. SameRow(rs[At(i)], e)
          BY <2>4, <2>5, <2>9, <3>4
        <4> QED BY <2>5, <2>7, <3>4, <4>1
      <3> QED BY <1>0, <2>3, <3>1, <3>2, <3>3, <3>4
    <2>10. \A i \in 1 .. Len(us) - 1 : \E k \in DOMAIN rs : us[i] = rs[k] /\ ~SameRow(rs[k], e)
      BY <2>4, <2>5, <2>7
    <2>11. \A k \in DOMAIN rs : SameRow(rs[k], e) \/ \E i \in 1 .. Len(us) - 1 : us[i] = rs[k]
      <3> SUFFICES ASSUME NEW k \in DOMAIN rs, ~SameRow(rs[k], e)
                   PROVE  \E i \in 1 .. Len(us) - 1 : us[i] = rs[k]
        OBVIOUS
      <3>1. k \in DOMAIN rs \ {j}
        BY <2>1
      <3>2. PICK i \in 1 .. Len(rs) - 1 : At(i) = k
        BY <2>8, <3>1
      <3> QED BY <2>4, <2>5, <3>2
    <2>12. Len(us) \in Nat \ {0}
      BY <1>0, <2>3, <2>4
    <2> QED BY <2>4, <2>9, <2>10, <2>11, <2>12 DEF Distinct, Upserted
  <1> QED BY <1>1, <1>2

LEMMA HeadFacts ==
  ASSUME Stores, queue # <<>>
  PROVE  /\ Head(queue) = queue[1] /\ Head(queue) \in Edge /\ Bought(Head(queue))
         /\ Tail(queue) \in Seq(Edge) /\ Len(Tail(queue)) = Len(queue) - 1 /\ Len(queue) \in Nat \ {0}
         /\ \A i \in DOMAIN Tail(queue) : i + 1 \in DOMAIN queue /\ Tail(queue)[i] = queue[i + 1]
  <1>1. queue \in Seq(Edge) /\ Len(queue) \in Nat \ {0} /\ 1 \in DOMAIN queue /\ Head(queue) = queue[1]
    BY DEF Stores
  <1>2. Bought(queue[1]) /\ queue[1] \in Edge
    BY <1>1 DEF Stores
  <1>3. /\ Tail(queue) \in Seq(Edge) /\ Len(Tail(queue)) = Len(queue) - 1
        /\ \A i \in DOMAIN Tail(queue) : i + 1 \in DOMAIN queue /\ Tail(queue)[i] = queue[i + 1]
    BY <1>1
  <1> QED BY <1>1, <1>2, <1>3

LEMMA WorkerInv == ASSUME IInv, Worker PROVE IInv'
  <1> DEFINE e == Head(queue)
  <1>0. /\ rows' = Upsert(rows, e) /\ queue' = Tail(queue) /\ queue # <<>>
        /\ UNCHANGED <<redis, expires, geo, client, now, bills, lost, faults>>
    BY DEF Worker
  <1>1. Grows
    BY <1>0, SameBillsGrow DEF IInv
  <1>2. Clock' /\ Places'
    BY <1>0, ClockStays DEF IInv, Places
  <1>3. Clients'
    <2>1. ASSUME NEW c \in Client PROVE Working(c, client[c])'
      <3>1. PICK r : r = client[c]
        OBVIOUS
      <3>2. Working(c, r)'
        BY <1>1, <3>1, WorkingStays DEF IInv, Clients
      <3>3. r = client'[c]
        BY <1>0, <3>1
      <3> QED BY <3>2, <3>3
    <2> QED BY <1>0, <2>1 DEF IInv, Clients
  <1>4. /\ e \in Edge /\ Bought(e) /\ queue' \in Seq(Edge) /\ Len(queue') <= QueueCap
        /\ \A i \in DOMAIN queue' : Bought(queue'[i])
    <2>1. /\ e \in Edge /\ Bought(e)
          /\ queue' \in Seq(Edge) /\ Len(queue') = Len(queue) - 1 /\ Len(queue) \in Nat
          /\ \A i \in DOMAIN queue' : i + 1 \in DOMAIN queue /\ queue'[i] = queue[i + 1]
      BY <1>0, HeadFacts DEF IInv
    <2>2. Len(queue) <= QueueCap /\ QueueCap \in Nat
      BY StoresAssumption DEF IInv, Stores
    <2>3. \A i \in DOMAIN queue : Bought(queue[i])
      BY DEF IInv, Stores
    <2>4. Len(queue') <= QueueCap
      BY <2>1, <2>2
    <2> QED BY <2>1, <2>3, <2>4
  <1>5. rows \in Seq(Edge) /\ Distinct(rows)
    BY DEF IInv, Stores, Distinct
  <1>6. /\ rows' \in Seq(Edge) /\ Len(rows') \in Nat \ {0} /\ rows'[Len(rows')] = e
        /\ \A i \in 1 .. Len(rows') - 1 : \E k \in DOMAIN rows : rows'[i] = rows[k]
        /\ \A i, k \in DOMAIN rows' : SameRow(rows'[i], rows'[k]) => i = k
    <2>1. PICK us : us = Upsert(rows, e)
      OBVIOUS
    <2>2. Upserted(rows, e, us)
      BY <1>4, <1>5, <2>1, UpsertFacts
    <2>3. rows' = us
      BY <1>0, <2>1
    <2> QED BY <2>2, <2>3 DEF Distinct, Upserted
  <1>7. ASSUME NEW i \in DOMAIN rows' PROVE Bought(rows'[i])
    <2>1. i \in 1 .. Len(rows')
      BY <1>6
    <2>2. CASE i = Len(rows')
      BY <1>4, <1>6, <2>2
    <2>3. CASE i # Len(rows')
      BY <1>6, <2>1, <2>3 DEF IInv, Stores
    <2> QED BY <2>2, <2>3
  <1>8. Stores'
    <2>1. \A x \in redis : Bought(x)
      BY DEF IInv, Stores
    <2>2. bills' = bills /\ redis' = redis
      BY <1>0
    <2>3. /\ \A x \in redis' : Bought(x)'
          /\ \A i \in DOMAIN rows' : Bought(rows[i])'
          /\ \A i \in DOMAIN queue' : Bought(queue[i])'
      BY <1>4, <1>7, <2>1, <2>2 DEF Bought
    <2>4. \A i, k \in DOMAIN rows' : SameRow(rows[i], rows[k])' => i = k
      BY <1>6 DEF SameRow, RowOf, RowFor
    <2>5. bills' \in Seq(Bill)
      BY <1>1 DEF Grows
    <2> QED BY <1>4, <1>6, <2>3, <2>4, <2>5 DEF Stores
  <1> QED BY <1>2, <1>3, <1>8 DEF IInv

-----------------------------------------------------------------------------
(* The clock, the end of the process *)

LEMMA TickInv == ASSUME IInv, Tick PROVE IInv'
  <1>0. PICK k \in Jumps :
          /\ now' = now + k
          /\ redis' = {e \in redis : expires[KeyOf(e)] > now + k}
          /\ expires' = [h \in HashKey |-> IF expires[h] > now + k THEN expires[h] ELSE Forever]
    BY DEF Tick
  <1>1. faults < MaxFaults /\ faults' = faults + 1 /\ UNCHANGED <<geo, rows, queue, client, bills, lost>>
    BY DEF Tick
  <1>2. now \in Nat /\ k \in Nat /\ StartHour <= now /\ StartHour \in Nat
    BY StoresAssumption DEF IInv, Clock
  <1>3. now' \in Nat /\ StartHour <= now' /\ now <= now'
    BY <1>0, <1>2
  <1>4. Clock'
    <2>1. faults' \in 0 .. MaxFaults /\ now' <= StartHour + Longest * faults'
      BY <1>0, <1>1, OneMoreFault DEF IInv
    <2>2. Forever \in Nat
      BY LongestTyped
    <2>3. expires' \in [HashKey -> Nat] /\ \A h \in HashKey : expires'[h] <= Forever
      BY <1>0, <2>2 DEF IInv, Clock
    <2> QED BY <1>3, <2>1, <2>3 DEF Clock
  <1>5. Grows
    BY <1>1, <1>2, <1>3 DEF IInv, Stores, Grows
  <1>6. Stores'
    <2>1. \A x \in redis' : x \in redis
      BY <1>0
    <2>2. \A x \in redis' : Bought(x)'
      BY <1>5, <2>1, BoughtStays DEF IInv, Stores
    <2>3. \A i \in DOMAIN rows : Bought(rows[i])'
      BY <1>1, <1>5, BoughtStays DEF IInv, Stores
    <2>4. \A i \in DOMAIN queue : Bought(queue[i])'
      BY <1>1, <1>5, BoughtStays DEF IInv, Stores
    <2> QED BY <1>1, <2>2, <2>3, <2>4 DEF IInv, Stores
  <1>7. Clients'
    <2>1. ASSUME NEW c \in Client PROVE Working(c, client[c])'
      <3>1. PICK r : r = client[c]
        OBVIOUS
      <3>2. Working(c, r)'
        BY <1>5, <3>1, WorkingStays DEF IInv, Clients
      <3>3. r = client'[c]
        BY <1>1, <3>1
      <3> QED BY <3>2, <3>3
    <2> QED BY <1>1, <2>1 DEF IInv, Clients
  <1>8. Places'
    BY <1>1 DEF IInv, Places
  <1> QED BY <1>4, <1>6, <1>7, <1>8 DEF IInv

LEMMA CrashInv == ASSUME IInv, Crash PROVE IInv'
  <1>0. /\ faults < MaxFaults /\ faults' = faults + 1 /\ queue' = <<>>
        /\ client' = [c \in Client |-> Idle]
        /\ UNCHANGED <<redis, expires, geo, rows, now, bills>>
    BY DEF Crash
  <1>1. Clock'
    <2>1. faults' \in 0 .. MaxFaults /\ now + 0 <= StartHour + Longest * faults' /\ now \in Nat
      BY <1>0, OneMoreFault DEF IInv, Clock
    <2> QED BY <1>0, <2>1 DEF IInv, Clock
  <1>2. Stores'
    <2>1. Len(queue') <= QueueCap /\ queue' \in Seq(Edge) /\ DOMAIN queue' = {}
      BY <1>0, StoresAssumption
    <2>2. Grows
      BY <1>0, SameBillsGrow DEF IInv
    <2>3. \A x \in redis : Bought(x)'
      BY <1>0, <2>2, BoughtStays DEF IInv, Stores
    <2>4. \A i \in DOMAIN rows : Bought(rows[i])'
      BY <1>0, <2>2, BoughtStays DEF IInv, Stores
    <2> QED BY <1>0, <2>1, <2>3, <2>4 DEF IInv, Stores
  <1>3. Clients'
    BY <1>0, IdleTyped DEF Clients, Working
  <1>4. Places'
    BY <1>0 DEF IInv, Places
  <1> QED BY <1>1, <1>2, <1>3, <1>4 DEF IInv

LEMMA InitInv == Init => IInv
  <1> SUFFICES ASSUME Init PROVE IInv
    OBVIOUS
  <1>1. Clock
    <2>1. Longest \in Nat /\ Longest * 0 = 0 /\ Forever \in Nat
      BY LongestTyped
    <2>2. StartHour \in Nat /\ MaxFaults \in Nat
      BY StoresAssumption
    <2> QED BY <2>1, <2>2 DEF Init, Clock
  <1>2. Stores
    BY StoresAssumption DEF Init, Stores
  <1>3. Clients
    BY IdleTyped DEF Init, Clients, Working
  <1>4. Places
    BY DEF Init, Places
  <1> QED BY <1>1, <1>2, <1>3, <1>4 DEF IInv

LEMMA NextInv == IInv /\ [Next]_vars => IInv'
  <1> SUFFICES ASSUME IInv, [Next]_vars PROVE IInv'
    OBVIOUS
  <1>1. ASSUME NEW c \in Client, Start(c) \/ Step(c) PROVE IInv'
    BY <1>1, StartInv, ExactGetInv, NearGetInv, SlotsGetInv, HourGetInv, PromoteInv,
       BuyInv, PutEdgeInv, EnqueueInv, ReturnInv DEF Step
  <1>2. CASE UNCHANGED vars
    <2>1. Grows
      BY <1>2, SameBillsGrow DEF IInv, vars
    <2>2. Clock' /\ Places'
      BY <1>2, ClockStays DEF IInv, vars, Places
    <2>3. Stores'
      BY <1>2, <2>1, StoresStay DEF IInv, vars
    <2>4. Clients'
      <3>1. ASSUME NEW c \in Client PROVE Working(c, client[c])'
        <4>1. PICK r : r = client[c]
          OBVIOUS
        <4>2. Working(c, r)'
          BY <2>1, <4>1, WorkingStays DEF IInv, Clients
        <4> QED BY <1>2, <4>1, <4>2 DEF vars
      <3> QED BY <1>2, <3>1 DEF IInv, Clients, vars
    <2> QED BY <2>2, <2>3, <2>4 DEF IInv
  <1> QED BY <1>1, <1>2, WorkerInv, TickInv, CrashInv DEF Next

LEMMA SpecInv == Spec => []IInv
  BY InitInv, NextInv, PTL DEF Spec

\* The stores hold what was bought, under keys and slots that exist, the archive
\* one row per context, cells and slot, and no hash outlives the clock's bound.
THEOREM TypeCorrect == Spec => []TypeOK
  <1>1. IInv => TypeOK
    <2> SUFFICES ASSUME IInv PROVE TypeOK
      OBVIOUS
    <2>1. ASSUME NEW e, Bought(e) PROVE KeyOf(e) \in HashKey /\ e.slot \in Slot /\ e.v \in DOMAIN bills
      BY <2>1, KeyTyped DEF Bought, Edge, KeyOf
    <2> QED BY <2>1 DEF IInv, Clock, Stores, TypeOK
  <1> QED BY <1>1, SpecInv, PTL

\* Whatever way an edge came to a client, it was bought for the client's tenant,
\* method and strategy (negative ones being one), for places within the radius of
\* those asked for and for a time next to the one asked for on the clock's face.
THEOREM FitsServed == Spec => []ServedFits
  <1>1. IInv => ServedFits
    BY DEF IInv, Clients, Working, ServedFits
  <1> QED BY <1>1, SpecInv, PTL

-----------------------------------------------------------------------------
(* What was bought before is found *)

LEMMA Least ==
  ASSUME NEW S \in SUBSET Nat, S # {}
  PROVE  \E n \in S : \A m \in S : n <= m
  <1> DEFINE R == {ss \in Nat \X Nat : ss[1] < ss[2]}
  <1>1. PICK n \in S : \A m \in S : <<m, n>> \notin R
    <2>1. IsWellFoundedOn(R, Nat)
      BY NatLessThanWellFounded DEF OpToRel
    <2> HIDE DEF R
    <2> QED BY <2>1, WFMin
  <1>2. ASSUME NEW m \in S PROVE n <= m
    <2>1. <<m, n>> \notin R /\ m \in Nat /\ n \in Nat
      BY <1>1
    <2>2. m < n => <<m, n>> \in R
      BY <2>1
    <2> HIDE DEF R
    <2> QED BY <2>1, <2>2
  <1> QED BY <1>2

LEMMA Greatest ==
  ASSUME NEW n \in Nat, NEW S \in SUBSET (1 .. n), S # {}
  PROVE  \E j \in S : \A k \in S : k <= j
  <1> DEFINE T == {n - i : i \in S}
  <1>1. T \in SUBSET Nat /\ T # {}
    <2>1. \A i \in S : n - i \in Nat
      OBVIOUS
    <2> QED BY <2>1
  <1>2. PICK t \in T : \A u \in T : t <= u
    BY <1>1, Least
  <1>3. PICK j \in S : t = n - j
    BY <1>2
  <1>4. ASSUME NEW k \in S PROVE k <= j
    <2>1. n - k \in T /\ j \in Nat /\ k \in Nat
      OBVIOUS
    <2>2. n - j <= n - k
      BY <1>2, <1>3, <2>1
    <2> HIDE DEF T
    <2> QED BY <2>1, <2>2
  <1> HIDE DEF T
  <1> QED BY <1>4

\* A lookup that finds nothing in S: none of its slots has an element there.
LEMMA NoneBySlot ==
  ASSUME NEW S, NEW fs, NEW l \in Nat, DOMAIN fs = 1 .. l, FirstBySlot(S, fs) = {},
         NEW e \in S
  PROVE  \A i \in DOMAIN fs : e.slot # fs[i]
  <1> SUFFICES ASSUME NEW i \in DOMAIN fs, e.slot = fs[i] PROVE FALSE
    OBVIOUS
  <1> DEFINE T == {k \in DOMAIN fs : \E x \in S : x.slot = fs[k]}
  <1>1. i \in T /\ T \in SUBSET Nat
    OBVIOUS
  <1>2. PICK n \in T : \A m \in T : n <= m
    BY <1>1, Least
  <1>3. PICK x \in S : x.slot = fs[n]
    OBVIOUS
  <1>4. FALSE
    <2>1. SUFFICES ASSUME NEW k \in 1 .. n - 1, NEW y \in S, y.slot = fs[k] PROVE FALSE
      BY <1>3 DEF FirstBySlot
    <2>2. k \notin T
      BY <1>1, <1>2
    <2>3. k \in DOMAIN fs
      OBVIOUS
    <2> QED BY <2>1, <2>2, <2>3
  <1> QED BY <1>4

LEMMA FieldsTyped ==
  ASSUME NEW a, NEW s, NEW t
  PROVE  \E l \in Nat : DOMAIN Fields(a, s, t) = 1 .. l
  <1>1. a.strict => DOMAIN Fields(a, s, t) = 1 .. 1
    BY DEF Fields
  <1>2. ~a.strict => DOMAIN Fields(a, s, t) = 1 .. 3
    BY DEF Fields, AdjacentSlots
  <1> QED BY <1>1, <1>2

LEMMA NoneByHour ==
  ASSUME Stores, NEW a, NEW slot, GetByHour(a, slot) = {}, NEW e \in RowsOf(a)
  PROVE  e.slot.hour # slot.hour
  <1> SUFFICES ASSUME e.slot.hour = slot.hour PROVE FALSE
    OBVIOUS
  <1> DEFINE T == {i \in DOMAIN rows : rows[i] \in RowsOf(a) /\ rows[i].slot.hour = slot.hour}
  <1>1. rows \in Seq(Edge) /\ Len(rows) \in Nat /\ DOMAIN rows = 1 .. Len(rows)
    BY DEF Stores
  <1>2. T # {} /\ T \in SUBSET (1 .. Len(rows))
    BY <1>1 DEF RowsOf, ToSet
  <1>3. PICK j \in T : \A k \in T : k <= j
    BY <1>1, <1>2, Greatest
  <1>4. ASSUME NEW i \in DOMAIN rows, NEW k \in DOMAIN rows, rows[i] = rows[j], i < k
        PROVE  ~(rows[k] \in RowsOf(a) /\ rows[k].slot.hour = slot.hour)
    <2>1. SameRow(rows[i], rows[j])
      BY <1>4 DEF SameRow
    <2>2. i = j
      BY <2>1 DEF Stores
    <2> QED BY <1>1, <1>3, <1>4, <2>2
  <1>5. rows[j] \in GetByHour(a, slot)
    BY <1>4 DEF GetByHour
  <1> QED BY <1>5

-----------------------------------------------------------------------------
(* What was bought is kept *)

\* An edge of v's key and slot stays in Redis until v's bill says.
RedisHolds ==
    \A v \in DOMAIN bills :
        /\ bills[v].until <= now + TTL
        /\ bills[v].until > now =>
              /\ \E e \in redis : KeyOf(e) = bills[v].key /\ e.slot = bills[v].slot
              /\ expires[bills[v].key] >= bills[v].until

\* The archive has a row for v; if fresh, one no older than v.
Filed(v, fresh) ==
    \E i \in DOMAIN rows : /\ RowOf(rows[i]) = bills[v].row /\ rows[i].slot = bills[v].slot
                           /\ fresh => rows[i].v >= v

Held == {v \in Nat : \E c \in Client : client[c].pc \in {"put", "enqueue"} /\ client[c].got.v = v}

ArchiveHolds(fresh) ==
    \A v \in DOMAIN bills : v \in lost \/ v \in Queued \/ v \in Held \/ Filed(v, fresh)

\* c bought v when it asked for the Redis key, the archive row, it asks for now.
Again(c, a, v) == bills[v].by = c /\ bills[v].key = KeyFor(a.ctx, a.o, a.d)
Anew(c, a, v)  == bills[v].by = c /\ bills[v].row = RowFor(a.ctx, a.o, a.d)

Unfiled(r, v) == v \in lost \/ v \in r.queued

Frugal(c, r) ==
    /\ r.pc \in {"put", "enqueue"} => bills[r.got.v].by = c
    /\ r.pc \in {"exact", "near", "slots", "hour"} =>
          \A v \in DOMAIN bills : Anew(c, r.ask, v) => Unfiled(r, v) \/ Filed(v, FALSE)
    /\ r.pc \in {"near", "slots", "hour", "buy"} /\ r.asked = now =>
          \A v \in DOMAIN bills :
              Again(c, r.ask, v) /\ InRedisFor(r.ask, bills[v].slot) => bills[v].until <= now
    /\ r.pc = "hour" /\ r.asked = now =>
          \A v \in DOMAIN bills :
              Anew(c, r.ask, v) /\ InRedisFor(r.ask, bills[v].slot) => Unfiled(r, v)
    /\ r.pc = "buy" /\ r.asked = now =>
          \A v \in DOMAIN bills :
              Anew(c, r.ask, v) /\ InArchiveFor(r.ask, bills[v].slot) => Unfiled(r, v)

Memory == RedisHolds /\ \A c \in Client : Frugal(c, client[c])

LEMMA BillTyped ==
  ASSUME IInv, NEW v \in DOMAIN bills
  PROVE  /\ v \in Nat \ {0} /\ bills[v].by \in Client /\ bills[v].key \in HashKey
         /\ bills[v].row \in RowKey
         /\ bills[v].slot \in Slot /\ bills[v].until \in Nat
  <1>1. bills \in Seq(Bill)
    BY DEF IInv, Stores
  <1>2. bills[v] \in Bill /\ v \in Nat \ {0}
    BY <1>1
  <1> QED BY <1>2 DEF Bill

LEMMA RowTyped ==
  ASSUME IInv, NEW i \in DOMAIN rows
  PROVE  rows[i] \in Edge /\ rows[i].v \in Nat
  <1>1. rows[i] \in Edge
    BY DEF IInv, Stores
  <1> QED BY <1>1 DEF Edge

-----------------------------------------------------------------------------
(* Redis *)

\* The bills change at most in the version that n commands of a Put keep.
LEMMA RedisPut ==
  ASSUME IInv, RedisHolds, NEW e \in Edge, NEW n \in Commands, Put(e, n), UNCHANGED now,
         \A v \in DOMAIN bills' :
            /\ v \in DOMAIN bills
            /\ bills'[v].key = bills[v].key /\ bills'[v].slot = bills[v].slot
            /\ \/ bills'[v].until = bills[v].until
               \/ /\ n >= 2 /\ bills[v].key = KeyOf(e) /\ bills[v].slot = e.slot
                  /\ bills'[v].until = LifeOf(KeyOf(e), n)
  PROVE  RedisHolds'
  <1> SUFFICES ASSUME NEW v \in DOMAIN bills'
               PROVE  /\ bills'[v].until <= now + TTL
                      /\ bills'[v].until > now =>
                            /\ \E x \in redis' : KeyOf(x) = bills'[v].key /\ x.slot = bills'[v].slot
                            /\ expires'[bills'[v].key] >= bills'[v].until
    BY DEF RedisHolds, KeyOf, KeyFor
  <1> DEFINE k == bills[v].key
  <1>1. n \in 0 .. 3 /\ now + TTL \in Nat /\ now \in Nat /\ expires \in [HashKey -> Nat]
    BY ClockBelow DEF Commands, IInv, Clock
  <1>2. v \in DOMAIN bills /\ k \in HashKey /\ bills[v].until \in Nat
    BY BillTyped
  <1>3. KeyOf(e) \in HashKey
    BY KeyTyped DEF KeyOf, Edge
  <1>4. bills[v].until <= now + TTL
    BY <1>2 DEF RedisHolds
  <1>5. expires[k] \in Nat /\ expires[KeyOf(e)] \in Nat
    BY <1>1, <1>2, <1>3
  <1>6. expires'[k] = IF n = 3 /\ k = KeyOf(e) THEN now + TTL ELSE expires[k]
    BY <1>1, <1>2, <1>3 DEF Put
  <1>7. CASE bills'[v].until = bills[v].until
    <2>1. bills[v].until > now => \E x \in redis' : KeyOf(x) = k /\ x.slot = bills[v].slot
      <3> SUFFICES ASSUME bills[v].until > now PROVE \E x \in redis' : KeyOf(x) = k /\ x.slot = bills[v].slot
        OBVIOUS
      <3>1. PICK x \in redis : KeyOf(x) = k /\ x.slot = bills[v].slot
        BY <1>2 DEF RedisHolds
      <3>2. x \in redis' \/ (e \in redis' /\ KeyOf(e) = KeyOf(x) /\ e.slot = x.slot)
        BY DEF Put
      <3> QED BY <3>1, <3>2
    <2>2. bills[v].until > now => expires'[k] >= bills[v].until
      <3>1. bills[v].until > now => expires[k] >= bills[v].until
        BY <1>2 DEF RedisHolds
      <3> QED BY <1>1, <1>2, <1>4, <1>5, <1>6, <3>1
    <2> QED BY <1>4, <1>7, <2>1, <2>2
  <1>8. CASE /\ n >= 2 /\ k = KeyOf(e) /\ bills[v].slot = e.slot
             /\ bills'[v].until = LifeOf(KeyOf(e), n)
    <2>1. e \in redis'
      BY <1>1, <1>8 DEF Put
    <2>2. bills'[v].until <= now + TTL /\ bills'[v].until <= expires'[k]
      BY <1>1, <1>5, <1>6, <1>8 DEF LifeOf
    <2>3. bills'[v].until \in Nat /\ expires'[k] \in Nat
      BY <1>1, <1>5, <1>6, <1>8 DEF LifeOf
    <2> QED BY <1>8, <2>1, <2>2, <2>3
  <1> QED BY <1>2, <1>7, <1>8

LEMMA RedisTick == ASSUME IInv, RedisHolds, Tick PROVE RedisHolds'
  <1>0. PICK k \in Jumps :
          /\ now' = now + k
          /\ redis' = {e \in redis : expires[KeyOf(e)] > now + k}
          /\ expires' = [h \in HashKey |-> IF expires[h] > now + k THEN expires[h] ELSE Forever]
    BY DEF Tick
  <1>1. UNCHANGED bills
    BY DEF Tick
  <1>2. now \in Nat /\ k \in Nat /\ TTL \in Nat /\ expires \in [HashKey -> Nat]
    BY StoresAssumption DEF IInv, Clock
  <1>3. ASSUME NEW v \in DOMAIN bills
        PROVE  /\ bills[v].until <= now' + TTL
               /\ bills[v].until > now' =>
                     /\ \E x \in redis' : KeyOf(x) = bills[v].key /\ x.slot = bills[v].slot
                     /\ expires'[bills[v].key] >= bills[v].until
    <2>1. bills[v].until \in Nat /\ bills[v].key \in HashKey
      BY BillTyped
    <2>2. bills[v].until <= now' + TTL
      BY <1>0, <1>2, <2>1 DEF RedisHolds
    <2>3. SUFFICES ASSUME bills[v].until > now'
                   PROVE  /\ \E x \in redis' : KeyOf(x) = bills[v].key /\ x.slot = bills[v].slot
                          /\ expires'[bills[v].key] >= bills[v].until
      BY <2>2
    <2>4. bills[v].until > now
      BY <1>0, <1>2, <2>1, <2>3
    <2>5. expires[bills[v].key] >= bills[v].until
      BY <2>4 DEF RedisHolds
    <2>6. PICK x \in redis : KeyOf(x) = bills[v].key /\ x.slot = bills[v].slot
      BY <2>4 DEF RedisHolds
    <2>7. expires[bills[v].key] > now + k /\ expires[bills[v].key] \in Nat
      BY <1>0, <1>2, <2>1, <2>3, <2>5
    <2>8. x \in redis' /\ expires'[bills[v].key] = expires[bills[v].key]
      BY <1>0, <2>1, <2>6, <2>7
    <2> QED BY <2>5, <2>6, <2>8
  <1> QED BY <1>1, <1>3 DEF RedisHolds, KeyOf, KeyFor

LEMMA RedisBuy ==
  ASSUME IInv, RedisHolds, UNCHANGED <<redis, expires, now>>,
         \A v \in DOMAIN bills' : bills'[v].until = 0 \/ (v \in DOMAIN bills /\ bills'[v] = bills[v])
  PROVE  RedisHolds'
  <1>1. now \in Nat /\ TTL \in Nat
    BY StoresAssumption DEF IInv, Clock
  <1> QED BY <1>1 DEF RedisHolds, KeyOf, KeyFor

-----------------------------------------------------------------------------
(* The archive *)

FiledBy(v, fresh, rs) ==
    \E i \in DOMAIN rs : /\ RowOf(rs[i]) = bills[v].row /\ rs[i].slot = bills[v].slot
                         /\ fresh => rs[i].v >= v

\* The worker writes a job of the queue: nothing filed gets lost, and the job is filed.
LEMMA WorkerFiles ==
  ASSUME IInv, Worker, NEW fresh \in BOOLEAN,
         fresh => \A i \in DOMAIN rows : RowOf(rows[i]) = RowOf(Head(queue)) => rows[i].v <= Head(queue).v
  PROVE  /\ \A v \in DOMAIN bills : Filed(v, fresh) => Filed(v, fresh)'
         /\ \A v \in DOMAIN bills : v \in Queued => v \in Queued' \/ Filed(v, fresh)'
  <1>1. PICK e \in Edge : e = Head(queue) /\ Bought(e) /\ e = queue[1]
    BY HeadFacts DEF IInv, Worker
  <1>2. PICK us : us = Upsert(rows, e)
    OBVIOUS
  <1>3. rows \in Seq(Edge) /\ Distinct(rows)
    BY DEF IInv, Stores, Distinct
  <1>4. /\ us \in Seq(Edge) /\ Len(us) \in Nat \ {0} /\ us[Len(us)] = e
        /\ \A k \in DOMAIN rows : SameRow(rows[k], e) \/ \E i \in 1 .. Len(us) - 1 : us[i] = rows[k]
    <2>1. Upserted(rows, e, us)
      BY <1>2, <1>3, UpsertFacts
    <2> QED BY <2>1 DEF Upserted
  <1>5. rows' = us /\ queue' = Tail(queue) /\ bills' = bills
    BY <1>1, <1>2 DEF Worker
  <1>6. ASSUME NEW v \in DOMAIN bills, FiledBy(v, fresh, us) PROVE Filed(v, fresh)'
    BY <1>5, <1>6 DEF FiledBy, Filed, RowOf, RowFor
  <1>7. Len(us) \in DOMAIN us /\ DOMAIN us = 1 .. Len(us)
    BY <1>4
  <1>8. ASSUME NEW v \in DOMAIN bills, Filed(v, fresh) PROVE FiledBy(v, fresh, us)
    <2>1. PICK k \in DOMAIN rows : /\ RowOf(rows[k]) = bills[v].row /\ rows[k].slot = bills[v].slot
                                   /\ fresh => rows[k].v >= v
      BY <1>8 DEF Filed
    <2>2. CASE SameRow(rows[k], e)
      <3>1. RowOf(us[Len(us)]) = bills[v].row /\ us[Len(us)].slot = bills[v].slot
        BY <1>4, <2>1, <2>2 DEF SameRow
      <3>2. fresh => us[Len(us)].v >= v
        <4>1. rows[k].v \in Nat /\ e.v \in Nat /\ v \in Nat
          BY RowTyped, BillTyped DEF Edge
        <4>2. fresh => rows[k].v <= e.v
          BY <1>1, <2>2 DEF SameRow
        <4> QED BY <1>4, <2>1, <4>1, <4>2
      <3> QED BY <1>7, <3>1, <3>2 DEF FiledBy
    <2>3. CASE ~SameRow(rows[k], e)
      <3>1. PICK i \in 1 .. Len(us) - 1 : us[i] = rows[k]
        BY <1>4, <2>3
      <3>2. i \in DOMAIN us
        BY <1>4, <1>7
      <3> QED BY <2>1, <3>1, <3>2 DEF FiledBy
    <2> QED BY <2>2, <2>3
  <1>9. ASSUME NEW v \in DOMAIN bills, v \in Queued PROVE v \in Queued' \/ FiledBy(v, fresh, us)
    <2>1. PICK i \in DOMAIN queue : queue[i].v = v
      BY <1>9 DEF Queued
    <2>2. queue \in Seq(Edge) /\ Len(queue) \in Nat /\ i \in 1 .. Len(queue)
      BY DEF IInv, Stores
    <2>3. CASE i = 1
      <3>1. e.v = v /\ bills[v].row = RowOf(e) /\ bills[v].slot = e.slot /\ v \in Nat
        BY <1>1, <2>1, <2>3 DEF Bought, Edge
      <3> QED BY <1>4, <1>7, <3>1 DEF FiledBy
    <2>4. CASE i # 1
      <3>1. i - 1 \in DOMAIN Tail(queue) /\ Tail(queue)[i - 1] = queue[i]
        BY <2>2, <2>4
      <3> QED BY <1>5, <2>1, <3>1 DEF Queued
    <2> QED BY <2>3, <2>4
  <1> QED BY <1>6, <1>8, <1>9

-----------------------------------------------------------------------------
(* What clients remember *)

\* A step that neither loses anything filed nor touches the bills of c.
Leaves(c) ==
    /\ now' \in Nat /\ now <= now'
    /\ lost \subseteq lost'
    /\ \A v \in DOMAIN bills : Filed(v, FALSE) => Filed(v, FALSE)'
    /\ \A v \in DOMAIN bills : v \in DOMAIN bills' /\ bills'[v].by = bills[v].by
    /\ \A v \in DOMAIN bills' : bills'[v].by = c => v \in DOMAIN bills /\ bills'[v] = bills[v]

LEMMA FrugalStays ==
  ASSUME IInv, NEW c \in Client, Frugal(c, client[c]), Leaves(c),
         NEW r, r = client[c]
  PROVE  Frugal(c, r)'
  <1>1. r \in Local /\ (r.pc # "idle" => r.asked \in StartHour .. now) /\ now \in Nat /\ r.asked \in Nat
    BY DEF IInv, Clock, Clients, Working, Local
  <1>2. r.pc \in {"put", "enqueue"} => r.got.v \in DOMAIN bills
    BY DEF IInv, Clients, Working, Own, Bought
  <1>3. r.pc # "idle" /\ r.asked = now' => now' = now
    BY <1>1 DEF Leaves
  <1>4. \A v : v \in lost => v \in lost'
    BY DEF Leaves
  <1>5. \A v \in DOMAIN bills' : bills'[v].by = c => v \in DOMAIN bills /\ bills'[v] = bills[v]
    BY DEF Leaves
  <1>6. r.pc \in {"put", "enqueue"} => bills'[r.got.v].by = c
    BY <1>2 DEF Frugal, Leaves
  <1>7. r.pc \in {"exact", "near", "slots", "hour"} =>
          \A v \in DOMAIN bills' : Anew(c, r.ask, v)' => Unfiled(r, v)' \/ Filed(v, FALSE)'
    <2> SUFFICES ASSUME r.pc \in {"exact", "near", "slots", "hour"}, NEW v \in DOMAIN bills', Anew(c, r.ask, v)'
                 PROVE  Unfiled(r, v)' \/ Filed(v, FALSE)'
      OBVIOUS
    <2>1. v \in DOMAIN bills /\ bills'[v] = bills[v]
      BY <1>5 DEF Anew
    <2>2. Anew(c, r.ask, v)
      BY <2>1 DEF Anew
    <2>3. Unfiled(r, v) \/ Filed(v, FALSE)
      BY <2>1, <2>2 DEF Frugal
    <2>4. Unfiled(r, v) => Unfiled(r, v)'
      BY <1>4 DEF Unfiled
    <2> QED BY <2>1, <2>3, <2>4 DEF Leaves
  <1>8. ASSUME r.pc # "idle", r.asked = now', NEW v \in DOMAIN bills', bills'[v].by = c
        PROVE  /\ r.asked = now /\ v \in DOMAIN bills /\ bills'[v] = bills[v]
               /\ now' = now
               /\ Again(c, r.ask, v)' => Again(c, r.ask, v)
               /\ Anew(c, r.ask, v)' => Anew(c, r.ask, v)
               /\ InRedisFor(r.ask, bills[v].slot)' => InRedisFor(r.ask, bills[v].slot)
               /\ InArchiveFor(r.ask, bills[v].slot)' => InArchiveFor(r.ask, bills[v].slot)
               /\ Unfiled(r, v) => Unfiled(r, v)'
    <2>1. v \in DOMAIN bills /\ bills'[v] = bills[v] /\ now' = now /\ r.asked = now
      BY <1>3, <1>5, <1>8
    <2>2. (Again(c, r.ask, v)' => Again(c, r.ask, v)) /\ (Anew(c, r.ask, v)' => Anew(c, r.ask, v))
      BY <2>1 DEF Again, Anew
    <2>3. bills'[v].slot = bills[v].slot
      BY <2>1
    <2>4. InRedisFor(r.ask, bills[v].slot)' => InRedisFor(r.ask, bills[v].slot)
      BY <2>1, <2>3 DEF InRedisFor
    <2>5. InArchiveFor(r.ask, bills[v].slot)' => InArchiveFor(r.ask, bills[v].slot)
      BY <2>1, <2>3, <2>4 DEF InArchiveFor
    <2> QED BY <1>4, <2>1, <2>2, <2>4, <2>5 DEF Unfiled
  <1>9. r.pc \in {"near", "slots", "hour", "buy"} /\ r.asked = now' =>
          \A v \in DOMAIN bills' :
              Again(c, r.ask, v)' /\ InRedisFor(r.ask, bills[v].slot)' => bills'[v].until <= now'
    BY <1>8 DEF Frugal, Again, Anew
  <1>10. r.pc = "hour" /\ r.asked = now' =>
          \A v \in DOMAIN bills' :
              Anew(c, r.ask, v)' /\ InRedisFor(r.ask, bills[v].slot)' => Unfiled(r, v)'
    BY <1>8 DEF Frugal, Again, Anew
  <1>11. r.pc = "buy" /\ r.asked = now' =>
          \A v \in DOMAIN bills' :
              Anew(c, r.ask, v)' /\ InArchiveFor(r.ask, bills[v].slot)' => Unfiled(r, v)'
    BY <1>8 DEF Frugal, Again, Anew
  <1> QED BY <1>6, <1>7, <1>9, <1>10, <1>11 DEF Frugal

\* The clients other than c stay as they are.
LEMMA OthersFrugal ==
  ASSUME IInv, Clients, \A d \in Client : Frugal(d, client[d]), NEW c \in Client, NEW r, Go(c, r),
         \A d \in Client \ {c} : Leaves(d), Frugal(c, r)'
  PROVE  \A d \in Client : Frugal(d, client[d])'
  <1>1. client'[c] = r /\ \A d \in Client \ {c} : client'[d] = client[d]
    BY DEF Clients, Go
  <1>2. ASSUME NEW d \in Client, d # c PROVE Frugal(d, client[d])'
    <2>1. PICK q : q = client[d]
      OBVIOUS
    <2>2. Frugal(d, q)'
      BY <1>2, <2>1, FrugalStays
    <2> QED BY <1>1, <1>2, <2>1, <2>2
  <1> QED BY <1>1, <1>2

\* Steps that leave clock, bills and rows alone.
LEMMA QuietLeaves ==
  ASSUME IInv, UNCHANGED <<now, bills, rows>>, lost \subseteq lost'
  PROVE  \A c : Leaves(c)
  <1>1. now \in Nat
    BY DEF IInv, Clock
  <1>2. \A v \in DOMAIN bills : Filed(v, FALSE) => Filed(v, FALSE)'
    BY DEF Filed, RowOf, RowFor
  <1>3. now' \in Nat /\ now <= now'
    BY <1>1
  <1>4. \A v \in DOMAIN bills : v \in DOMAIN bills' /\ bills'[v].by = bills[v].by
    OBVIOUS
  <1>5. ASSUME NEW c PROVE \A v \in DOMAIN bills' : bills'[v].by = c => v \in DOMAIN bills /\ bills'[v] = bills[v]
    OBVIOUS
  <1> QED BY <1>2, <1>3, <1>4, <1>5 DEF Leaves

\* A lookup step: what it has learned is all there is to show.
LEMMA LookRemembers ==
  ASSUME IInv, Memory, Looks, NEW c \in Client, NEW r, Go(c, r), Frugal(c, r)
  PROVE  Memory'
  <1>1. \A d : Leaves(d)
    <2>1. lost \subseteq lost' /\ UNCHANGED <<now, bills, rows>>
      BY DEF Looks
    <2> QED BY <2>1, QuietLeaves
  <1>2. Frugal(c, r)'
    BY DEF Looks, Frugal, Again, Anew, Unfiled, Filed, RowOf, RowFor, KeyOf, KeyFor, InRedisFor, InArchiveFor
  <1>3. \A d \in Client : Frugal(d, client[d])'
    BY <1>1, <1>2, OthersFrugal DEF IInv, Memory
  <1>4. RedisHolds'
    BY DEF Looks, Memory, RedisHolds, KeyOf, KeyFor
  <1> QED BY <1>3, <1>4 DEF Memory

-----------------------------------------------------------------------------
(* Every step keeps Memory *)

\* At these points nothing has been learned.
LEMMA NothingLearned ==
  ASSUME NEW c, NEW r, r.pc \in {"idle", "promote", "done"}
  PROVE  Frugal(c, r)
  BY DEF Frugal

LEMMA StartRemembers == ASSUME IInv, Memory, ArchiveHolds(FALSE), NEW c \in Client, Start(c) PROVE Memory'
  <1>0. PICK a \in Asks[c] :
            Go(c, [Idle EXCEPT !.pc = "exact", !.ask = a, !.wmt = SlotOf(a, now),
                               !.asked = now, !.queued = Queued])
    BY DEF Start
  <1>1. PICK r :
            /\ r = [Idle EXCEPT !.pc = "exact", !.ask = a, !.wmt = SlotOf(a, now),
                                !.asked = now, !.queued = Queued]
            /\ Go(c, r)
    BY <1>0
  <1>2. r.pc = "exact" /\ r.ask = a /\ r.queued = Queued
    BY <1>1 DEF Idle
  <1>3. client[c].pc = "idle" /\ Looks
    BY DEF Start, Looks
  <1>4. ASSUME NEW v \in DOMAIN bills, Anew(c, a, v) PROVE Unfiled(r, v) \/ Filed(v, FALSE)
    <2>1. CASE v \in Held
      <3>1. PICK d \in Client : client[d].pc \in {"put", "enqueue"} /\ client[d].got.v = v
        BY <2>1 DEF Held
      <3>2. bills[v].by = d
        BY <3>1 DEF Memory, Frugal
      <3> QED BY <1>3, <1>4, <3>1, <3>2 DEF Anew
    <2>2. CASE v \notin Held
      BY <1>2, <2>2 DEF ArchiveHolds, Unfiled
    <2> QED BY <2>1, <2>2
  <1>5. Frugal(c, r)
    BY <1>2, <1>4 DEF Frugal
  <1> QED BY <1>1, <1>2, <1>3, <1>5, LookRemembers

LEMMA NoneInRedis ==
  ASSUME IInv, RedisHolds, NEW a, NEW v \in DOMAIN bills,
         TryHash(a, KeyFor(a.ctx, a.o, a.d), SlotOf(a, now)) = {},
         bills[v].key = KeyFor(a.ctx, a.o, a.d), InRedisFor(a, bills[v].slot)
  PROVE  bills[v].until <= now
  <1> SUFFICES ASSUME ~(bills[v].until <= now) PROVE FALSE
    OBVIOUS
  <1> DEFINE fs == Fields(a, SlotOf(a, now), now)
             k == KeyFor(a.ctx, a.o, a.d)
  <1>1. bills[v].until > now
    BY BillTyped DEF IInv, Clock
  <1>2. PICK e \in redis : KeyOf(e) = k /\ e.slot = bills[v].slot
    BY <1>1 DEF RedisHolds
  <1>3. e \in InHash(k)
    BY <1>2 DEF InHash
  <1>4. PICK i \in DOMAIN fs : bills[v].slot = fs[i]
    BY DEF InRedisFor, ToSet
  <1>5. PICK l \in Nat : DOMAIN fs = 1 .. l
    BY FieldsTyped
  <1>6. FirstBySlot(InHash(k), fs) = {}
    BY DEF TryHash
  <1> HIDE DEF fs, k
  <1> QED BY <1>2, <1>3, <1>4, <1>5, <1>6, NoneBySlot

LEMMA ExactGetRemembers == ASSUME IInv, Memory, NEW c \in Client, ExactGet(c) PROVE Memory'
  <1>1. client[c].pc = "exact" /\ Looks
    BY DEF ExactGet, Looks
  <1>2. ASSUME NEW e, Go(c, Answer(c, e)) PROVE Memory'
    <2>1. Answer(c, e).pc = "done"
      BY DEF Answer, Idle
    <2> QED BY <1>1, <1>2, <2>1, NothingLearned, LookRemembers
  <1>3. ASSUME TryHash(Of(c), KeyFor(Of(c).ctx, Of(c).o, Of(c).d), SlotOf(Of(c), now)) = {},
               NEW r, r = [client[c] EXCEPT !.pc = "near", !.slot = SlotOf(Of(c), now)], Go(c, r)
        PROVE  Memory'
    <2>1. client[c] \in Local
      BY DEF IInv, Clients
    <2>2. r.pc = "near" /\ r.ask = Of(c) /\ r.queued = client[c].queued /\ Of(c) = client[c].ask
      BY <1>3, <2>1 DEF Local, Of
    <2>3. Frugal(c, client[c])
      BY DEF Memory
    <2>4. \A v \in DOMAIN bills : Anew(c, r.ask, v) => Unfiled(r, v) \/ Filed(v, FALSE)
      BY <1>1, <2>2, <2>3 DEF Frugal, Unfiled
    <2>5. \A v \in DOMAIN bills :
              Again(c, r.ask, v) /\ InRedisFor(r.ask, bills[v].slot) => bills[v].until <= now
      BY <1>3, <2>2, NoneInRedis DEF Memory, Again
    <2>6. Frugal(c, r)
      BY <2>2, <2>4, <2>5 DEF Frugal
    <2> QED BY <1>1, <1>3, <2>2, <2>6, LookRemembers
  <1> QED BY <1>2, <1>3 DEF ExactGet

LEMMA NearGetRemembers == ASSUME IInv, Memory, NEW c \in Client, NearGet(c) PROVE Memory'
  <1>1. client[c].pc = "near" /\ Looks
    BY DEF NearGet, Looks
  <1>2. ASSUME NEW e, Go(c, Answer(c, e)) PROVE Memory'
    <2>1. Answer(c, e).pc = "done"
      BY DEF Answer, Idle
    <2> QED BY <1>1, <1>2, <2>1, NothingLearned, LookRemembers
  <1>3. ASSUME NEW r, r = [client[c] EXCEPT !.pc = "slots"], Go(c, r) PROVE Memory'
    <2>1. client[c] \in Local
      BY DEF IInv, Clients
    <2>2. r.pc = "slots" /\ r.ask = client[c].ask /\ r.queued = client[c].queued /\ r.asked = client[c].asked
      BY <1>3, <2>1 DEF Local
    <2>3. Frugal(c, client[c])
      BY DEF Memory
    <2>4. Frugal(c, r)
      BY <1>1, <2>2, <2>3 DEF Frugal, Unfiled
    <2> QED BY <1>1, <1>3, <2>2, <2>4, LookRemembers
  <1> QED BY <1>2, <1>3 DEF NearGet

\* No row in the slots asked for: whatever was bought for them is not filed.
LEMMA NoneFiled ==
  ASSUME IInv, NEW a, NEW v \in DOMAIN bills,
         GetBySlots(a, SlotOf(a, now)) = {},
         bills[v].row = RowFor(a.ctx, a.o, a.d), InRedisFor(a, bills[v].slot)
  PROVE  ~Filed(v, FALSE)
  <1> SUFFICES ASSUME NEW j \in DOMAIN rows, RowOf(rows[j]) = bills[v].row, rows[j].slot = bills[v].slot
               PROVE  FALSE
    BY DEF Filed
  <1> DEFINE fs == Fields(a, SlotOf(a, now), now)
  <1>1. rows[j] \in RowsOf(a)
    BY DEF RowsOf, ToSet
  <1>2. PICK i \in DOMAIN fs : bills[v].slot = fs[i]
    BY DEF InRedisFor, ToSet
  <1>3. PICK l \in Nat : DOMAIN fs = 1 .. l
    BY FieldsTyped
  <1>4. FirstBySlot(RowsOf(a), fs) = {}
    BY DEF GetBySlots
  <1> HIDE DEF fs
  <1> QED BY <1>1, <1>2, <1>3, <1>4, NoneBySlot

LEMMA SlotsGetRemembers == ASSUME IInv, Memory, NEW c \in Client, SlotsGet(c) PROVE Memory'
  <1>1. client[c].pc = "slots" /\ Looks
    BY DEF SlotsGet, Looks
  <1>2. client[c] \in Local /\ Of(c) = client[c].ask /\ Of(c) \in Asks[c]
    BY <1>1, AtWork
  <1>3. ASSUME NEW e, NEW r, r = [client[c] EXCEPT !.pc = "promote", !.got = e, !.queued = {}], Go(c, r)
        PROVE  Memory'
    <2>1. r.pc = "promote"
      BY <1>2, <1>3 DEF Local
    <2>2. Frugal(c, r)
      BY <2>1, NothingLearned
    <2> QED BY <1>1, <1>3, <2>2, LookRemembers
  <1>4. ASSUME GetBySlots(Of(c), SlotOf(Of(c), now)) = {}, NEW r, Go(c, r),
               r = [client[c] EXCEPT !.pc = IF Of(c).strict THEN "buy" ELSE "hour", !.slot = SlotOf(Of(c), now)]
        PROVE  Memory'
    <2>1. /\ r.pc = (IF Of(c).strict THEN "buy" ELSE "hour") /\ r.ask = Of(c)
          /\ r.queued = client[c].queued /\ r.asked = client[c].asked /\ Of(c).strict \in BOOLEAN
      BY <1>2, <1>4, AskFacts DEF Local
    <2>2. Frugal(c, client[c])
      BY DEF Memory
    <2>3. \A v \in DOMAIN bills : Anew(c, r.ask, v) => Unfiled(r, v) \/ Filed(v, FALSE)
      BY <1>1, <1>2, <2>1, <2>2 DEF Frugal, Unfiled
    <2>4. \A v \in DOMAIN bills :
              Anew(c, r.ask, v) /\ InRedisFor(r.ask, bills[v].slot) => Unfiled(r, v)
      BY <1>4, <2>1, <2>3, NoneFiled DEF Anew
    <2>5. r.asked = now => \A v \in DOMAIN bills :
              Again(c, r.ask, v) /\ InRedisFor(r.ask, bills[v].slot) => bills[v].until <= now
      BY <1>1, <1>2, <2>1, <2>2 DEF Frugal
    <2>6. r.pc = "buy" => \A v \in DOMAIN bills :
              Anew(c, r.ask, v) /\ InArchiveFor(r.ask, bills[v].slot) => Unfiled(r, v)
      BY <2>1, <2>4 DEF InArchiveFor
    <2>7. r.pc \in {"buy", "hour"}
      BY <2>1
    <2>8. Frugal(c, r)
      BY <2>3, <2>4, <2>5, <2>6, <2>7 DEF Frugal
    <2> QED BY <1>1, <1>4, <2>7, <2>8, LookRemembers
  <1> QED BY <1>3, <1>4 DEF SlotsGet

LEMMA HourGetRemembers == ASSUME IInv, Memory, NEW c \in Client, HourGet(c) PROVE Memory'
  <1>1. client[c].pc = "hour" /\ Looks
    BY DEF HourGet, Looks
  <1>2. /\ client[c] \in Local /\ Of(c) = client[c].ask /\ Of(c) \in Asks[c]
        /\ client[c].asked \in Nat /\ now \in Nat
    BY <1>1, AtWork
  <1>3. ASSUME NEW e, NEW r, r = [client[c] EXCEPT !.pc = "promote", !.got = e, !.queued = {}], Go(c, r)
        PROVE  Memory'
    <2>1. r.pc = "promote"
      BY <1>2, <1>3 DEF Local
    <2>2. Frugal(c, r)
      BY <2>1, NothingLearned
    <2> QED BY <1>1, <1>3, <2>2, LookRemembers
  <1>4. ASSUME GetByHour(Of(c), client[c].slot) = {}, NEW r, r = [client[c] EXCEPT !.pc = "buy"], Go(c, r)
        PROVE  Memory'
    <2>1. /\ r.pc = "buy" /\ r.ask = Of(c) /\ r.queued = client[c].queued /\ r.asked = client[c].asked
      BY <1>2, <1>4 DEF Local
    <2>2. Frugal(c, client[c])
      BY DEF Memory
    <2>3. r.asked = now => client[c].slot = SlotOf(Of(c), now)
      <3>1. PICK t \in client[c].asked .. now : client[c].slot = SlotOf(client[c].ask, t)
        BY <1>1 DEF IInv, Clients, Working, Current
      <3>2. r.asked = now => t = now
        BY <1>2, <2>1
      <3> QED BY <1>2, <3>1, <3>2
    <2>4. \A v \in DOMAIN bills :
              Anew(c, r.ask, v) /\ bills[v].slot.hour = client[c].slot.hour => Unfiled(r, v)
      <3> SUFFICES ASSUME NEW v \in DOMAIN bills, Anew(c, r.ask, v),
                          bills[v].slot.hour = client[c].slot.hour, Filed(v, FALSE)
                   PROVE  FALSE
        BY <1>1, <1>2, <2>1, <2>2 DEF Frugal, Unfiled
      <3>1. PICK j \in DOMAIN rows : RowOf(rows[j]) = bills[v].row /\ rows[j].slot = bills[v].slot
        BY DEF Filed
      <3>2. rows[j] \in RowsOf(Of(c))
        BY <2>1, <3>1 DEF RowsOf, ToSet, Anew
      <3> QED BY <1>4, <3>1, <3>2, NoneByHour DEF IInv
    <2>5. r.asked = now => \A v \in DOMAIN bills : InRedisFor(r.ask, bills[v].slot) =>
              /\ Again(c, r.ask, v) => bills[v].until <= now
              /\ Anew(c, r.ask, v) => Unfiled(r, v)
      BY <1>1, <1>2, <2>1, <2>2 DEF Frugal, Unfiled
    <2>6. r.asked = now => \A v \in DOMAIN bills :
              Anew(c, r.ask, v) /\ InArchiveFor(r.ask, bills[v].slot) => Unfiled(r, v)
      BY <2>1, <2>3, <2>4, <2>5 DEF InArchiveFor
    <2>7. Frugal(c, r)
      BY <2>1, <2>5, <2>6 DEF Frugal
    <2> QED BY <1>1, <1>4, <2>1, <2>7, LookRemembers
  <1> QED BY <1>3, <1>4 DEF HourGet

LEMMA ReturnRemembers == ASSUME IInv, Memory, NEW c \in Client, Return(c) PROVE Memory'
  <1>1. Looks /\ Go(c, Idle) /\ client[c].pc = "done"
    BY DEF Return, Looks
  <1> QED BY <1>1, IdleTyped, NothingLearned, LookRemembers

LEMMA PromoteRemembers == ASSUME IInv, Memory, NEW c \in Client, Promote(c) PROVE Memory'
  <1> DEFINE e == client[c].got
  <1>1. client[c].pc = "promote" /\ UNCHANGED <<rows, queue, now, bills, lost>>
    BY DEF Promote
  <1>2. PICK r : r = Answer(c, e) /\ Go(c, r)
    BY DEF Promote
  <1>3. r.pc = "done"
    BY <1>2 DEF Answer, Idle
  <1>4. PICK n \in Commands : Put(e, n)
    BY DEF Promote
  <1>5. e \in Edge
    BY <1>1 DEF IInv, Clients, Working, Bought
  <1>6. RedisHolds'
    <2>1. \A v \in DOMAIN bills' : v \in DOMAIN bills /\ bills'[v] = bills[v]
      BY <1>1
    <2> HIDE DEF e
    <2> QED BY <1>1, <1>4, <1>5, <2>1, RedisPut DEF Memory
  <1>7. \A d : Leaves(d)
    <2>1. lost \subseteq lost' /\ UNCHANGED <<now, bills, rows>>
      BY <1>1
    <2> QED BY <2>1, QuietLeaves
  <1>8. \A d \in Client : Frugal(d, client[d])'
    <2>1. Frugal(c, r)'
      BY <1>3 DEF Frugal
    <2> QED BY <1>2, <1>7, <2>1, OthersFrugal DEF IInv, Memory
  <1> QED BY <1>6, <1>8 DEF Memory

LEMMA BuyRemembers == ASSUME IInv, Memory, NEW c \in Client, Buy(c) PROVE Memory'
  <1>1. PICK e : e = [ctx |-> Of(c).ctx, o |-> Of(c).o, d |-> Of(c).d,
                      slot |-> FiledUnder(c), v |-> Len(bills) + 1]
    OBVIOUS
  <1>2. PICK r, b :
          /\ r = [client[c] EXCEPT !.pc = "put", !.got = e, !.queued = {}]
          /\ b = [by |-> c, ctx |-> e.ctx, key |-> KeyOf(e), row |-> RowOf(e), slot |-> client[c].wmt, until |-> 0]
    OBVIOUS
  <1>3. /\ client[c].pc = "buy" /\ Go(c, r) /\ bills' = Append(bills, b)
        /\ UNCHANGED <<redis, expires, geo, rows, queue, now, lost, faults>>
    BY <1>1, <1>2 DEF Buy
  <1>4. bills \in Seq(Bill) /\ Len(bills) \in Nat /\ now \in Nat
    BY DEF IInv, Stores, Clock
  <1>5. /\ DOMAIN bills' = 1 .. Len(bills) + 1 /\ DOMAIN bills = 1 .. Len(bills)
        /\ bills'[Len(bills) + 1] = b /\ \A v \in DOMAIN bills : bills'[v] = bills[v]
    BY <1>3, <1>4
  <1>6. client[c] \in Local
    BY DEF IInv, Clients
  <1>7. r.pc = "put" /\ r.got = e /\ e.v = Len(bills) + 1 /\ b.by = c /\ b.until = 0
    BY <1>1, <1>2, <1>6 DEF Local
  <1>8. \A v \in DOMAIN bills' : v \in DOMAIN bills \/ (v = Len(bills) + 1 /\ bills'[v] = b)
    BY <1>4, <1>5
  <1>9. RedisHolds'
    BY <1>3, <1>5, <1>7, <1>8, RedisBuy DEF Memory
  <1>10. ASSUME NEW d \in Client \ {c} PROVE Leaves(d)
    <2>1. now' \in Nat /\ now <= now' /\ lost \subseteq lost'
      BY <1>3, <1>4
    <2>2. \A v \in DOMAIN bills : Filed(v, FALSE) => Filed(v, FALSE)'
      BY <1>3, <1>5 DEF Filed, RowOf, RowFor
    <2>3. \A v \in DOMAIN bills : v \in DOMAIN bills' /\ bills'[v].by = bills[v].by
      BY <1>4, <1>5
    <2>4. \A v \in DOMAIN bills' : bills'[v].by = d => v \in DOMAIN bills /\ bills'[v] = bills[v]
      BY <1>5, <1>7, <1>8
    <2> QED BY <2>1, <2>2, <2>3, <2>4 DEF Leaves
  <1>11. \A d \in Client : Frugal(d, client[d])'
    <2>1. Frugal(c, r)'
      BY <1>5, <1>7 DEF Frugal
    <2> QED BY <1>3, <1>10, <2>1, OthersFrugal DEF IInv, Memory
  <1> QED BY <1>9, <1>11 DEF Memory

\* What PutEdge does to the bills.
LEMMA PutBills ==
  ASSUME IInv, NEW c \in Client, client[c].pc = "put", NEW n \in Commands,
         NEW e, e = client[c].got,
         bills' = IF n < 2 THEN bills ELSE [bills EXCEPT ![e.v].until = LifeOf(KeyOf(e), n)]
  PROVE  /\ e \in Edge /\ DOMAIN bills' = DOMAIN bills /\ e.v \in DOMAIN bills
         /\ \A v \in DOMAIN bills : v # e.v => bills'[v] = bills[v]
         /\ \A v \in DOMAIN bills :
               /\ bills'[v].by = bills[v].by
               /\ bills'[v].key = bills[v].key /\ bills'[v].row = bills[v].row
               /\ bills'[v].slot = bills[v].slot
               /\ \/ bills'[v].until = bills[v].until
                  \/ /\ n >= 2 /\ bills[v].key = KeyOf(e) /\ bills[v].slot = e.slot
                     /\ bills'[v].until = LifeOf(KeyOf(e), n)
  <1>1. e \in Edge /\ e.v \in DOMAIN bills /\ bills[e.v].key = KeyOf(e) /\ bills[e.v].slot = e.slot
    BY DEF IInv, Clients, Working, Own, Bought
  <1>2. n \in 0 .. 3 /\ bills \in Seq(Bill)
    BY DEF Commands, IInv, Stores
  <1>3. CASE n < 2
    BY <1>1, <1>3
  <1>4. CASE ~(n < 2)
    <2>1. bills' = [bills EXCEPT ![e.v].until = LifeOf(KeyOf(e), n)]
      BY <1>4
    <2>2. DOMAIN bills' = DOMAIN bills /\ \A v \in DOMAIN bills : v # e.v => bills'[v] = bills[v]
      BY <2>1
    <2>3. bills[e.v] \in Bill
      BY <1>1, <1>2
    <2>4. /\ bills'[e.v].by = bills[e.v].by
          /\ bills'[e.v].key = bills[e.v].key /\ bills'[e.v].row = bills[e.v].row
          /\ bills'[e.v].slot = bills[e.v].slot
          /\ bills'[e.v].until = LifeOf(KeyOf(e), n)
      BY <1>1, <2>1, <2>3 DEF Bill
    <2> QED BY <1>1, <1>2, <1>4, <2>2, <2>4
  <1> QED BY <1>3, <1>4

LEMMA PutEdgeRemembers == ASSUME IInv, Memory, NEW c \in Client, PutEdge(c) PROVE Memory'
  <1>1. PICK e, r : e = client[c].got /\ r = [client[c] EXCEPT !.pc = "enqueue"]
    OBVIOUS
  <1>2. client[c].pc = "put" /\ Go(c, r) /\ UNCHANGED <<rows, queue, now, lost>>
    BY <1>1 DEF PutEdge
  <1>3. PICK n \in Commands :
          /\ Put(e, n)
          /\ bills' = IF n < 2 THEN bills ELSE [bills EXCEPT ![e.v].until = LifeOf(KeyOf(e), n)]
    BY <1>1 DEF PutEdge
  <1>4. /\ e \in Edge /\ DOMAIN bills' = DOMAIN bills /\ e.v \in DOMAIN bills
        /\ \A v \in DOMAIN bills : v # e.v => bills'[v] = bills[v]
        /\ \A v \in DOMAIN bills :
               /\ bills'[v].by = bills[v].by
               /\ bills'[v].key = bills[v].key /\ bills'[v].row = bills[v].row
               /\ bills'[v].slot = bills[v].slot
               /\ \/ bills'[v].until = bills[v].until
                  \/ /\ n >= 2 /\ bills[v].key = KeyOf(e) /\ bills[v].slot = e.slot
                     /\ bills'[v].until = LifeOf(KeyOf(e), n)
    <2>1. bills' = IF n < 2 THEN bills ELSE [bills EXCEPT ![e.v].until = LifeOf(KeyOf(e), n)]
      BY <1>3
    <2>2. client[c].pc = "put" /\ e = client[c].got
      BY <1>1, <1>2
    <2> QED BY <2>1, <2>2, PutBills
  <1>5. RedisHolds'
    BY <1>2, <1>3, <1>4, RedisPut DEF Memory
  <1>6. client[c] \in Local /\ now \in Nat
    BY DEF IInv, Clients, Clock
  <1>7. r.pc = "enqueue" /\ r.got = e
    BY <1>1, <1>6 DEF Local
  <1>8. bills[e.v].by = c
    BY <1>1, <1>2 DEF Memory, Frugal
  <1>9. \A v \in DOMAIN bills : Filed(v, FALSE) => Filed(v, FALSE)'
    BY <1>2, <1>4 DEF Filed, RowOf, RowFor
  <1>10. ASSUME NEW d \in Client \ {c} PROVE Leaves(d)
    <2>1. now' \in Nat /\ now <= now' /\ lost \subseteq lost'
      BY <1>2, <1>6
    <2>2. \A v \in DOMAIN bills' : bills'[v].by = d => v \in DOMAIN bills /\ bills'[v] = bills[v]
      BY <1>4, <1>8
    <2> QED BY <1>4, <1>9, <2>1, <2>2 DEF Leaves
  <1>11. \A d \in Client : Frugal(d, client[d])'
    <2>1. Frugal(c, r)'
      BY <1>4, <1>7, <1>8 DEF Frugal
    <2> QED BY <1>2, <1>10, <2>1, OthersFrugal DEF IInv, Memory
  <1> QED BY <1>5, <1>11 DEF Memory

LEMMA EnqueueFacts ==
  ASSUME IInv, NEW c \in Client, Enqueue(c)
  PROVE  /\ lost \subseteq lost' /\ Queued \subseteq Queued'
         /\ client[c].got.v \in lost' \cup Queued'
         /\ Go(c, Answer(c, client[c].got)) /\ client[c].pc = "enqueue"
         /\ UNCHANGED <<redis, expires, geo, rows, now, bills, faults>>
  <1> DEFINE e == client[c].got
  <1>1. queue \in Seq(Edge) /\ Len(queue) \in Nat
    BY DEF IInv, Stores
  <1>2. client[c].pc = "enqueue"
    BY DEF Enqueue
  <1>3. e \in Edge
    BY <1>2 DEF IInv, Clients, Working, Own, Bought
  <1>4. CASE queue' = Append(queue, e) /\ lost' = lost
    <2>1. /\ queue' \in Seq(Edge) /\ Len(queue') = Len(queue) + 1
          /\ queue'[Len(queue) + 1] = e /\ \A i \in 1 .. Len(queue) : queue'[i] = queue[i]
      BY <1>1, <1>3, <1>4
    <2>2. Len(queue) + 1 \in DOMAIN queue' /\ DOMAIN queue \subseteq DOMAIN queue'
      BY <1>1, <2>1
    <2>3. Queued \subseteq Queued' /\ e.v \in Queued'
      BY <1>1, <2>1, <2>2 DEF Queued
    <2> QED BY <1>2, <1>4, <2>3 DEF Enqueue
  <1>5. CASE lost' = lost \cup {e.v} /\ queue' = queue
    BY <1>2, <1>5 DEF Enqueue, Queued
  <1> QED BY <1>4, <1>5 DEF Enqueue

LEMMA EnqueueRemembers == ASSUME IInv, Memory, NEW c \in Client, Enqueue(c) PROVE Memory'
  <1>1. /\ lost \subseteq lost' /\ Queued \subseteq Queued'
        /\ client[c].got.v \in lost' \cup Queued'
        /\ client[c].pc = "enqueue"
        /\ UNCHANGED <<redis, expires, geo, rows, now, bills, faults>>
    BY EnqueueFacts
  <1>2. PICK r : r = Answer(c, client[c].got) /\ Go(c, r)
    BY EnqueueFacts
  <1>3. r.pc = "done"
    BY <1>2 DEF Answer, Idle
  <1>4. \A d : Leaves(d)
    BY <1>1, QuietLeaves
  <1>5. \A d \in Client : Frugal(d, client[d])'
    <2>1. Frugal(c, r)'
      BY <1>3 DEF Frugal
    <2> QED BY <1>2, <1>4, <2>1, OthersFrugal DEF IInv, Memory
  <1>6. RedisHolds'
    BY <1>1 DEF Memory, RedisHolds, KeyOf, KeyFor
  <1> QED BY <1>5, <1>6 DEF Memory

\* Steps that move no client.
LEMMA AllFrugal ==
  ASSUME IInv, \A d \in Client : Frugal(d, client[d]), \A d \in Client : Leaves(d), UNCHANGED client
  PROVE  \A d \in Client : Frugal(d, client[d])'
  <1>1. ASSUME NEW d \in Client PROVE Frugal(d, client[d])'
    <2>1. PICK q : q = client[d]
      OBVIOUS
    <2>2. Frugal(d, q)'
      BY <2>1, FrugalStays
    <2> QED BY <2>1, <2>2
  <1> QED BY <1>1

LEMMA WorkerRemembers == ASSUME IInv, Memory, Worker PROVE Memory'
  <1>1. UNCHANGED <<redis, expires, geo, client, now, bills, lost, faults>>
    BY DEF Worker
  <1>2. /\ \A v \in DOMAIN bills : Filed(v, FALSE) => Filed(v, FALSE)'
        /\ \A v \in DOMAIN bills : v \in Queued => v \in Queued' \/ Filed(v, FALSE)'
    BY WorkerFiles
  <1>3. ASSUME NEW d \in Client PROVE Leaves(d)
    <2>1. now' \in Nat /\ now <= now' /\ lost \subseteq lost'
      BY <1>1 DEF IInv, Clock
    <2> QED BY <1>1, <1>2, <2>1 DEF Leaves
  <1>4. \A d \in Client : Frugal(d, client[d])'
    BY <1>1, <1>3, AllFrugal DEF Memory
  <1>5. RedisHolds'
    BY <1>1 DEF Memory, RedisHolds, KeyOf, KeyFor
  <1> QED BY <1>4, <1>5 DEF Memory

LEMMA TickRemembers == ASSUME IInv, Memory, Tick PROVE Memory'
  <1>1. UNCHANGED <<geo, rows, queue, client, bills, lost>>
    BY DEF Tick
  <1>2. now' \in Nat /\ now <= now'
    BY StoresAssumption DEF Tick, IInv, Clock
  <1>3. \A v \in DOMAIN bills : Filed(v, FALSE) => Filed(v, FALSE)'
    BY <1>1 DEF Filed, RowOf, RowFor
  <1>4. ASSUME NEW d \in Client PROVE Leaves(d)
    BY <1>1, <1>2, <1>3 DEF Leaves
  <1>5. \A d \in Client : Frugal(d, client[d])'
    BY <1>1, <1>4, AllFrugal DEF Memory
  <1>6. RedisHolds'
    BY RedisTick DEF Memory
  <1> QED BY <1>5, <1>6 DEF Memory

LEMMA CrashRemembers == ASSUME IInv, Memory, Crash PROVE Memory'
  <1>1. /\ client' = [c \in Client |-> Idle]
        /\ lost' = lost \cup Queued
                    \cup {client[c].got.v : c \in {x \in Client : client[x].pc \in {"put", "enqueue"}}}
        /\ UNCHANGED <<redis, expires, geo, rows, now, bills>>
    BY DEF Crash
  <1>2. \A d \in Client : Frugal(d, client[d])'
    BY <1>1, IdleTyped DEF Frugal
  <1>3. RedisHolds'
    BY <1>1 DEF Memory, RedisHolds, KeyOf, KeyFor
  <1> QED BY <1>2, <1>3 DEF Memory

LEMMA StutterRemembers == ASSUME IInv, Memory, UNCHANGED vars PROVE Memory'
  <1>1. \A d : Leaves(d)
    <2>1. lost \subseteq lost' /\ UNCHANGED <<now, bills, rows>>
      BY DEF vars
    <2> QED BY <2>1, QuietLeaves
  <1>2. \A d \in Client : Frugal(d, client[d])'
    BY <1>1, AllFrugal DEF Memory, vars
  <1>3. RedisHolds'
    BY DEF Memory, RedisHolds, KeyOf, KeyFor, vars
  <1> QED BY <1>2, <1>3 DEF Memory

-----------------------------------------------------------------------------
(* The way of a purchase to the archive *)

\* A version on its way stays on its way or is lost; the worker alone writes rows.
Carries ==
    /\ lost \subseteq lost' /\ Held \subseteq lost' \cup Queued' \cup Held'
    /\ \A v \in DOMAIN bills' : v \in DOMAIN bills \/ v \in Held'
    /\ \A v \in DOMAIN bills :
          v \in DOMAIN bills' /\ bills'[v].row = bills[v].row /\ bills'[v].slot = bills[v].slot
    /\ Worker \/ (UNCHANGED rows /\ Queued \subseteq lost' \cup Queued')

\* Steps of one client that leave bills and queue alone.
LEMMA MoveCarries ==
  ASSUME IInv, NEW c \in Client, NEW r, Go(c, r), UNCHANGED <<bills, rows, queue, lost>>,
         client[c].pc \notin {"put", "enqueue"}
  PROVE  Carries
  <1>1. \A d \in Client \ {c} : client'[d] = client[d]
    BY DEF Go, IInv, Clients
  <1>2. Held \subseteq Held' /\ Queued' = Queued
    BY <1>1 DEF Held, Queued
  <1> QED BY <1>2 DEF Carries

LEMMA BuyCarries == ASSUME IInv, NEW c \in Client, Buy(c) PROVE Carries
  <1>0. PICK e, r, b :
          /\ e = [ctx |-> Of(c).ctx, o |-> Of(c).o, d |-> Of(c).d,
                  slot |-> FiledUnder(c), v |-> Len(bills) + 1]
          /\ r = [client[c] EXCEPT !.pc = "put", !.got = e, !.queued = {}]
          /\ b = [by |-> c, ctx |-> e.ctx, key |-> KeyOf(e), row |-> RowOf(e), slot |-> client[c].wmt, until |-> 0]
    OBVIOUS
  <1>1. bills' = Append(bills, b) /\ e.v = Len(bills) + 1 /\ Go(c, r)
    BY <1>0 DEF Buy
  <1>2. client[c].pc = "buy" /\ UNCHANGED <<rows, queue, lost>>
    BY DEF Buy
  <1>3. client[c] \in Local /\ bills \in Seq(Bill) /\ Len(bills) \in Nat
    BY DEF IInv, Clients, Stores
  <1>4. client'[c] = r /\ r.pc = "put" /\ r.got = e
    BY <1>0, <1>1, <1>3 DEF Go, IInv, Clients, Local
  <1>5. \A d \in Client \ {c} : client'[d] = client[d]
    BY <1>1 DEF Go, IInv, Clients
  <1>6. Held \subseteq Held'
    BY <1>2, <1>5 DEF Held
  <1>7. Len(bills) + 1 \in Held'
    <2>1. Len(bills) + 1 \in Nat /\ client'[c].pc = "put" /\ client'[c].got.v = Len(bills) + 1
      BY <1>1, <1>3, <1>4
    <2> QED BY <2>1 DEF Held
  <1>8. /\ DOMAIN bills' = 1 .. Len(bills) + 1 /\ DOMAIN bills = 1 .. Len(bills)
        /\ \A v \in DOMAIN bills : bills'[v] = bills[v]
    BY <1>1, <1>3
  <1>9. /\ \A v \in DOMAIN bills' : v \in DOMAIN bills \/ v = Len(bills) + 1
        /\ DOMAIN bills \subseteq DOMAIN bills'
    BY <1>3, <1>8
  <1>10. Queued' = Queued
    BY <1>2 DEF Queued
  <1> QED BY <1>2, <1>6, <1>7, <1>8, <1>9, <1>10 DEF Carries

LEMMA PutEdgeCarries == ASSUME IInv, NEW c \in Client, PutEdge(c) PROVE Carries
  <1>1. PICK e, r : e = client[c].got /\ r = [client[c] EXCEPT !.pc = "enqueue"]
    OBVIOUS
  <1>2. client[c].pc = "put" /\ Go(c, r) /\ UNCHANGED <<rows, queue, now, lost>>
    BY <1>1 DEF PutEdge
  <1>3. PICK n \in Commands :
          bills' = IF n < 2 THEN bills ELSE [bills EXCEPT ![e.v].until = LifeOf(KeyOf(e), n)]
    BY <1>1 DEF PutEdge
  <1>4. /\ DOMAIN bills' = DOMAIN bills
        /\ \A v \in DOMAIN bills : bills'[v].row = bills[v].row /\ bills'[v].slot = bills[v].slot
    BY <1>1, <1>2, <1>3, PutBills
  <1>5. client[c] \in Local
    BY DEF IInv, Clients
  <1>6. client'[c] = r /\ r.pc = "enqueue" /\ r.got = e /\ \A d \in Client \ {c} : client'[d] = client[d]
    BY <1>1, <1>2, <1>5 DEF Go, IInv, Clients, Local
  <1>7. Held \subseteq Held' /\ Queued' = Queued
    BY <1>1, <1>2, <1>6 DEF Held, Queued
  <1> QED BY <1>2, <1>4, <1>7 DEF Carries

LEMMA EnqueueCarries == ASSUME IInv, NEW c \in Client, Enqueue(c) PROVE Carries
  <1>1. /\ lost \subseteq lost' /\ Queued \subseteq Queued'
        /\ client[c].got.v \in lost' \cup Queued'
        /\ Go(c, Answer(c, client[c].got))
        /\ UNCHANGED <<rows, bills>>
    BY EnqueueFacts
  <1>2. \A d \in Client \ {c} : client'[d] = client[d]
    BY <1>1 DEF Go, IInv, Clients
  <1>3. Held \subseteq Held' \cup {client[c].got.v}
    BY <1>2 DEF Held
  <1> QED BY <1>1, <1>3 DEF Carries

LEMMA StepCarries == ASSUME IInv, [Next]_vars PROVE Carries
  <1>1. ASSUME NEW c \in Client, Start(c) \/ ExactGet(c) \/ NearGet(c) \/ SlotsGet(c) \/ HourGet(c)
                                    \/ Promote(c) \/ Return(c)
        PROVE  Carries
    <2>1. \E r : Go(c, r)
      BY <1>1 DEF Start, ExactGet, NearGet, SlotsGet, HourGet, Promote, Return
    <2>2. UNCHANGED <<bills, rows, queue, lost>> /\ client[c].pc \notin {"put", "enqueue"}
      BY <1>1 DEF Start, ExactGet, NearGet, SlotsGet, HourGet, Promote, Return
    <2> QED BY <2>1, <2>2, MoveCarries
  <1>2. ASSUME UNCHANGED <<client, bills, lost>>, Worker \/ UNCHANGED <<rows, queue>> PROVE Carries
    <2>1. Held' = Held
      BY <1>2 DEF Held
    <2>2. UNCHANGED queue => Queued' = Queued
      BY DEF Queued
    <2> QED BY <1>2, <2>1, <2>2 DEF Carries
  <1>3. CASE Crash
    <2>1. /\ lost' = lost \cup Queued
                    \cup {client[c].got.v : c \in {x \in Client : client[x].pc \in {"put", "enqueue"}}}
          /\ UNCHANGED <<rows, bills>>
      BY <1>3 DEF Crash
    <2>2. lost \subseteq lost' /\ Queued \subseteq lost' /\ Held \subseteq lost'
      BY <2>1 DEF Held
    <2> QED BY <2>1, <2>2 DEF Carries
  <1>4. CASE Tick \/ Worker \/ UNCHANGED vars
    BY <1>2, <1>4 DEF Tick, Worker, vars
  <1>5. ASSUME NEW c \in Client, Buy(c) \/ PutEdge(c) \/ Enqueue(c) PROVE Carries
    BY <1>5, BuyCarries, PutEdgeCarries, EnqueueCarries
  <1> QED BY <1>1, <1>3, <1>4, <1>5 DEF Next, Step

LEMMA ArchiveStays ==
  ASSUME IInv, NEW fresh \in BOOLEAN, ArchiveHolds(fresh), Carries,
         fresh => \A i \in DOMAIN rows, k \in DOMAIN queue :
                     RowOf(rows[i]) = RowOf(queue[k]) => rows[i].v <= queue[k].v
  PROVE  ArchiveHolds(fresh)'
  <1>1. CASE Worker
    <2>1. fresh => \A i \in DOMAIN rows : RowOf(rows[i]) = RowOf(Head(queue)) => rows[i].v <= Head(queue).v
      BY <1>1, HeadFacts DEF Worker, IInv
    <2>2. /\ \A v \in DOMAIN bills : Filed(v, fresh) => Filed(v, fresh)'
          /\ \A v \in DOMAIN bills : v \in Queued => v \in Queued' \/ Filed(v, fresh)'
      BY <1>1, <2>1, WorkerFiles
    <2> QED BY <2>2 DEF Carries, ArchiveHolds
  <1>2. CASE UNCHANGED rows /\ Queued \subseteq lost' \cup Queued'
    <2>1. \A v \in DOMAIN bills : Filed(v, fresh) => Filed(v, fresh)'
      BY <1>2 DEF Filed, RowOf, RowFor, Carries
    <2> QED BY <1>2, <2>1 DEF Carries, ArchiveHolds
  <1> QED BY <1>1, <1>2 DEF Carries

LEMMA MemorySafe == Spec => [](Memory /\ ArchiveHolds(FALSE))
  <1>1. Init => Memory /\ ArchiveHolds(FALSE)
    <2> SUFFICES ASSUME Init PROVE Memory /\ ArchiveHolds(FALSE)
      OBVIOUS
    <2>1. DOMAIN bills = {} /\ \A c \in Client : client[c].pc = "idle"
      BY IdleTyped DEF Init
    <2> QED BY <2>1 DEF Memory, RedisHolds, ArchiveHolds, Frugal
  <1>2. IInv /\ Memory /\ ArchiveHolds(FALSE) /\ [Next]_vars => (Memory /\ ArchiveHolds(FALSE))'
    <2> SUFFICES ASSUME IInv, Memory, ArchiveHolds(FALSE), [Next]_vars
                 PROVE  Memory' /\ ArchiveHolds(FALSE)'
      OBVIOUS
    <2>1. ASSUME NEW c \in Client, Start(c) \/ Step(c) PROVE Memory'
      BY <2>1, StartRemembers, ExactGetRemembers, NearGetRemembers, SlotsGetRemembers,
         HourGetRemembers, PromoteRemembers, BuyRemembers, PutEdgeRemembers,
         EnqueueRemembers, ReturnRemembers DEF Step
    <2>2. Memory'
      BY <2>1, WorkerRemembers, TickRemembers, CrashRemembers, StutterRemembers DEF Next
    <2>3. ArchiveHolds(FALSE)'
      BY StepCarries, ArchiveStays
    <2> QED BY <2>2, <2>3
  <1> QED BY <1>1, <1>2, SpecInv, PTL DEF Spec

\* No client pays again for what it bought before and could have found in Redis or
\* in the archive, through expiry, cut pipelines, full queues and restarts.
THEOREM BuysOnce == Spec => []PaysOnce
  <1>1. Memory => PaysOnce
    BY DEF Memory, Frugal, PaysOnce, Again, Anew, Unfiled, Of
  <1> QED BY <1>1, MemorySafe, PTL

-----------------------------------------------------------------------------
(* Newer data is never overwritten, where each row has one buyer *)

\* Who bought v asks for its row.
Buyers == \A v \in DOMAIN bills :
              \E a \in Asks[bills[v].by] : bills[v].row = RowFor(a.ctx, a.o, a.d)

\* A client that has not passed its purchase on has bought nothing since.
Newest == \A c \in Client : client[c].pc \in {"put", "enqueue"} =>
              /\ bills[client[c].got.v].by = c
              /\ \A v \in DOMAIN bills : bills[v].by = c => v <= client[c].got.v

\* The jobs of a row are queued in the order of purchase, after what is filed.
JobsInOrder == \A i, k \in DOMAIN queue :
                   i < k /\ RowOf(queue[i]) = RowOf(queue[k]) => queue[i].v <= queue[k].v

RowsBehind == \A i \in DOMAIN rows, k \in DOMAIN queue :
                  RowOf(rows[i]) = RowOf(queue[k]) => rows[i].v <= queue[k].v

InOrder == Buyers /\ Newest /\ JobsInOrder /\ RowsBehind /\ ArchiveHolds(TRUE)

LEMMA SameBuyer ==
  ASSUME IInv, OneBuyer, Buyers, NEW v \in DOMAIN bills, NEW w \in DOMAIN bills,
         bills[v].row = bills[w].row
  PROVE  bills[v].by = bills[w].by
  BY BillTyped DEF OneBuyer, Buyers, RowFor

LEMMA JobTyped ==
  ASSUME IInv, NEW k \in DOMAIN queue
  PROVE  queue[k].v \in DOMAIN bills /\ queue[k].v \in Nat /\ RowOf(queue[k]) = bills[queue[k].v].row
  <1>1. Bought(queue[k])
    BY DEF IInv, Stores
  <1> QED BY <1>1, BillTyped DEF Bought

LEMMA RowBought ==
  ASSUME IInv, NEW k \in DOMAIN rows
  PROVE  rows[k].v \in DOMAIN bills /\ rows[k].v \in Nat /\ RowOf(rows[k]) = bills[rows[k].v].row
  <1>1. Bought(rows[k])
    BY DEF IInv, Stores
  <1> QED BY <1>1, BillTyped DEF Bought

\* Steps that buy nothing and leave the queue alone, or clear it.
LEMMA OrderStays ==
  ASSUME IInv, InOrder, UNCHANGED rows, queue' = queue \/ queue' = <<>>,
         DOMAIN bills' = DOMAIN bills,
         \A v \in DOMAIN bills : bills'[v].by = bills[v].by /\ bills'[v].row = bills[v].row,
         \A c \in Client : client'[c].pc \in {"put", "enqueue"} =>
             client[c].pc \in {"put", "enqueue"} /\ client'[c].got = client[c].got
  PROVE  Buyers' /\ Newest' /\ JobsInOrder' /\ RowsBehind'
  <1>1. Buyers'
    BY DEF InOrder, Buyers
  <1>2. Newest'
    <2>1. \A c \in Client : client[c].pc \in {"put", "enqueue"} => client[c].got.v \in DOMAIN bills
      BY DEF IInv, Clients, Working, Own, Bought
    <2> QED BY <2>1 DEF InOrder, Newest
  <1>3. JobsInOrder'
    BY DEF InOrder, JobsInOrder, RowOf, RowFor
  <1>4. RowsBehind'
    BY DEF InOrder, RowsBehind, RowOf, RowFor
  <1> QED BY <1>1, <1>2, <1>3, <1>4

\* c moves on, and holds afterwards what it held before or nothing.
LEMMA MoveInOrder ==
  ASSUME IInv, InOrder, NEW c \in Client, NEW r, Go(c, r), UNCHANGED <<bills, rows, queue>>,
         r.pc \notin {"put", "enqueue"}
  PROVE  Buyers' /\ Newest' /\ JobsInOrder' /\ RowsBehind'
  <1>1. client'[c] = r /\ \A d \in Client \ {c} : client'[d] = client[d]
    BY DEF Go, IInv, Clients
  <1>2. \A d \in Client : client'[d].pc \in {"put", "enqueue"} =>
             client[d].pc \in {"put", "enqueue"} /\ client'[d].got = client[d].got
    BY <1>1
  <1> QED BY <1>2, OrderStays

LEMMA LookInOrder ==
  ASSUME IInv, InOrder, NEW c \in Client,
         Start(c) \/ ExactGet(c) \/ NearGet(c) \/ SlotsGet(c) \/ HourGet(c) \/ Promote(c) \/ Return(c)
  PROVE  Buyers' /\ Newest' /\ JobsInOrder' /\ RowsBehind'
  <1>1. client[c] \in Local
    BY DEF IInv, Clients
  <1>2. ASSUME NEW e PROVE Answer(c, e).pc = "done" /\ Idle.pc = "idle"
    BY DEF Answer, Idle
  <1>3. \E r : Go(c, r) /\ r.pc \notin {"put", "enqueue"}
    <2>1. CASE Start(c)
      <3>1. PICK a \in Asks[c] :
                Go(c, [Idle EXCEPT !.pc = "exact", !.ask = a, !.wmt = SlotOf(a, now),
                                   !.asked = now, !.queued = Queued])
        BY <2>1 DEF Start
      <3>2. [Idle EXCEPT !.pc = "exact", !.ask = a, !.wmt = SlotOf(a, now),
                         !.asked = now, !.queued = Queued].pc = "exact"
        BY DEF Idle
      <3> QED BY <3>1, <3>2
    <2>2. ASSUME NEW x, NEW r, Go(c, r),
                 \/ r = [client[c] EXCEPT !.pc = "near", !.slot = x]
                 \/ r = [client[c] EXCEPT !.pc = "slots"]
                 \/ r = [client[c] EXCEPT !.pc = "promote", !.got = x, !.queued = {}]
                 \/ r = [client[c] EXCEPT !.pc = IF Of(c).strict THEN "buy" ELSE "hour", !.slot = x]
                 \/ r = [client[c] EXCEPT !.pc = "buy"]
                 \/ r = Answer(c, x)
          PROVE  \E q : Go(c, q) /\ q.pc \notin {"put", "enqueue"}
      <3>1. r.pc \in {"near", "slots", "promote", "buy", "hour", "done"}
        BY <1>1, <1>2, <2>2 DEF Local
      <3> QED BY <2>2, <3>1
    <2>3. CASE ExactGet(c)
      BY <2>2, <2>3 DEF ExactGet
    <2>4. CASE NearGet(c)
      BY <2>2, <2>4 DEF NearGet
    <2>5. CASE SlotsGet(c) \/ HourGet(c)
      BY <2>2, <2>5 DEF SlotsGet, HourGet
    <2>6. CASE Promote(c) \/ Return(c)
      BY <1>1, <1>2, <2>6 DEF Promote, Return
    <2> QED BY <2>1, <2>2, <2>3, <2>4, <2>5, <2>6
  <1>4. UNCHANGED <<bills, rows, queue>>
    BY DEF Start, ExactGet, NearGet, SlotsGet, HourGet, Promote, Return
  <1> QED BY <1>3, <1>4, MoveInOrder

LEMMA BuyInOrder ==
  ASSUME IInv, InOrder, NEW c \in Client, Buy(c)
  PROVE  Buyers' /\ Newest' /\ JobsInOrder' /\ RowsBehind'
  <1>0. PICK e, r, b :
          /\ e = [ctx |-> Of(c).ctx, o |-> Of(c).o, d |-> Of(c).d,
                  slot |-> FiledUnder(c), v |-> Len(bills) + 1]
          /\ r = [client[c] EXCEPT !.pc = "put", !.got = e, !.queued = {}]
          /\ b = [by |-> c, ctx |-> e.ctx, key |-> KeyOf(e), row |-> RowOf(e), slot |-> client[c].wmt, until |-> 0]
    OBVIOUS
  <1>1. bills' = Append(bills, b) /\ e.v = Len(bills) + 1 /\ Go(c, r)
    BY <1>0 DEF Buy
  <1>2. client[c].pc = "buy" /\ UNCHANGED <<rows, queue>>
    BY DEF Buy
  <1>3. client[c] \in Local /\ bills \in Seq(Bill) /\ Len(bills) \in Nat /\ Of(c) \in Asks[c]
    BY <1>2, AtWork DEF IInv, Stores
  <1>4. /\ DOMAIN bills' = 1 .. Len(bills) + 1 /\ DOMAIN bills = 1 .. Len(bills)
        /\ bills'[Len(bills) + 1] = b /\ \A v \in DOMAIN bills : bills'[v] = bills[v]
    BY <1>1, <1>3
  <1>5. /\ \A v \in DOMAIN bills' : v \in DOMAIN bills \/ (v = Len(bills) + 1 /\ bills'[v] = b)
        /\ \A v \in DOMAIN bills' : v <= Len(bills) + 1
    BY <1>3, <1>4
  <1>6. b.by = c /\ b.row = RowFor(Of(c).ctx, Of(c).o, Of(c).d)
    BY <1>0 DEF RowOf
  <1>7. client'[c] = r /\ r.got.v = Len(bills) + 1 /\ \A d \in Client \ {c} : client'[d] = client[d]
    BY <1>0, <1>1, <1>3 DEF Go, IInv, Clients, Local
  <1>8. Buyers'
    BY <1>3, <1>4, <1>5, <1>6 DEF InOrder, Buyers
  <1>9. ASSUME NEW d \in Client, client'[d].pc \in {"put", "enqueue"}
        PROVE  /\ bills'[client'[d].got.v].by = d
               /\ \A v \in DOMAIN bills' : bills'[v].by = d => v <= client'[d].got.v
    <2>1. CASE d = c
      BY <1>4, <1>5, <1>6, <1>7, <2>1
    <2>2. CASE d # c
      <3>1. client'[d] = client[d]
        BY <1>7, <2>2
      <3>2. client[d].got.v \in DOMAIN bills
        BY <1>9, <3>1 DEF IInv, Clients, Working, Own, Bought
      <3> QED BY <1>4, <1>5, <1>6, <1>9, <2>2, <3>1, <3>2 DEF InOrder, Newest
    <2> QED BY <2>1, <2>2
  <1>10. JobsInOrder' /\ RowsBehind'
    BY <1>2 DEF InOrder, JobsInOrder, RowsBehind, RowOf, RowFor
  <1> QED BY <1>8, <1>9, <1>10 DEF Newest

LEMMA PutEdgeInOrder ==
  ASSUME IInv, InOrder, NEW c \in Client, PutEdge(c)
  PROVE  Buyers' /\ Newest' /\ JobsInOrder' /\ RowsBehind'
  <1>1. PICK e, r : e = client[c].got /\ r = [client[c] EXCEPT !.pc = "enqueue"]
    OBVIOUS
  <1>2. client[c].pc = "put" /\ Go(c, r) /\ UNCHANGED <<rows, queue, now, lost>>
    BY <1>1 DEF PutEdge
  <1>3. PICK n \in Commands :
          bills' = IF n < 2 THEN bills ELSE [bills EXCEPT ![e.v].until = LifeOf(KeyOf(e), n)]
    BY <1>1 DEF PutEdge
  <1>4. /\ DOMAIN bills' = DOMAIN bills
        /\ \A v \in DOMAIN bills : bills'[v].by = bills[v].by /\ bills'[v].row = bills[v].row
    BY <1>1, <1>2, <1>3, PutBills
  <1>5. client[c] \in Local
    BY DEF IInv, Clients
  <1>6. client'[c] = r /\ r.pc = "enqueue" /\ r.got = e /\ \A d \in Client \ {c} : client'[d] = client[d]
    BY <1>1, <1>2, <1>5 DEF Go, IInv, Clients, Local
  <1>7. \A d \in Client : client'[d].pc \in {"put", "enqueue"} =>
             client[d].pc \in {"put", "enqueue"} /\ client'[d].got = client[d].got
    BY <1>1, <1>2, <1>6
  <1> QED BY <1>2, <1>4, <1>7, OrderStays

LEMMA EnqueueInOrder ==
  ASSUME IInv, OneBuyer, InOrder, NEW c \in Client, Enqueue(c)
  PROVE  Buyers' /\ Newest' /\ JobsInOrder' /\ RowsBehind'
  <1>1. PICK e, r : e = client[c].got /\ r = Answer(c, e) /\ Go(c, r)
    BY DEF Enqueue
  <1>2. client[c].pc = "enqueue" /\ UNCHANGED <<rows, bills>>
    BY DEF Enqueue
  <1>3. r.pc = "done"
    BY <1>1 DEF Answer, Idle
  <1>4. CASE queue' = queue
    BY <1>1, <1>2, <1>3, <1>4, MoveInOrder
  <1>5. CASE queue' = Append(queue, e)
    <2>1. e \in Edge /\ e.v \in DOMAIN bills /\ bills[e.v].row = RowOf(e)
      BY <1>1, <1>2 DEF IInv, Clients, Working, Own, Bought
    <2>2. /\ bills[e.v].by = c
          /\ \A v \in DOMAIN bills : bills[v].by = c => v <= e.v
      BY <1>1, <1>2 DEF InOrder, Newest
    <2>3. queue \in Seq(Edge) /\ Len(queue) \in Nat
      BY DEF IInv, Stores
    <2>4. /\ DOMAIN queue' = 1 .. Len(queue) + 1 /\ DOMAIN queue = 1 .. Len(queue)
          /\ queue'[Len(queue) + 1] = e /\ \A i \in DOMAIN queue : queue'[i] = queue[i]
      BY <1>5, <2>1, <2>3
    <2>5. \A i \in DOMAIN queue' : i \in DOMAIN queue \/ (i = Len(queue) + 1 /\ queue'[i] = e)
      BY <2>3, <2>4
    <2>6. \A i \in DOMAIN queue : RowOf(queue[i]) = RowOf(e) => queue[i].v <= e.v
      BY <2>1, <2>2, JobTyped, SameBuyer DEF InOrder
    <2>7. \A i \in DOMAIN rows : RowOf(rows[i]) = RowOf(e) => rows[i].v <= e.v
      BY <2>1, <2>2, RowBought, SameBuyer DEF InOrder
    <2>8. JobsInOrder'
      <3> SUFFICES ASSUME NEW i \in DOMAIN queue', NEW k \in DOMAIN queue', i < k,
                          RowOf(queue'[i]) = RowOf(queue'[k])
                   PROVE  queue'[i].v <= queue'[k].v
        BY DEF JobsInOrder, RowOf, RowFor
      <3>1. i \in DOMAIN queue
        BY <2>3, <2>4
      <3>2. CASE k \in DOMAIN queue
        BY <2>4, <3>1, <3>2 DEF InOrder, JobsInOrder
      <3>3. CASE k \notin DOMAIN queue
        BY <2>4, <2>5, <2>6, <3>1, <3>3
      <3> QED BY <3>2, <3>3
    <2>9. RowsBehind'
      <3> SUFFICES ASSUME NEW i \in DOMAIN rows, NEW k \in DOMAIN queue', RowOf(rows[i]) = RowOf(queue'[k])
                   PROVE  rows[i].v <= queue'[k].v
        BY <1>2 DEF RowsBehind, RowOf, RowFor
      <3>1. CASE k \in DOMAIN queue
        BY <2>4, <3>1 DEF InOrder, RowsBehind
      <3>2. CASE k \notin DOMAIN queue
        BY <2>5, <2>7, <3>2
      <3> QED BY <3>1, <3>2
    <2>10. client'[c] = r /\ \A d \in Client \ {c} : client'[d] = client[d]
      BY <1>1 DEF Go, IInv, Clients
    <2>11. Buyers' /\ Newest'
      BY <1>2, <1>3, <2>10 DEF InOrder, Buyers, Newest
    <2> QED BY <2>8, <2>9, <2>11
  <1> QED BY <1>1, <1>4, <1>5 DEF Enqueue

LEMMA WorkerInOrder ==
  ASSUME IInv, InOrder, Worker
  PROVE  Buyers' /\ Newest' /\ JobsInOrder' /\ RowsBehind'
  <1>1. PICK e \in Edge : e = Head(queue) /\ e = queue[1] /\ queue # <<>>
    BY HeadFacts DEF IInv, Worker
  <1>2. PICK us : us = Upsert(rows, e)
    OBVIOUS
  <1>3. rows' = us /\ queue' = Tail(queue) /\ UNCHANGED <<client, bills>>
    BY <1>1, <1>2 DEF Worker
  <1>4. Upserted(rows, e, us)
    BY <1>2, UpsertFacts DEF IInv, Stores, Distinct
  <1>5. /\ queue \in Seq(Edge) /\ Len(queue) \in Nat /\ 1 \in DOMAIN queue
        /\ \A k \in DOMAIN queue' : k \in Nat \ {0} /\ k + 1 \in DOMAIN queue /\ queue'[k] = queue[k + 1]
    <2>1. /\ Tail(queue) \in Seq(Edge) /\ Len(queue) \in Nat \ {0} /\ queue \in Seq(Edge)
          /\ \A k \in DOMAIN Tail(queue) : k + 1 \in DOMAIN queue /\ Tail(queue)[k] = queue[k + 1]
      BY <1>1, HeadFacts DEF IInv, Stores
    <2>2. \A k \in DOMAIN Tail(queue) : k \in Nat \ {0}
      BY <2>1
    <2> QED BY <1>3, <2>1, <2>2
  <1>6. \A i \in DOMAIN us : us[i] = e \/ \E j \in DOMAIN rows : us[i] = rows[j]
    <2>1. us \in Seq(Edge) /\ Len(us) \in Nat /\ us[Len(us)] = e
          /\ \A i \in 1 .. Len(us) - 1 : \E j \in DOMAIN rows : us[i] = rows[j]
      BY <1>4 DEF Upserted
    <2> QED BY <2>1
  <1>7. JobsInOrder'
    <2> SUFFICES ASSUME NEW i \in DOMAIN queue', NEW k \in DOMAIN queue', i < k,
                        RowOf(queue'[i]) = RowOf(queue'[k])
                 PROVE  queue'[i].v <= queue'[k].v
      BY DEF JobsInOrder, RowOf, RowFor
    <2>1. i + 1 < k + 1
      BY <1>5
    <2> QED BY <1>5, <2>1 DEF InOrder, JobsInOrder
  <1>8. RowsBehind'
    <2> SUFFICES ASSUME NEW i \in DOMAIN us, NEW k \in DOMAIN queue', RowOf(us[i]) = RowOf(queue'[k])
                 PROVE  us[i].v <= queue'[k].v
      BY <1>3 DEF RowsBehind, RowOf, RowFor
    <2>1. k + 1 \in DOMAIN queue /\ queue'[k] = queue[k + 1] /\ 1 < k + 1
      BY <1>5
    <2>2. CASE us[i] = e
      BY <1>1, <1>5, <2>1, <2>2 DEF InOrder, JobsInOrder
    <2>3. CASE \E j \in DOMAIN rows : us[i] = rows[j]
      BY <2>1, <2>3 DEF InOrder, RowsBehind
    <2> QED BY <1>6, <2>2, <2>3
  <1>9. Buyers' /\ Newest'
    BY <1>3 DEF InOrder, Buyers, Newest
  <1> QED BY <1>7, <1>8, <1>9

LEMMA StillInOrder ==
  ASSUME IInv, OneBuyer, InOrder, [Next]_vars
  PROVE  InOrder'
  <1>1. ArchiveHolds(TRUE)'
    BY StepCarries, ArchiveStays DEF InOrder, RowsBehind
  <1>2. Buyers' /\ Newest' /\ JobsInOrder' /\ RowsBehind'
    <2>1. ASSUME NEW c \in Client, Start(c) \/ Step(c)
          PROVE  Buyers' /\ Newest' /\ JobsInOrder' /\ RowsBehind'
      BY <2>1, LookInOrder, BuyInOrder, PutEdgeInOrder, EnqueueInOrder DEF Step
    <2>2. CASE Tick \/ UNCHANGED vars
      <3>1. UNCHANGED <<rows, queue, client, bills>>
        BY <2>2 DEF Tick, vars
      <3> QED BY <3>1, OrderStays
    <2>3. CASE Crash
      <3>1. UNCHANGED <<rows, bills>> /\ queue' = <<>> /\ client' = [c \in Client |-> Idle]
        BY <2>3 DEF Crash
      <3>2. \A c \in Client : client'[c].pc = "idle"
        BY <3>1, IdleTyped
      <3> QED BY <3>1, <3>2, OrderStays
    <2> QED BY <2>1, <2>2, <2>3, WorkerInOrder DEF Next
  <1> QED BY <1>1, <1>2 DEF InOrder

\* Where each row has one buyer, a version handed to the queue is there, lost with
\* a dropped job or the process, or in the archive, if not newer data is.
THEOREM KeepsWhatIsBought == ASSUME OneBuyer PROVE Spec => []ArchiveKeeps
  <1>1. Init => InOrder
    <2> SUFFICES ASSUME Init PROVE InOrder
      OBVIOUS
    <2>1. DOMAIN bills = {} /\ DOMAIN queue = {} /\ \A c \in Client : client[c].pc = "idle"
      BY IdleTyped DEF Init
    <2> QED BY <2>1 DEF InOrder, Buyers, Newest, JobsInOrder, RowsBehind, ArchiveHolds
  <1>2. IInv /\ InOrder /\ [Next]_vars => InOrder'
    BY StillInOrder
  <1>3. InOrder => ArchiveKeeps
    BY DEF InOrder, ArchiveHolds, ArchiveKeeps, Filed, Held
  <1> QED BY <1>1, <1>2, <1>3, SpecInv, PTL DEF Spec
================================================================================
