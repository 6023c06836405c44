-------------------------- MODULE AsyncBlockProofs --------------------------
(***************************************************************************)
(* What the operations of AsyncBlock do to the requests of the queue, for  *)
(* every capacity, set of requests and bound: the commands in flight are   *)
(* those that the requests count, and only their own completion, or the    *)
(* loss of the device, ends them.                                          *)
(***************************************************************************)
EXTENDS AsyncBlock, FiniteSetTheorems, TLAPS

-----------------------------------------------------------------------------
(* The invariant of the queue                                              *)

Vacant == {"Free", "Retired"}
Child == [state : {"Pending", "InFlight", "Done"}, serial : Nat, told : BOOLEAN]
Entry == [id : Id, age : Nat]

InFlight(s) == {c \in DOMAIN s.children : s.children[c].state = "InFlight"}
Started(s) == {c \in DOMAIN s.children : s.children[c].state # "Pending"}

\* A request slot: its children are dispatched in order, and until it ends it
\* counts those in flight.
SlotShape(s) ==
    /\ DOMAIN s = {"gen", "state", "device", "op", "priority", "deadline", "seq", "epoch",
                   "children", "flight", "queued", "pending", "outcome", "bytes"}
    /\ s.gen \in 1..MaxGeneration
    /\ s.priority \in Priorities
    /\ s.children \in Seq(Child)
    /\ s.flight \in Nat
    /\ \E k \in 0..Len(s.children) : Started(s) = 1..k
SlotInv(s) ==
    /\ SlotShape(s)
    /\ s.state # "Terminal" => s.flight = Cardinality(InFlight(s))

DeviceInv(d) ==
    /\ DOMAIN d = {"gen", "epoch", "ever", "present", "depth", "flush", "flight", "seq", "order",
                   "serial", "credits", "cursor", "passed", "final", "finalSerial"}
    /\ d.serial \in Nat
    /\ d.cursor \in Priorities

QueueInv(r) ==
    /\ DOMAIN r = {"slots", "devices", "queues", "flight", "shutdown"}
    /\ DOMAIN r.slots = Slots /\ \A i \in Slots : SlotInv(r.slots[i])
    /\ DOMAIN r.devices = DeviceSlots /\ \A d \in DeviceSlots : DeviceInv(r.devices[d])
    /\ DOMAIN r.queues = Priorities /\ \A p \in Priorities : r.queues[p] \in Seq(Entry)

-----------------------------------------------------------------------------
(* Sets and sequences                                                      *)

\* A function on 1..n is a sequence.
LEMMA SeqTyped ==
    ASSUME NEW T, NEW n \in Nat, NEW s \in [1..n -> T]
    PROVE  s \in Seq(T) /\ Len(s) = n
OBVIOUS

\* The empty sequence has every type.
LEMMA SeqEmpty ==
    ASSUME NEW T
    PROVE  <<>> \in Seq(T) /\ Len(<<>>) = 0
OBVIOUS

\* The elements of a concatenation.
LEMMA SeqConcat ==
    ASSUME NEW T, NEW s \in Seq(T), NEW t \in Seq(T)
    PROVE  /\ s \o t \in Seq(T) /\ Len(s \o t) = Len(s) + Len(t)
           /\ \A n \in 1..(Len(s) + Len(t)) : (s \o t)[n] = IF n <= Len(s) THEN s[n] ELSE t[n - Len(s)]
OBVIOUS

\* Replacing an element.
LEMMA SeqExcept ==
    ASSUME NEW T, NEW s \in Seq(T), NEW n \in 1..Len(s), NEW x \in T
    PROVE  /\ [s EXCEPT ![n] = x] \in Seq(T) /\ Len([s EXCEPT ![n] = x]) = Len(s)
           /\ \A m \in 1..Len(s) : [s EXCEPT ![n] = x][m] = IF m = n THEN x ELSE s[m]
OBVIOUS

\* Every non-empty set of naturals has a smallest element.
LEMMA NatMin ==
    ASSUME NEW T \in SUBSET Nat, T # {}
    PROVE  \E n \in T : \A m \in T : n <= m
<1>1. PICK n \in T : \A m \in T : ~(<<m, n>> \in OpToRel(<, Nat))
  BY NatLessThanWellFounded, WFMin, Zenon
<1>2. \A m \in T : ~(m < n)
  BY <1>1, Zenon DEF OpToRel
<1> QED
  BY <1>2

\* g is Concat's accumulator for the first n sequences.
Accumulates(g, seqs, n) ==
    \A i \in 0..n : g[i] = IF i = 0 THEN <<>> ELSE g[i - 1] \o seqs[i]

\* The accumulator of Concat exists, and is made of sequences over T.
LEMMA ConcatAccumulator ==
    ASSUME NEW T, NEW seqs \in Seq(Seq(T)), NEW n \in 0..Len(seqs)
    PROVE  \E g \in [0..n -> Seq(T)] : Accumulates(g, seqs, n)
<1> DEFINE Acc(k) == \E g \in [0..k -> Seq(T)] : Accumulates(g, seqs, k)
           Bad == {k \in 0..Len(seqs) : ~Acc(k)}
<1>0. Len(seqs) \in Nat /\ \A i \in 1..Len(seqs) : seqs[i] \in Seq(T)
  OBVIOUS
<1>1. ASSUME Bad # {} PROVE FALSE
  <2>1. Bad \in SUBSET Nat
    <3> HIDE DEF Acc
    <3> QED
      BY <1>0
  <2>2. PICK k \in Bad : \A m \in Bad : k <= m
    <3> HIDE DEF Bad
    <3> QED
      BY <1>1, <2>1, NatMin
  <2>3. k \in 0..Len(seqs) /\ ~Acc(k)
    <3> HIDE DEF Acc
    <3> QED
      OBVIOUS
  <2>4. CASE k = 0
    <3> DEFINE g == [i \in 0..0 |-> <<>>]
    <3>1. <<>> \in Seq(T)
      BY SeqEmpty
    <3>2. g \in [0..0 -> Seq(T)] /\ Accumulates(g, seqs, 0)
      BY <3>1 DEF Accumulates
    <3> HIDE DEF g
    <3> QED
      BY <2>3, <2>4, <3>2
  <2>5. CASE k # 0
    <3>1. k - 1 \in 0..Len(seqs) /\ k - 1 \notin Bad
      <4> HIDE DEF Bad, Acc
      <4> QED
        BY <1>0, <2>2, <2>3, <2>5
    <3>2. Acc(k - 1)
      <4> HIDE DEF Acc
      <4> QED
        BY <3>1
    <3>3. PICK g \in [0..(k - 1) -> Seq(T)] : Accumulates(g, seqs, k - 1)
      BY <3>2
    <3> DEFINE h == [i \in 0..k |-> IF i = k THEN g[k - 1] \o seqs[k] ELSE g[i]]
    <3>4. k \in 1..Len(seqs) /\ k \in Nat /\ k - 1 \in 0..(k - 1)
      BY <1>0, <2>3, <2>5
    <3>5. g[k - 1] \in Seq(T) /\ seqs[k] \in Seq(T)
      BY <1>0, <3>3, <3>4
    <3>6. g[k - 1] \o seqs[k] \in Seq(T)
      BY <3>5, SeqConcat
    <3>7. \A i \in 0..k : i # k => i \in 0..(k - 1)
      BY <3>4
    <3>8. h \in [0..k -> Seq(T)]
      BY <3>3, <3>6, <3>7
    <3>9. ASSUME NEW i \in 0..k
          PROVE  h[i] = IF i = 0 THEN <<>> ELSE h[i - 1] \o seqs[i]
      <4>1. CASE i = k
        <5>1. k \in 0..k /\ k - 1 \in 0..k /\ k - 1 # k
          BY <3>4
        <5>2. h[k] = g[k - 1] \o seqs[k] /\ h[k - 1] = g[k - 1]
          BY <5>1, Zenon
        <5> HIDE DEF h
        <5> QED
          BY <2>5, <4>1, <5>2, Zenon
      <4>2. CASE i # k
        <5>1. i \in 0..(k - 1) /\ (i # 0 => i - 1 \in 0..k /\ i - 1 # k)
          BY <3>4, <4>2
        <5>2. h[i] = g[i] /\ (i # 0 => h[i - 1] = g[i - 1])
          BY <4>2, <5>1
        <5> HIDE DEF h
        <5> QED
          BY <3>3, <5>1, <5>2, Zenon DEF Accumulates
      <4> QED
        BY <4>1, <4>2
    <3> HIDE DEF h
    <3>10. Accumulates(h, seqs, k)
      BY <3>9 DEF Accumulates
    <3> QED
      BY <2>3, <3>8, <3>10
  <2> QED
    BY <2>4, <2>5
<1>2. Acc(n)
  <2> HIDE DEF Acc
  <2> QED
    BY <1>1
<1> QED
  BY <1>2

\* Concatenating sequences over T gives a sequence over T.
LEMMA ConcatType ==
    ASSUME NEW T, NEW seqs \in Seq(Seq(T))
    PROVE  Concat(seqs) \in Seq(T)
<1> DEFINE n == Len(seqs)
           body(g) == [i \in 0..n |-> IF i = 0 THEN <<>> ELSE g[i - 1] \o seqs[i]]
           f == CHOOSE g : g = body(g)
<1>1. n \in Nat /\ n \in 0..n /\ n \in 0..Len(seqs) /\ \A i \in 1..n : seqs[i] \in Seq(T)
  OBVIOUS
<1>2. PICK g \in [0..n -> Seq(T)] : Accumulates(g, seqs, n)
  <2> HIDE DEF n
  <2> QED
    BY <1>1, ConcatAccumulator
<1>3. g = body(g)
  BY <1>2 DEF Accumulates
<1>4. f = body(f)
  <2> HIDE DEF body
  <2> QED
    BY <1>3
<1>5. Concat(seqs) = f[n]
  BY DEF Concat
<1> HIDE DEF f
<1>6. \A i \in 0..n : f[i] = IF i = 0 THEN <<>> ELSE f[i - 1] \o seqs[i]
  BY <1>4, Zenon
<1> HIDE DEF body, n
<1> DEFINE Bad == {i \in 0..n : f[i] \notin Seq(T)}
<1>7. ASSUME Bad # {} PROVE FALSE
  <2>1. Bad \in SUBSET Nat
    BY <1>1
  <2>2. PICK k \in Bad : \A m \in Bad : k <= m
    <3> HIDE DEF Bad
    <3> QED
      BY <1>7, <2>1, NatMin, Zenon
  <2>3. k \in 0..n /\ f[k] \notin Seq(T)
    OBVIOUS
  <2>4. CASE k = 0
    BY <1>6, <2>3, <2>4, SeqEmpty, Zenon
  <2>5. CASE k # 0
    <3>1. k \in 1..n /\ k - 1 \in 0..n /\ ~(k <= k - 1)
      BY <1>1, <2>3, <2>5
    <3>2. f[k - 1] \in Seq(T)
      BY <2>2, <3>1
    <3>3. f[k] = f[k - 1] \o seqs[k] /\ seqs[k] \in Seq(T)
      BY <1>1, <1>6, <2>3, <2>5, <3>1, Zenon
    <3> QED
      BY <2>3, <3>2, <3>3, SeqConcat
  <2> QED
    BY <2>4, <2>5
<1> QED
  BY <1>1, <1>5, <1>7, Zenon

\* Min picks a member.
LEMMA MinIn ==
    ASSUME NEW T \in SUBSET Nat, T # {}
    PROVE  Min(T) \in T
<1>1. PICK n \in T : \A m \in T : n <= m
  BY NatMin
<1> QED
  BY <1>1, Zenon DEF Min

\* One less, but not below zero.
LEMMA OneLessIs ==
    ASSUME NEW n \in Nat
    PROVE  OneLess(n) = IF n = 0 THEN 0 ELSE n - 1
<1>1. \E x \in {n - 1, 0} : \A y \in {n - 1, 0} : x >= y
  OBVIOUS
<1>2. OneLess(n) \in {n - 1, 0} /\ \A y \in {n - 1, 0} : OneLess(n) >= y
  BY <1>1, Zenon DEF OneLess, Max
<1> QED
  BY <1>2

\* Without gives a sequence of the same elements.
LEMMA WithoutType ==
    ASSUME NEW T, NEW s \in Seq(T), NEW X
    PROVE  Without(s, X) \in Seq(T)
<1> DEFINE g == [n \in DOMAIN s |-> IF s[n] \in X THEN <<>> ELSE <<s[n]>>]
<1>1. \A n \in 1..Len(s) : g[n] \in Seq(T)
  OBVIOUS
<1>2. DOMAIN s = 1..Len(s) /\ Len(s) \in Nat
  OBVIOUS
<1>3. g \in Seq(Seq(T))
  <2>1. g = [n \in 1..Len(s) |-> g[n]]
    BY <1>2
  <2> HIDE DEF g
  <2>2. g \in [1..Len(s) -> Seq(T)]
    BY <1>1, <2>1, Zenon
  <2> QED
    BY <1>2, <2>2, SeqTyped
<1> HIDE DEF g
<1>4. Concat(g) \in Seq(T)
  BY <1>3, ConcatType
<1> QED
  BY <1>4 DEF Without, g

\* The rotation of take_eligible.
LEMMA RotatedType ==
    ASSUME NEW T, NEW w \in Seq(T), NEW n \in DOMAIN w
    PROVE  SubSeq(w, n + 1, Len(w)) \o SubSeq(w, 1, n - 1) \in Seq(T)
<1>1. SubSeq(w, n + 1, Len(w)) \in Seq(T) /\ SubSeq(w, 1, n - 1) \in Seq(T)
  OBVIOUS
<1> QED
  BY <1>1, SeqConcat

-----------------------------------------------------------------------------
(* Request slots                                                           *)

\* A slot keeps its request, and the commands in flight other than those of X
\* stay in flight and keep it from ending.
Kept(s, t, X) ==
    /\ t.gen = s.gen
    /\ t.state \in Vacant <=> s.state \in Vacant
    /\ InFlight(s) \ X \subseteq InFlight(t)
    /\ IsLive(s) /\ InFlight(s) \ X # {} => IsLive(t)

\* Fields of a slot that only other code reads do not matter.
LEMMA SlotAlike ==
    ASSUME NEW s, SlotInv(s), NEW t, DOMAIN t = DOMAIN s, t.gen = s.gen, t.priority = s.priority,
           t.children = s.children, t.flight = s.flight, t.state # "Terminal" => s.state # "Terminal"
    PROVE  SlotInv(t) /\ InFlight(t) = InFlight(s)
<1>1. Started(t) = Started(s) /\ InFlight(t) = InFlight(s)
  BY DEF Started, InFlight
<1> QED
  BY <1>1 DEF SlotInv, SlotShape

\* A slot keeps itself, and what it keeps over two steps.
LEMMA KeptSame ==
    ASSUME NEW s, NEW X
    PROVE  Kept(s, s, X)
BY DEF Kept

\* What a slot keeps over two steps.
LEMMA KeptTwice ==
    ASSUME NEW s, NEW t, NEW u, NEW X, Kept(s, t, X), Kept(t, u, {})
    PROVE  Kept(s, u, X)
BY Zenon DEF Kept

\* The slots of new and of released requests.
LEMMA VacantInv ==
    ASSUME NEW g \in 1..MaxGeneration
    PROVE  /\ SlotInv(VacantSlot(g)) /\ VacantSlot(g).state = "Free" /\ VacantSlot(g).gen = g
           /\ SlotInv([VacantSlot(g) EXCEPT !.state = "Retired"])
           /\ [VacantSlot(g) EXCEPT !.state = "Retired"].state = "Retired"
<1> DEFINE s == VacantSlot(g)
<1>1. /\ s.state = "Free" /\ s.gen = g /\ s.priority \in Priorities /\ s.flight = 0
      /\ s.children = <<>>
      /\ DOMAIN s = {"gen", "state", "device", "op", "priority", "deadline", "seq", "epoch",
                     "children", "flight", "queued", "pending", "outcome", "bytes"}
  BY DEF VacantSlot, Priorities
<1> HIDE DEF s
<1>2. Started(s) = {} /\ InFlight(s) = {} /\ Len(s.children) = 0 /\ s.children \in Seq(Child)
  BY <1>1 DEF Started, InFlight
<1>3. Cardinality(InFlight(s)) = 0 /\ 1..0 = {}
  BY <1>2, FS_EmptySet
<1>4. SlotInv(s)
  BY <1>1, <1>2, <1>3 DEF SlotInv, SlotShape
<1> DEFINE t == [s EXCEPT !.state = "Retired"]
<1>5. /\ t.state = "Retired" /\ DOMAIN t = DOMAIN s /\ t.gen = s.gen /\ t.priority = s.priority
      /\ t.children = s.children /\ t.flight = s.flight
  BY <1>1
<1> HIDE DEF t
<1>6. SlotInv(t)
  BY <1>1, <1>4, <1>5, SlotAlike
<1> QED
  BY <1>1, <1>4, <1>5, <1>6 DEF s, t

\* The commands of a slot are finitely many.
LEMMA InFlightFinite ==
    ASSUME NEW s, SlotInv(s)
    PROVE  IsFiniteSet(InFlight(s)) /\ InFlight(s) \subseteq 1..Len(s.children)
<1>1. InFlight(s) \subseteq 1..Len(s.children) /\ Len(s.children) \in Nat
  BY DEF SlotInv, SlotShape, InFlight
<1>2. IsFiniteSet(1..Len(s.children))
  BY <1>1, FS_Interval
<1> QED
  BY <1>1, <1>2, FS_Subset

\* A request that counts no command has none.
LEMMA NoneInFlight ==
    ASSUME NEW s, SlotInv(s), s.state # "Terminal", s.flight = 0
    PROVE  InFlight(s) = {}
BY InFlightFinite, FS_EmptySet DEF SlotInv, SlotShape

\* A slot that ends without commands in flight loses none.
LEMMA KeptIdle ==
    ASSUME NEW s, NEW t, t.gen = s.gen, t.state \in Vacant <=> s.state \in Vacant, InFlight(s) = {}
    PROVE  Kept(s, t, {})
BY DEF Kept

\* The next child of a request that has children left is pending, and all before
\* it have been dispatched.
LEMMA NextChild ==
    ASSUME NEW s, SlotInv(s), Undispatched(s)
    PROVE  /\ Dispatched(s) + 1 \in 1..Len(s.children)
           /\ Started(s) = 1..Dispatched(s) /\ Dispatched(s) \in Nat
<1>1. PICK k \in 0..Len(s.children) : Started(s) = 1..k
  BY Zenon DEF SlotInv, SlotShape
<1>2. Len(s.children) \in Nat /\ k \in Nat
  BY <1>1 DEF SlotInv, SlotShape
<1>3. Cardinality(1..k) = k
  BY <1>2, FS_Interval
<1>4. Dispatched(s) = k
  BY <1>1, <1>3, Zenon DEF Dispatched, Started
<1> QED
  BY <1>1, <1>2, <1>4 DEF Undispatched

\* Child c of slot s is replaced by x.
Replaced(s, t, c, x) ==
    /\ t.children \in Seq(Child) /\ Len(t.children) = Len(s.children)
    /\ x.state # "Pending" => Started(t) = Started(s) \union {c}
    /\ x.state = "InFlight" => InFlight(t) = InFlight(s) \union {c}
    /\ x.state # "InFlight" => InFlight(t) = InFlight(s) \ {c}

\* Replacing one child changes that child only.
LEMMA OneChild ==
    ASSUME NEW s, SlotInv(s), NEW c \in DOMAIN s.children, NEW x \in Child, NEW t,
           t.children = [s.children EXCEPT ![c] = x]
    PROVE  Replaced(s, t, c, x)
<1>1. s.children \in Seq(Child) /\ c \in 1..Len(s.children) /\ DOMAIN s.children = 1..Len(s.children)
  BY DEF SlotInv, SlotShape
<1>2. /\ t.children \in Seq(Child) /\ Len(t.children) = Len(s.children)
      /\ \A j \in 1..Len(s.children) : t.children[j] = IF j = c THEN x ELSE s.children[j]
  BY <1>1, SeqExcept
<1>3. DOMAIN t.children = DOMAIN s.children
  BY <1>1, <1>2
<1> QED
  BY <1>1, <1>2, <1>3 DEF Started, InFlight, Replaced

\* The next child of s is in flight in t.
OneMore(s, t) ==
    /\ SlotInv(t) /\ Kept(s, t, {}) /\ IsLive(t)
    /\ Dispatched(s) + 1 \in InFlight(t) \ InFlight(s)

\* dispatch_request on the slot: one more command is in flight.
LEMMA DispatchSlot ==
    ASSUME NEW s, SlotInv(s), IsLive(s), Undispatched(s), NEW n \in Nat, NEW t,
           t = [s EXCEPT !.state = "Active", !.flight = @ + 1,
                   !.children[Dispatched(s) + 1] = [state |-> "InFlight", serial |-> n, told |-> FALSE]]
    PROVE  OneMore(s, t)
<1> DEFINE c == Dispatched(s) + 1
           x == [state |-> "InFlight", serial |-> n, told |-> FALSE]
<1>1. /\ DOMAIN t = DOMAIN s /\ t.gen = s.gen /\ t.priority = s.priority
      /\ t.children = [s.children EXCEPT ![c] = x] /\ t.flight = s.flight + 1 /\ t.state = "Active"
  BY DEF SlotInv, SlotShape
<1>2. c \in 1..Len(s.children) /\ Started(s) = 1..(c - 1) /\ c - 1 \in Nat
  BY NextChild
<1>3. c \in DOMAIN s.children
  BY <1>2 DEF SlotInv, SlotShape
<1>4. x \in Child /\ x.state = "InFlight" /\ x.state # "Pending"
  BY DEF Child
<1> HIDE DEF c, x
<1>5. /\ t.children \in Seq(Child) /\ Len(t.children) = Len(s.children)
      /\ Started(t) = Started(s) \union {c} /\ InFlight(t) = InFlight(s) \union {c}
  <2>1. Replaced(s, t, c, x)
    BY <1>1, <1>3, <1>4, OneChild, Zenon
  <2> QED
    BY <1>1, <1>3, <1>4, <2>1 DEF Replaced
<1>6. Started(t) = 1..c /\ c \in 0..Len(t.children)
  <2>1. (1..(c - 1)) \union {c} = 1..c /\ c \in 0..Len(s.children)
    BY <1>2
  <2> QED
    BY <1>2, <1>5, <2>1, Zenon
<1>7. c \notin InFlight(s)
  BY <1>2 DEF Started, InFlight
<1>8. Cardinality(InFlight(t)) = Cardinality(InFlight(s)) + 1
  BY <1>5, <1>7, InFlightFinite, FS_AddElement
<1>9. s.state # "Terminal" /\ s.state \notin Vacant /\ t.state # "Terminal" /\ t.state \notin Vacant
  BY <1>1 DEF IsLive, Vacant
<1>10. s.flight = Cardinality(InFlight(s)) /\ s.flight \in Nat
  BY <1>9 DEF SlotInv, SlotShape
<1>11. SlotInv(t)
  BY <1>1, <1>5, <1>6, <1>8, <1>10 DEF SlotInv, SlotShape
<1>12. IsLive(t)
  BY <1>1 DEF IsLive
<1> QED
  BY <1>1, <1>5, <1>7, <1>9, <1>11, <1>12 DEF Kept, OneMore, c

\* A command that is done is no longer in flight.
LEMMA DoneSlot ==
    ASSUME NEW s, SlotInv(s), NEW c \in InFlight(s), NEW t, DOMAIN t = DOMAIN s, t.gen = s.gen,
           t.priority = s.priority, t.state = s.state, t.flight = OneLess(s.flight),
           t.children = [s.children EXCEPT ![c] = [state |-> "Done", serial |-> 0, told |-> FALSE]]
    PROVE  SlotInv(t) /\ Kept(s, t, {c})
<1> DEFINE x == [state |-> "Done", serial |-> 0, told |-> FALSE]
<1>1. x \in Child /\ x.state # "Pending" /\ x.state # "InFlight"
  BY DEF Child
<1>2. c \in DOMAIN s.children /\ c \in Started(s)
  BY DEF InFlight, Started
<1> HIDE DEF x
<1>3. /\ t.children \in Seq(Child) /\ Len(t.children) = Len(s.children)
      /\ Started(t) = Started(s) \union {c} /\ InFlight(t) = InFlight(s) \ {c}
  <2>1. Replaced(s, t, c, x)
    BY <1>1, <1>2, OneChild, Zenon DEF x
  <2> QED
    BY <1>1, <1>2, <2>1 DEF Replaced
<1>4. Started(t) = Started(s)
  BY <1>2, <1>3
<1>5. Cardinality(InFlight(t)) = Cardinality(InFlight(s)) - 1 /\ Cardinality(InFlight(s)) \in Nat
  BY <1>3, InFlightFinite, FS_RemoveElement, FS_CardinalityType, Zenon
<1>6. Cardinality(InFlight(t)) \in Nat
  BY <1>3, InFlightFinite, FS_Subset, FS_CardinalityType
<1>7. s.flight \in Nat /\ (s.state # "Terminal" => s.flight = Cardinality(InFlight(s)))
  BY DEF SlotInv, SlotShape
<1>8. t.flight \in Nat /\ (s.state # "Terminal" => t.flight = Cardinality(InFlight(t)))
  BY <1>5, <1>6, <1>7, OneLessIs
<1>9. SlotInv(t)
  BY <1>3, <1>4, <1>8 DEF SlotInv, SlotShape
<1> QED
  BY <1>3, <1>9 DEF Kept, IsLive

\* Telling the driver to cancel a command leaves it in flight.
LEMMA ToldSlot ==
    ASSUME NEW s, SlotInv(s), NEW c \in InFlight(s), NEW t,
           t = [s EXCEPT !.children[c].told = TRUE]
    PROVE  SlotInv(t) /\ Kept(s, t, {})
<1> DEFINE x == [s.children[c] EXCEPT !.told = TRUE]
<1>1. c \in DOMAIN s.children /\ c \in Started(s) /\ s.children[c].state = "InFlight"
  BY DEF InFlight, Started
<1>2. s.children[c] \in Child
  BY <1>1 DEF SlotInv, SlotShape
<1>3. x \in Child /\ x.state = "InFlight" /\ x.state # "Pending"
  BY <1>1, <1>2, Zenon DEF Child
<1>4. /\ DOMAIN t = DOMAIN s /\ t.gen = s.gen /\ t.priority = s.priority /\ t.state = s.state
      /\ t.flight = s.flight /\ t.children = [s.children EXCEPT ![c] = x]
  BY DEF SlotInv, SlotShape
<1> HIDE DEF x
<1>5. /\ t.children \in Seq(Child) /\ Len(t.children) = Len(s.children)
      /\ Started(t) = Started(s) \union {c} /\ InFlight(t) = InFlight(s) \union {c}
  <2>1. Replaced(s, t, c, x)
    BY <1>1, <1>3, <1>4, OneChild, Zenon
  <2> QED
    BY <1>1, <1>3, <1>4, <2>1, Zenon DEF Replaced
<1>6. Started(t) = Started(s) /\ InFlight(t) = InFlight(s)
  BY <1>1, <1>5, Zenon
<1>7. SlotInv(t)
  BY <1>4, <1>5, <1>6, Zenon DEF SlotInv, SlotShape
<1> QED
  BY <1>4, <1>6, <1>7, Zenon DEF Kept, IsLive

-----------------------------------------------------------------------------
(* The queue                                                               *)

\* A queue of which only the requests outside S count their commands.
QueueShape(r, S) ==
    /\ DOMAIN r = {"slots", "devices", "queues", "flight", "shutdown"}
    /\ DOMAIN r.slots = Slots
    /\ \A i \in Slots : SlotShape(r.slots[i]) /\ (i \notin S => SlotInv(r.slots[i]))
    /\ DOMAIN r.devices = DeviceSlots /\ \A d \in DeviceSlots : DeviceInv(r.devices[d])
    /\ DOMAIN r.queues = Priorities /\ \A p \in Priorities : r.queues[p] \in Seq(Entry)

\* A queue in shape whose slots all count.
LEMMA ShapeInv ==
    ASSUME NEW r
    PROVE  /\ QueueInv(r) => \A S : QueueShape(r, S)
           /\ QueueShape(r, {}) => QueueInv(r)
<1>1. \A s : SlotInv(s) => SlotShape(s)
  BY DEF SlotInv
<1> QED
  BY <1>1, Zenon DEF QueueInv, QueueShape

\* The requests are the same, only further on.
SameRequests(r, u) ==
    /\ QueueInv(u)
    /\ \A i \in Slots : /\ u.slots[i].gen = r.slots[i].gen
                        /\ u.slots[i].state \in Vacant <=> r.slots[i].state \in Vacant

\* The devices are the same, and the slots but j keep their commands; slot j
\* those that are not in X.
Present(r, u) ==
    \A d \in DeviceSlots : /\ u.devices[d].present = r.devices[d].present
                           /\ u.devices[d].gen = r.devices[d].gen
KeptBut(r, u, j, X) ==
    /\ QueueInv(u) /\ Present(r, u)
    /\ \A i \in Slots : Kept(r.slots[i], u.slots[i], IF i = j THEN X ELSE {})
KeptAll(r, u) ==
    /\ QueueInv(u) /\ Present(r, u)
    /\ \A i \in Slots : Kept(r.slots[i], u.slots[i], {})

\* A queue keeps itself.
LEMMA AllSame ==
    ASSUME NEW r, QueueInv(r)
    PROVE  KeptAll(r, r)
BY KeptSame DEF KeptAll, Present

\* What two steps keep.
LEMMA AllTwice ==
    ASSUME NEW r, NEW u, NEW v, KeptAll(r, u), KeptAll(u, v)
    PROVE  KeptAll(r, v)
<1>1. \A i \in Slots : Kept(r.slots[i], v.slots[i], {})
  BY KeptTwice, Zenon DEF KeptAll
<1>2. Present(r, v)
  BY DEF KeptAll, Present
<1> QED
  BY <1>1, <1>2 DEF KeptAll

\* What two steps keep, the first of which ends commands.
LEMMA ButTwice ==
    ASSUME NEW r, NEW u, NEW v, NEW j, NEW X, KeptBut(r, u, j, X), KeptAll(u, v)
    PROVE  KeptBut(r, v, j, X)
<1>1. \A i \in Slots : Kept(r.slots[i], v.slots[i], IF i = j THEN X ELSE {})
  <2> TAKE i \in Slots
  <2>1. Kept(r.slots[i], u.slots[i], IF i = j THEN X ELSE {}) /\ Kept(u.slots[i], v.slots[i], {})
    BY Zenon DEF KeptBut, KeptAll
  <2> QED
    BY <2>1, KeptTwice
<1>2. Present(r, v)
  BY DEF KeptAll, KeptBut, Present
<1> QED
  BY <1>1, <1>2 DEF KeptAll, KeptBut

\* update_shutdown_state leaves the tables alone.
LEMMA UpdatedIs ==
    ASSUME NEW r, NEW u, u = ShutdownUpdated(r), QueueInv(r)
    PROVE  QueueInv(u) /\ u.slots = r.slots /\ u.devices = r.devices
<1>1. DOMAIN u = DOMAIN r /\ u.slots = r.slots /\ u.devices = r.devices /\ u.queues = r.queues
  BY DEF ShutdownUpdated, QueueInv
<1> QED
  BY <1>1, Zenon DEF QueueInv

\* Replacing slots.
LEMMA WithSlotsIs ==
    ASSUME NEW r, NEW S, QueueShape(r, S), NEW f, DOMAIN f \subseteq Slots, NEW T,
           \A i \in DOMAIN f : SlotShape(f[i]) /\ (i \notin T => SlotInv(f[i])),
           S \subseteq DOMAIN f \union T, NEW u, u = WithSlots(r, f)
    PROVE  /\ QueueShape(u, T) /\ u.devices = r.devices /\ u.queues = r.queues
           /\ \A i \in Slots : u.slots[i] = IF i \in DOMAIN f THEN f[i] ELSE r.slots[i]
<1>1. /\ DOMAIN u = DOMAIN r /\ u.devices = r.devices /\ u.queues = r.queues
      /\ u.slots = [i \in Slots |-> IF i \in DOMAIN f THEN f[i] ELSE r.slots[i]]
  BY DEF WithSlots, QueueShape
<1>2. /\ DOMAIN u.slots = Slots
      /\ \A i \in Slots : u.slots[i] = IF i \in DOMAIN f THEN f[i] ELSE r.slots[i]
  BY <1>1, Zenon
<1>3. ASSUME NEW i \in Slots PROVE SlotShape(u.slots[i]) /\ (i \notin T => SlotInv(u.slots[i]))
  <2>1. CASE i \in DOMAIN f
    BY <1>2, <2>1, Zenon
  <2>2. CASE i \notin DOMAIN f
    <3>1. u.slots[i] = r.slots[i] /\ (i \notin T => i \notin S)
      BY <1>2, <2>2, Zenon
    <3> QED
      BY <3>1, Zenon DEF QueueShape
  <2> QED
    BY <2>1, <2>2
<1>4. QueueShape(u, T)
  BY <1>1, <1>2, <1>3, Zenon DEF QueueShape
<1> QED
  BY <1>1, <1>2, <1>4

\* A slot whose request, commands and counts are those of another.
Alike(s, t) ==
    /\ DOMAIN t = DOMAIN s /\ t.gen = s.gen /\ t.priority = s.priority /\ t.children = s.children
    /\ t.flight = s.flight /\ t.state = s.state

\* Such slots satisfy the same invariants.
LEMMA AlikeInv ==
    ASSUME NEW s, NEW t, Alike(s, t)
    PROVE  /\ SlotShape(s) => SlotShape(t)
           /\ SlotInv(s) => SlotInv(t)
           /\ InFlight(t) = InFlight(s)
<1>1. Started(t) = Started(s) /\ InFlight(t) = InFlight(s)
  BY DEF Alike, Started, InFlight
<1>2. SlotShape(s) => SlotShape(t)
  BY <1>1 DEF Alike, SlotShape
<1> QED
  BY <1>1, <1>2 DEF Alike, SlotInv

\* remove_queued_entry: the slots only lose their mark.
LEMMA RemovedIs ==
    ASSUME NEW r, NEW T, QueueShape(r, T), NEW S \in SUBSET Slots, NEW u, u = EntriesRemoved(r, S)
    PROVE  /\ QueueShape(u, T) /\ u.devices = r.devices
           /\ \A i \in Slots : Alike(r.slots[i], u.slots[i]) /\ (i \notin S => u.slots[i] = r.slots[i])
<1> DEFINE f == [i \in S |-> [r.slots[i] EXCEPT !.queued = FALSE]]
           w == WithSlots(r, f)
<1>1. DOMAIN f = S /\ \A i \in S : f[i] = [r.slots[i] EXCEPT !.queued = FALSE]
  OBVIOUS
<1>2. \A i \in Slots : SlotShape(r.slots[i]) /\ (i \notin T => SlotInv(r.slots[i]))
  BY Zenon DEF QueueShape
<1> HIDE DEF f
<1>3. ASSUME NEW i \in S PROVE Alike(r.slots[i], f[i])
  <2>1. SlotShape(r.slots[i]) /\ f[i] = [r.slots[i] EXCEPT !.queued = FALSE]
    BY <1>1, <1>2, Zenon
  <2> QED
    BY <2>1 DEF Alike, SlotShape
<1>4. \A i \in DOMAIN f : SlotShape(f[i]) /\ (i \notin T => SlotInv(f[i]))
  BY <1>1, <1>2, <1>3, AlikeInv, Zenon
<1>5. /\ QueueShape(w, T) /\ w.devices = r.devices
      /\ \A i \in Slots : w.slots[i] = IF i \in DOMAIN f THEN f[i] ELSE r.slots[i]
  <2>1. DOMAIN f \subseteq Slots /\ T \subseteq DOMAIN f \union T
    BY <1>1
  <2>2. w = WithSlots(r, f)
    OBVIOUS
  <2> HIDE DEF w
  <2> QED
    BY <1>4, <2>1, <2>2, WithSlotsIs
<1>6. u = [w EXCEPT !.queues = [p \in Priorities |-> Without(r.queues[p], EntriesOf(r, p, S))]]
  BY DEF EntriesRemoved, f
<1> HIDE DEF w
<1>7. /\ DOMAIN u = DOMAIN w /\ u.slots = w.slots /\ u.devices = w.devices
      /\ u.queues = [p \in Priorities |-> Without(r.queues[p], EntriesOf(r, p, S))]
  BY <1>5, <1>6 DEF QueueShape
<1>8. \A p \in Priorities : u.queues[p] \in Seq(Entry)
  <2> TAKE p \in Priorities
  <2>1. r.queues[p] \in Seq(Entry) /\ u.queues[p] = Without(r.queues[p], EntriesOf(r, p, S))
    BY <1>7, Zenon DEF QueueShape
  <2> QED
    BY <2>1, WithoutType
<1>9. QueueShape(u, T)
  BY <1>5, <1>7, <1>8, Zenon DEF QueueShape
<1>10. ASSUME NEW i \in Slots
       PROVE  Alike(r.slots[i], u.slots[i]) /\ (i \notin S => u.slots[i] = r.slots[i])
  <2>1. CASE i \in S
    BY <1>1, <1>3, <1>5, <1>7, <2>1, Zenon
  <2>2. CASE i \notin S
    <3>1. u.slots[i] = r.slots[i]
      BY <1>1, <1>5, <1>7, <2>2, Zenon
    <3> QED
      BY <2>2, <3>1 DEF Alike
  <2> QED
    BY <2>1, <2>2
<1> QED
  BY <1>5, <1>7, <1>9, <1>10, Zenon

\* A slot that ends need not count any more.
LEMMA EndedInv ==
    ASSUME NEW s, SlotShape(s), NEW t, t = Ended(s)
    PROVE  SlotInv(t) /\ t.state = "Terminal" /\ t.gen = s.gen /\ t.children = s.children
<1>1. /\ DOMAIN t = DOMAIN s /\ t.gen = s.gen /\ t.priority = s.priority /\ t.children = s.children
      /\ t.flight = s.flight /\ t.state = "Terminal"
  BY DEF Ended, SlotShape
<1>2. Started(t) = Started(s)
  BY <1>1 DEF Started
<1>3. SlotShape(t)
  BY <1>1, <1>2, Zenon DEF SlotShape
<1> QED
  BY <1>1, <1>3 DEF SlotInv

\* mark_terminal: the requests of S end, the others are not touched.
LEMMA FinishedIs ==
    ASSUME NEW r, NEW S \in SUBSET Slots, QueueShape(r, S), NEW u, u = Finished(r, S)
    PROVE  /\ QueueInv(u) /\ u.devices = r.devices
           /\ \A i \in Slots : /\ u.slots[i].gen = r.slots[i].gen
                               /\ i \in S => /\ u.slots[i].state = "Terminal"
                                             /\ u.slots[i].children = r.slots[i].children
                               /\ i \notin S => u.slots[i] = r.slots[i]
<1> DEFINE e == EntriesRemoved(r, S)
           f == [i \in S |-> Ended(e.slots[i])]
           w == WithSlots(e, f)
<1>1. u = ShutdownUpdated(w)
  BY DEF Finished
<1>2. w = WithSlots(e, f) /\ DOMAIN f = S /\ \A i \in S : f[i] = Ended(e.slots[i])
  OBVIOUS
<1>3. e = EntriesRemoved(r, S)
  OBVIOUS
<1> HIDE DEF w, f, e
<1>4. /\ QueueShape(e, S) /\ e.devices = r.devices
      /\ \A i \in Slots : Alike(r.slots[i], e.slots[i]) /\ (i \notin S => e.slots[i] = r.slots[i])
  BY <1>3, RemovedIs
<1>5. \A i \in S : SlotShape(e.slots[i])
  BY <1>4 DEF QueueShape
<1>6. \A i \in S : /\ SlotInv(f[i]) /\ f[i].state = "Terminal" /\ f[i].gen = e.slots[i].gen
                   /\ f[i].children = e.slots[i].children
  BY <1>2, <1>5, EndedInv, Zenon
<1>7. \A i \in DOMAIN f : SlotShape(f[i]) /\ (i \notin {} => SlotInv(f[i]))
  BY <1>2, <1>6, Zenon DEF SlotInv
<1>8. DOMAIN f \subseteq Slots /\ S \subseteq DOMAIN f \union {}
  BY <1>2
<1>9. /\ QueueShape(w, {}) /\ w.devices = e.devices
      /\ \A i \in Slots : w.slots[i] = IF i \in DOMAIN f THEN f[i] ELSE e.slots[i]
  BY <1>2, <1>4, <1>7, <1>8, WithSlotsIs
<1>10. QueueInv(u) /\ u.slots = w.slots /\ u.devices = w.devices
  BY <1>1, <1>9, ShapeInv, UpdatedIs
<1>11. ASSUME NEW i \in Slots
       PROVE  /\ u.slots[i].gen = r.slots[i].gen
              /\ i \in S => u.slots[i].state = "Terminal" /\ u.slots[i].children = r.slots[i].children
              /\ i \notin S => u.slots[i] = r.slots[i]
  <2>1. CASE i \in S
    <3>1. /\ u.slots[i] = f[i] /\ e.slots[i].gen = r.slots[i].gen
          /\ e.slots[i].children = r.slots[i].children
      BY <1>2, <1>4, <1>9, <1>10, <2>1, Zenon DEF Alike
    <3> QED
      BY <1>6, <2>1, <3>1, Zenon
  <2>2. CASE i \notin S
    <3>1. u.slots[i] = r.slots[i]
      BY <1>2, <1>4, <1>9, <1>10, <2>2, Zenon
    <3> QED
      BY <2>2, <3>1
  <2> QED
    BY <2>1, <2>2
<1> QED
  BY <1>4, <1>9, <1>10, <1>11, Zenon

\* abort_request keeps the commands in flight: it ends only requests without any.
LEMMA AbortedIs ==
    ASSUME NEW r, QueueInv(r), NEW S \in SUBSET LiveSlots(r), NEW o, NEW u, u = Aborted(r, S, o)
    PROVE  KeptAll(r, u)
<1> DEFINE f == [i \in S |-> [r.slots[i] EXCEPT !.pending = o]]
           w == WithSlots(r, f)
           a == EntriesRemoved(w, S)
           F == {i \in S : r.slots[i].flight = 0}
<1>1. u = Finished(a, F)
  BY DEF Aborted, Aborting
<1>2. w = WithSlots(r, f) /\ DOMAIN f = S /\ \A i \in S : f[i] = [r.slots[i] EXCEPT !.pending = o]
  OBVIOUS
<1>3. /\ a = EntriesRemoved(w, S) /\ F \in SUBSET Slots /\ F \subseteq S
      /\ \A i \in F : r.slots[i].flight = 0
  BY DEF LiveSlots
<1>4. S \in SUBSET Slots /\ \A i \in S : IsLive(r.slots[i])
  BY DEF LiveSlots
<1>5. \A i \in Slots : SlotInv(r.slots[i]) /\ SlotShape(r.slots[i])
  BY Zenon DEF QueueInv, SlotInv
<1> HIDE DEF f, w, a, F
<1>6. ASSUME NEW i \in S PROVE Alike(r.slots[i], f[i])
  <2>1. SlotShape(r.slots[i]) /\ f[i] = [r.slots[i] EXCEPT !.pending = o]
    BY <1>2, <1>4, <1>5, Zenon
  <2> QED
    BY <2>1 DEF Alike, SlotShape
<1>7. \A i \in DOMAIN f : SlotShape(f[i]) /\ (i \notin {} => SlotInv(f[i]))
  BY <1>2, <1>4, <1>5, <1>6, AlikeInv, Zenon
<1>8. QueueShape(r, {}) /\ DOMAIN f \subseteq Slots /\ {} \subseteq DOMAIN f \union {}
  BY <1>2, <1>4, ShapeInv
<1>9. /\ QueueShape(w, {}) /\ w.devices = r.devices
      /\ \A i \in Slots : w.slots[i] = IF i \in DOMAIN f THEN f[i] ELSE r.slots[i]
  BY <1>2, <1>7, <1>8, WithSlotsIs
<1>10. /\ QueueShape(a, {}) /\ a.devices = w.devices
       /\ \A i \in Slots : Alike(w.slots[i], a.slots[i])
  BY <1>3, <1>4, <1>9, RemovedIs
<1>11. QueueShape(a, F)
  BY <1>10, ShapeInv
<1>12. /\ QueueInv(u) /\ u.devices = a.devices
       /\ \A i \in Slots : /\ u.slots[i].gen = a.slots[i].gen
                           /\ i \in F => u.slots[i].state = "Terminal"
                           /\ i \notin F => u.slots[i] = a.slots[i]
  BY <1>1, <1>3, <1>11, FinishedIs
<1>13. \A i \in Slots : Alike(r.slots[i], a.slots[i])
  <2> TAKE i \in Slots
  <2>1. Alike(r.slots[i], w.slots[i])
    <3>1. CASE i \in S
      BY <1>2, <1>6, <1>9, <3>1, Zenon
    <3>2. CASE i \notin S
      <4>1. w.slots[i] = r.slots[i]
        BY <1>2, <1>9, <3>2, Zenon
      <4> QED
        BY <4>1 DEF Alike
    <3> QED
      BY <3>1, <3>2
  <2>2. Alike(w.slots[i], a.slots[i])
    BY <1>10, Zenon
  <2> QED
    BY <2>1, <2>2, Zenon DEF Alike
<1>14. ASSUME NEW i \in Slots PROVE Kept(r.slots[i], u.slots[i], {})
  <2>1. CASE i \in F
    <3>1. r.slots[i].flight = 0 /\ IsLive(r.slots[i]) /\ SlotInv(r.slots[i])
      BY <1>3, <1>4, <1>5, <2>1, Zenon
    <3>2. r.slots[i].state # "Terminal" /\ r.slots[i].state \notin Vacant
      BY <3>1 DEF IsLive, Vacant
    <3>3. InFlight(r.slots[i]) = {}
      BY <3>1, <3>2, NoneInFlight
    <3>4. u.slots[i].state \notin Vacant /\ u.slots[i].gen = r.slots[i].gen
      BY <1>12, <1>13, <2>1 DEF Vacant, Alike
    <3> QED
      BY <3>2, <3>3, <3>4, KeptIdle
  <2>2. CASE i \notin F
    <3>1. Alike(r.slots[i], u.slots[i])
      BY <1>12, <1>13, <2>2, Zenon
    <3>2. InFlight(u.slots[i]) = InFlight(r.slots[i])
      BY <3>1, AlikeInv
    <3> QED
      BY <3>1, <3>2 DEF Alike, Kept, IsLive
  <2> QED
    BY <2>1, <2>2
<1>15. Present(r, u)
  BY <1>9, <1>10, <1>12, Zenon DEF Present
<1> QED
  BY <1>12, <1>14, <1>15, Zenon DEF KeptAll

\* expire_deadlines
LEMMA ExpiredIs ==
    ASSUME NEW r, QueueInv(r), NEW u, u = Expired(r)
    PROVE  KeptAll(r, u)
<1> DEFINE S == {i \in Slots : IsExpired(r.slots[i])}
<1>1. S \in SUBSET LiveSlots(r) /\ u = IF S = {} THEN r ELSE Aborted(r, S, "TimedOut")
  BY DEF LiveSlots, IsExpired, Expired
<1> HIDE DEF S
<1> QED
  BY <1>1, AbortedIs, AllSame

\* fail_device_requests: the requests are still those of their slots.
LEMMA FailedIs ==
    ASSUME NEW r, QueueInv(r), NEW E, NEW o, NEW u, u = Failed(r, E, o)
    PROVE  SameRequests(r, u) /\ u.devices = r.devices
<1> DEFINE S == {i \in LiveSlots(r) : r.slots[i].device \in E}
           f == [i \in S |-> FailedSlot(r.slots[i], o)]
           w == WithSlots(r, f)
<1>1. u = Finished(w, S)
  BY DEF Failed
<1>2. w = WithSlots(r, f) /\ DOMAIN f = S /\ \A i \in S : f[i] = FailedSlot(r.slots[i], o)
  OBVIOUS
<1>3. S \in SUBSET Slots /\ \A i \in S : IsLive(r.slots[i])
  BY DEF LiveSlots
<1>4. \A i \in Slots : SlotShape(r.slots[i])
  BY Zenon DEF QueueInv, SlotInv
<1> HIDE DEF S, f, w
<1>5. ASSUME NEW i \in S PROVE SlotShape(f[i]) /\ f[i].gen = r.slots[i].gen
  <2>1. SlotShape(r.slots[i]) /\ f[i] = FailedSlot(r.slots[i], o)
    BY <1>2, <1>3, <1>4, Zenon
  <2>2. /\ DOMAIN f[i] = DOMAIN r.slots[i] /\ f[i].gen = r.slots[i].gen /\ f[i].flight = 0
        /\ f[i].priority = r.slots[i].priority /\ f[i].children = r.slots[i].children
    BY <2>1 DEF FailedSlot, SlotShape
  <2>3. Started(f[i]) = Started(r.slots[i])
    BY <2>2 DEF Started
  <2> QED
    BY <2>1, <2>2, <2>3 DEF SlotShape
<1>6. \A i \in DOMAIN f : SlotShape(f[i]) /\ (i \notin S => SlotInv(f[i]))
  BY <1>2, <1>5, Zenon
<1>7. QueueShape(r, S) /\ DOMAIN f \subseteq Slots /\ S \subseteq DOMAIN f \union S
  BY <1>2, <1>3, ShapeInv
<1>8. /\ QueueShape(w, S) /\ w.devices = r.devices
      /\ \A i \in Slots : w.slots[i] = IF i \in DOMAIN f THEN f[i] ELSE r.slots[i]
  BY <1>2, <1>6, <1>7, WithSlotsIs
<1>9. /\ QueueInv(u) /\ u.devices = w.devices
      /\ \A i \in Slots : /\ u.slots[i].gen = w.slots[i].gen
                          /\ i \in S => u.slots[i].state = "Terminal"
                          /\ i \notin S => u.slots[i] = w.slots[i]
  BY <1>1, <1>3, <1>8, FinishedIs
<1>10. ASSUME NEW i \in Slots
       PROVE  /\ u.slots[i].gen = r.slots[i].gen
              /\ u.slots[i].state \in Vacant <=> r.slots[i].state \in Vacant
  <2>1. CASE i \in S
    <3>1. u.slots[i].gen = r.slots[i].gen /\ u.slots[i].state = "Terminal" /\ IsLive(r.slots[i])
      <4>1. w.slots[i] = f[i] /\ f[i].gen = r.slots[i].gen
        BY <1>2, <1>5, <1>8, <2>1, Zenon
      <4> QED
        BY <1>3, <1>9, <2>1, <4>1, Zenon
    <3> QED
      BY <3>1 DEF IsLive, Vacant
  <2>2. CASE i \notin S
    BY <1>2, <1>8, <1>9, <2>2, Zenon
  <2> QED
    BY <2>1, <2>2
<1> QED
  BY <1>8, <1>9, <1>10, Zenon DEF SameRequests

-----------------------------------------------------------------------------
(* Dispatch                                                                *)

\* A step on one device that stays present.
LEMMA OneDevice ==
    ASSUME NEW r, QueueInv(r), NEW d \in DeviceSlots, NEW x, DeviceInv(x),
           x.present = r.devices[d].present, x.gen = r.devices[d].gen,
           NEW u, u = [r EXCEPT !.devices[d] = x]
    PROVE  KeptAll(r, u) /\ u.slots = r.slots /\ u.queues = r.queues /\ u.devices[d] = x
<1>1. /\ DOMAIN u = DOMAIN r /\ u.slots = r.slots /\ u.queues = r.queues
      /\ u.devices = [r.devices EXCEPT ![d] = x] /\ DOMAIN r.devices = DeviceSlots
  BY DEF QueueInv
<1>2. DOMAIN u.devices = DeviceSlots /\ \A e \in DeviceSlots : u.devices[e] = IF e = d THEN x ELSE r.devices[e]
  BY <1>1
<1>3. QueueInv(u)
  <2>1. \A e \in DeviceSlots : DeviceInv(u.devices[e])
    BY <1>2, Zenon DEF QueueInv
  <2> QED
    BY <1>1, <1>2, <2>1, Zenon DEF QueueInv
<1>4. Present(r, u)
  BY <1>2, Zenon DEF Present
<1>5. \A i \in Slots : Kept(r.slots[i], u.slots[i], {})
  BY <1>1, KeptSame, Zenon
<1> QED
  BY <1>1, <1>2, <1>3, <1>4, <1>5, Zenon DEF KeptAll

\* What the choice of a request returns: the queue keeps its commands, and the
\* request found has a child left to dispatch.
Choice(r, t) ==
    /\ DOMAIN t = {"found", "q"}
    /\ KeptAll(r, t.q)
    /\ t.found # None => /\ t.found \in Slots
                         /\ IsLive(t.q.slots[t.found]) /\ Undispatched(t.q.slots[t.found])

\* take_eligible: the entry found is of a live request with children left.
LEMMA TakenIs ==
    ASSUME NEW r, QueueInv(r), NEW d, NEW p \in Priorities, NEW aged,
           Positions(r, d, p, aged) # {}, NEW t, t = Taken(r, d, p, aged)
    PROVE  Choice(r, t) /\ t.q.devices = r.devices
<1> DEFINE n == Min(Positions(r, d, p, aged))
           w == r.queues[p]
           i == w[n].id.slot
           u == [r EXCEPT !.queues[p] = SubSeq(w, n + 1, Len(w)) \o SubSeq(w, 1, n - 1),
                          !.slots[i].queued = FALSE]
<1>1. t = [found |-> i, q |-> u]
  BY DEF Taken
<1>2. w \in Seq(Entry) /\ DOMAIN r.queues = Priorities
  BY Zenon DEF QueueInv
<1>3. Positions(r, d, p, aged) \in SUBSET Nat
  <2>1. DOMAIN w \subseteq Nat
    BY <1>2
  <2> QED
    BY <2>1 DEF Positions
<1>4. n \in Positions(r, d, p, aged)
  BY <1>3, MinIn
<1>5. n \in DOMAIN w /\ IsEligible(r, d, w[n], aged)
  BY <1>4 DEF Positions
<1>6. i \in Slots /\ IsLive(r.slots[i]) /\ Undispatched(r.slots[i])
  <2>1. w[n] \in Entry
    BY <1>2, <1>5
  <2>2. i \in Slots
    BY <2>1 DEF Entry, Id
  <2> QED
    BY <1>5, <2>2, Zenon DEF IsEligible, IsDispatchable
<1>7. SubSeq(w, n + 1, Len(w)) \o SubSeq(w, 1, n - 1) \in Seq(Entry)
  BY <1>2, <1>5, RotatedType
<1> DEFINE v == SubSeq(w, n + 1, Len(w)) \o SubSeq(w, 1, n - 1)
           s == [r.slots[i] EXCEPT !.queued = FALSE]
<1>8. /\ DOMAIN u = DOMAIN r /\ u.devices = r.devices /\ u.queues = [r.queues EXCEPT ![p] = v]
      /\ u.slots = [r.slots EXCEPT ![i] = s]
  BY DEF QueueInv
<1>9. SlotInv(r.slots[i]) /\ SlotShape(r.slots[i]) /\ DOMAIN r.slots = Slots
  BY <1>6, Zenon DEF QueueInv, SlotInv
<1>10. Alike(r.slots[i], s)
  BY <1>9, Zenon DEF Alike, SlotShape
<1> HIDE DEF s, v, u, i, n, w
<1>11. \A j \in Slots : u.slots[j] = IF j = i THEN s ELSE r.slots[j]
  BY <1>8, <1>9
<1>12. DOMAIN u.slots = Slots
  BY <1>8, <1>9
<1>13. SlotInv(s) /\ InFlight(s) = InFlight(r.slots[i])
  BY <1>9, <1>10, AlikeInv
<1>14. \A k \in Priorities : u.queues[k] \in Seq(Entry)
  BY <1>2, <1>7, <1>8 DEF QueueInv, v
<1>15. DOMAIN u.queues = Priorities
  BY <1>2, <1>8
<1>16. QueueInv(u)
  <2>1. \A j \in Slots : SlotInv(u.slots[j])
    BY <1>11, <1>13, Zenon DEF QueueInv
  <2> QED
    BY <1>8, <1>12, <1>14, <1>15, <2>1, Zenon DEF QueueInv
<1>17. Kept(r.slots[i], s, {})
  BY <1>10, <1>13 DEF Alike, Kept, IsLive
<1>18. \A j \in Slots : Kept(r.slots[j], u.slots[j], {})
  BY <1>11, <1>17, KeptSame, Zenon
<1>19. KeptAll(r, u)
  BY <1>8, <1>16, <1>18, Zenon DEF KeptAll, Present
<1>20. IsLive(u.slots[i]) /\ Undispatched(u.slots[i])
  <2>1. u.slots[i] = s
    BY <1>6, <1>11, Zenon
  <2> QED
    BY <1>6, <1>10, <2>1, Zenon DEF Alike, IsLive, Undispatched, Dispatched
<1>21. DOMAIN t = {"found", "q"} /\ t.q = u /\ t.found = i
  BY <1>1
<1> QED
  BY <1>6, <1>8, <1>19, <1>20, <1>21, Zenon DEF Choice

\* Choosing again after a step.
LEMMA ChoiceAfter ==
    ASSUME NEW r, NEW u, NEW t, KeptAll(r, u), Choice(u, t)
    PROVE  Choice(r, t)
BY AllTwice, Zenon DEF Choice

\* No request is found.
LEMMA NoChoice ==
    ASSUME NEW r, NEW u, KeptAll(r, u), NEW t, t = [found |-> None, q |-> u]
    PROVE  Choice(r, t)
<1>1. DOMAIN t = {"found", "q"} /\ t.found = None /\ t.q = u
  OBVIOUS
<1> QED
  BY <1>1, Zenon DEF Choice

\* A turn of the weighted loop.
LEMMA FairTurnIs ==
    ASSUME NEW r, QueueInv(r), NEW d \in DeviceSlots, NEW t, t = FairTurn(r, d)
    PROVE  Choice(r, t)
<1> DEFINE p == r.devices[d].cursor
           a == Refilled(r, d)
           b == [a EXCEPT !.devices[d].cursor = (p + 1) % 3]
           x == [r.devices[d] EXCEPT !.credits = Weights]
           y == [a.devices[d] EXCEPT !.cursor = (p + 1) % 3]
<1>1. DeviceInv(r.devices[d]) /\ DOMAIN r.devices = DeviceSlots
  BY Zenon DEF QueueInv
<1>2. p \in Priorities /\ (p + 1) % 3 \in Priorities
  BY <1>1 DEF DeviceInv, Priorities
<1>3. KeptAll(r, a)
  <2>1. DeviceInv(x) /\ x.present = r.devices[d].present /\ x.gen = r.devices[d].gen
    BY <1>1 DEF DeviceInv
  <2>2. a = r \/ a = [r EXCEPT !.devices[d] = x]
    BY DEF Refilled
  <2> HIDE DEF x, a
  <2> QED
    BY <2>1, <2>2, AllSame, OneDevice
<1>4. QueueInv(a) /\ DeviceInv(a.devices[d])
  BY <1>3, Zenon DEF KeptAll, QueueInv
<1>5. KeptAll(a, b)
  <2>1. b = [a EXCEPT !.devices[d] = y]
    OBVIOUS
  <2>2. DeviceInv(y) /\ y.present = a.devices[d].present /\ y.gen = a.devices[d].gen
    BY <1>2, <1>4 DEF DeviceInv
  <2> HIDE DEF y, b, a, p
  <2> QED
    BY <1>4, <2>1, <2>2, OneDevice
<1>6. t = IF b.devices[d].credits[p] = 0 THEN [found |-> None, q |-> b]
          ELSE IF Positions(b, d, p, FALSE) = {}
               THEN [found |-> None, q |-> [b EXCEPT !.devices[d].credits[p] = 0]]
               ELSE [Taken(b, d, p, FALSE) EXCEPT !.q.devices[d].credits[p] = @ - 1]
  BY Zenon DEF FairTurn
<1> HIDE DEF a, b, p, x, y
<1>7. KeptAll(r, b) /\ QueueInv(b)
  BY <1>3, <1>5, AllTwice, Zenon DEF KeptAll
<1>8. CASE b.devices[d].credits[p] = 0
  BY <1>6, <1>7, <1>8, NoChoice
<1>9. CASE b.devices[d].credits[p] # 0 /\ Positions(b, d, p, FALSE) = {}
  <2> DEFINE z == [b.devices[d] EXCEPT !.credits[p] = 0]
             c == [b EXCEPT !.devices[d].credits[p] = 0]
  <2>1. DeviceInv(b.devices[d])
    BY <1>7, Zenon DEF QueueInv
  <2>2. DeviceInv(z) /\ z.present = b.devices[d].present /\ z.gen = b.devices[d].gen
    BY <2>1 DEF DeviceInv
  <2>3. c = [b EXCEPT !.devices[d] = z] /\ t = [found |-> None, q |-> c]
    BY <1>6, <1>9
  <2> HIDE DEF z, c
  <2>4. KeptAll(b, c)
    BY <1>7, <2>2, <2>3, OneDevice
  <2> QED
    BY <1>7, <2>3, <2>4, AllTwice, NoChoice
<1>10. CASE b.devices[d].credits[p] # 0 /\ Positions(b, d, p, FALSE) # {}
  <2> DEFINE k == Taken(b, d, p, FALSE)
             z == [k.q.devices[d] EXCEPT !.credits[p] = @ - 1]
             c == [k.q EXCEPT !.devices[d].credits[p] = @ - 1]
  <2>1. Choice(b, k)
    BY <1>2, <1>7, <1>10, TakenIs, Zenon
  <2>2. QueueInv(k.q) /\ DeviceInv(k.q.devices[d])
    BY <2>1, Zenon DEF Choice, KeptAll, QueueInv
  <2>3. DeviceInv(z) /\ z.present = k.q.devices[d].present /\ z.gen = k.q.devices[d].gen
    <3> HIDE DEF k
    <3> QED
      BY <2>2 DEF DeviceInv
  <2>4. c = [k.q EXCEPT !.devices[d] = z]
    OBVIOUS
  <2>5. t = [k EXCEPT !.q = c]
    BY <1>6, <1>10, Zenon
  <2> HIDE DEF k, z, c
  <2>6. KeptAll(k.q, c) /\ c.slots = k.q.slots
    BY <2>2, <2>3, <2>4, OneDevice
  <2>7. DOMAIN t = {"found", "q"} /\ t.q = c /\ t.found = k.found
    BY <2>1, <2>5 DEF Choice
  <2>8. KeptAll(b, c)
    BY <2>1, <2>6, AllTwice, Zenon DEF Choice
  <2>9. Choice(b, t)
    BY <2>1, <2>6, <2>7, <2>8, Zenon DEF Choice
  <2> QED
    BY <1>7, <2>9, ChoiceAfter
<1> QED
  BY <1>8, <1>9, <1>10, Zenon

\* Further turns.
LEMMA TurnIs ==
    ASSUME NEW r, NEW d \in DeviceSlots, NEW k, Choice(r, k), NEW t, t = Turn(k, d)
    PROVE  Choice(r, t)
<1>1. CASE k.found # None
  BY <1>1 DEF Turn
<1>2. CASE k.found = None
  <2>1. KeptAll(r, k.q) /\ QueueInv(k.q) /\ t = FairTurn(k.q, d)
    BY <1>2, Zenon DEF Turn, Choice, KeptAll
  <2> QED
    BY <2>1, FairTurnIs, ChoiceAfter
<1> QED
  BY <1>1, <1>2

\* A round of turns.
LEMMA RoundIs ==
    ASSUME NEW r, NEW d \in DeviceSlots, NEW k, Choice(r, k)
    PROVE  Choice(r, Round(k, d))
<1>1. Choice(r, Turn(k, d))
  BY TurnIs
<1>2. Choice(r, Turn(Turn(k, d), d))
  BY <1>1, TurnIs
<1> QED
  BY <1>2, TurnIs DEF Round

\* select_request
LEMMA SelectedIs ==
    ASSUME NEW r, QueueInv(r), NEW d \in DeviceSlots, NEW t, t = Selected(r, d)
    PROVE  Choice(r, t)
<1>1. Background \in Priorities
  BY DEF Background, Priorities
<1>2. CASE Positions(r, d, Background, TRUE) # {}
  BY <1>1, <1>2, TakenIs, Zenon DEF Selected
<1>3. CASE Positions(r, d, Background, TRUE) = {} /\ r.devices[d].passed >= Interval
           /\ Positions(r, d, Background, FALSE) # {}
  BY <1>1, <1>3, TakenIs, Zenon DEF Selected
<1>4. CASE t = FairSelected(r, d)
  <2> DEFINE k == [found |-> None, q |-> r]
  <2>1. Choice(r, k)
    BY AllSame, NoChoice
  <2>2. t = Round(Round(k, d), d)
    BY <1>4 DEF FairSelected
  <2> HIDE DEF k
  <2>3. Choice(r, Round(k, d))
    BY <2>1, RoundIs
  <2> QED
    BY <2>2, <2>3, RoundIs
<1> QED
  BY <1>2, <1>3, <1>4, Zenon DEF Selected

\* The device table is in order, and its devices are still there.
Devices(r, u) ==
    DOMAIN u.devices = DeviceSlots /\ (\A d \in DeviceSlots : DeviceInv(u.devices[d])) /\ Present(r, u)
Waiting(u) == DOMAIN u.queues = Priorities /\ \A p \in Priorities : u.queues[p] \in Seq(Entry)

\* Slot i holds x instead, and its commands but those of X are kept.
Stored(r, u, i, x) ==
    DOMAIN u = DOMAIN r /\ u.slots = [r.slots EXCEPT ![i] = x] /\ Devices(r, u) /\ Waiting(u)
SlotKept(r, u, i, x, X) ==
    KeptBut(r, u, i, X) /\ \A j \in Slots : u.slots[j] = IF j = i THEN x ELSE r.slots[j]

\* A step on one slot.
LEMMA OneSlot ==
    ASSUME NEW r, QueueInv(r), NEW i \in Slots, NEW x, SlotInv(x), NEW X, Kept(r.slots[i], x, X),
           NEW u, Stored(r, u, i, x)
    PROVE  SlotKept(r, u, i, x, X)
<1>1. DOMAIN r.slots = Slots
  BY Zenon DEF QueueInv
<1>2. DOMAIN u.slots = Slots /\ \A j \in Slots : u.slots[j] = IF j = i THEN x ELSE r.slots[j]
  BY <1>1 DEF Stored
<1>3. QueueInv(u)
  <2>1. \A j \in Slots : SlotInv(u.slots[j])
    BY <1>2, Zenon DEF QueueInv
  <2> QED
    BY <1>2, <2>1, Zenon DEF QueueInv, Devices, Waiting, Stored
<1>4. ASSUME NEW j \in Slots PROVE Kept(r.slots[j], u.slots[j], IF j = i THEN X ELSE {})
  <2>1. CASE j = i
    BY <1>2, <2>1, Zenon
  <2>2. CASE j # i
    BY <1>2, <2>2, KeptSame, Zenon
  <2> QED
    BY <2>1, <2>2
<1> QED
  BY <1>2, <1>3, <1>4, Zenon DEF KeptBut, Devices, Stored, SlotKept

\* Ending no command keeps all.
LEMMA ButNone ==
    ASSUME NEW r, NEW u, NEW i, KeptBut(r, u, i, {})
    PROVE  KeptAll(r, u)
<1>1. \A j \in Slots : (IF j = i THEN {} ELSE {}) = {}
  OBVIOUS
<1> QED
  BY <1>1 DEF KeptBut, KeptAll

\* enqueue
LEMMA EnqueuedIs ==
    ASSUME NEW r, QueueInv(r), NEW i \in Slots, NEW u, u = Enqueued(r, i)
    PROVE  /\ KeptAll(r, u) /\ u.devices = r.devices
           /\ \A j \in Slots : Alike(r.slots[j], u.slots[j])
<1> DEFINE s == r.slots[i]
           e == [id |-> IdOf(r, i), age |-> 0]
           x == [s EXCEPT !.queued = TRUE]
<1>1. SlotInv(s) /\ SlotShape(s) /\ DOMAIN r.slots = Slots
  BY Zenon DEF QueueInv, SlotInv
<1>2. s.priority \in Priorities /\ r.queues[s.priority] \in Seq(Entry) /\ DOMAIN r.queues = Priorities
  BY <1>1, Zenon DEF SlotShape, QueueInv
<1>3. e \in Entry
  BY <1>1 DEF Entry, Id, IdOf, SlotShape
<1>4. /\ DOMAIN u = DOMAIN r /\ u.devices = r.devices /\ u.slots = [r.slots EXCEPT ![i] = x]
      /\ u.queues = [r.queues EXCEPT ![s.priority] = Append(@, e)]
  BY DEF Enqueued, QueueInv
<1>5. Alike(s, x)
  BY <1>1 DEF Alike, SlotShape
<1> HIDE DEF s, e, x
<1>6. Waiting(u)
  <2>1. Append(r.queues[s.priority], e) \in Seq(Entry)
    BY <1>2, <1>3
  <2>2. DOMAIN u.queues = Priorities
    BY <1>2, <1>4
  <2>3. \A p \in Priorities : u.queues[p] = IF p = s.priority THEN Append(r.queues[s.priority], e) ELSE r.queues[p]
    BY <1>2, <1>4
  <2> QED
    BY <2>1, <2>2, <2>3, Zenon DEF Waiting, QueueInv
<1>7. Devices(r, u)
  BY <1>4, Zenon DEF Devices, QueueInv, Present
<1>8. SlotInv(x) /\ InFlight(x) = InFlight(s)
  BY <1>1, <1>5, AlikeInv
<1>9. Kept(r.slots[i], x, {})
  BY <1>5, <1>8 DEF Alike, Kept, IsLive, s
<1>10. KeptBut(r, u, i, {}) /\ \A j \in Slots : u.slots[j] = IF j = i THEN x ELSE r.slots[j]
  <2>1. Stored(r, u, i, x)
    BY <1>4, <1>6, <1>7 DEF Stored
  <2>2. SlotKept(r, u, i, x, {})
    BY <1>8, <1>9, <2>1, OneSlot
  <2> QED
    BY <2>2 DEF SlotKept
<1>11. \A j \in Slots : Alike(r.slots[j], u.slots[j])
  BY <1>5, <1>10 DEF Alike, s
<1> QED
  BY <1>4, <1>10, <1>11, ButNone, Zenon

\* What a dispatch returns: the queue keeps its commands, and the token is that
\* of the final flush or of a command that was not in flight before.
Dispatch(r, u) ==
    /\ DOMAIN u = {"q", "token"}
    /\ KeptAll(r, u.q)
    /\ u.token # None /\ ~u.token.final =>
          /\ u.token.id.slot \in Slots
          /\ IsLive(u.q.slots[u.token.id.slot])
          /\ u.token.child \in InFlight(u.q.slots[u.token.id.slot]) \ InFlight(r.slots[u.token.id.slot])

\* dispatch_request
LEMMA RequestDispatchedIs ==
    ASSUME NEW r, QueueInv(r), NEW d \in DeviceSlots, NEW i \in Slots, IsLive(r.slots[i]),
           Undispatched(r.slots[i]), NEW u, u = RequestDispatched(r, d, i)
    PROVE  Dispatch(r, u)
<1> DEFINE n == r.devices[d].serial
           c == Dispatched(r.slots[i]) + 1
           s == [r.slots[i] EXCEPT !.state = "Active", !.flight = @ + 1,
                    !.children[c] = [state |-> "InFlight", serial |-> n, told |-> FALSE]]
           w == [r EXCEPT !.slots[i] = s, !.devices[d].serial = @ + 1, !.devices[d].flight = @ + 1,
                          !.devices[d].passed = IF s.priority = Background THEN 0
                                                ELSE Min({@ + 1, Interval}),
                          !.flight = @ + 1]
<1>1. /\ u.q = IF Undispatched(s) THEN Enqueued(w, i) ELSE w
      /\ u.token = Token(r, d, i, c) /\ DOMAIN u = {"q", "token"}
  BY DEF RequestDispatched
<1>2. SlotInv(r.slots[i]) /\ DeviceInv(r.devices[d]) /\ DOMAIN r.devices = DeviceSlots
  BY Zenon DEF QueueInv
<1>3. n \in Nat
  BY <1>2 DEF DeviceInv
<1>4. /\ SlotInv(s) /\ Kept(r.slots[i], s, {}) /\ IsLive(s)
      /\ c \in InFlight(s) \ InFlight(r.slots[i])
  <2>1. s = [r.slots[i] EXCEPT !.state = "Active", !.flight = @ + 1,
               !.children[Dispatched(r.slots[i]) + 1] = [state |-> "InFlight", serial |-> n, told |-> FALSE]]
    OBVIOUS
  <2> HIDE DEF s, n
  <2>2. OneMore(r.slots[i], s)
    BY <1>2, <1>3, <2>1, DispatchSlot, Zenon
  <2> QED
    BY <2>2 DEF OneMore
<1>5. DOMAIN w = DOMAIN r /\ w.slots = [r.slots EXCEPT ![i] = s] /\ w.queues = r.queues
  BY DEF QueueInv
<1>6. /\ DOMAIN w.devices = DeviceSlots
      /\ \A e \in DeviceSlots : e # d => w.devices[e] = r.devices[e]
      /\ DOMAIN w.devices[d] = DOMAIN r.devices[d]
      /\ w.devices[d].serial = n + 1 /\ w.devices[d].cursor = r.devices[d].cursor
      /\ w.devices[d].present = r.devices[d].present /\ w.devices[d].gen = r.devices[d].gen
  <2> HIDE DEF s
  <2> QED
    BY <1>2 DEF DeviceInv, QueueInv
<1>7. u.token.final = FALSE /\ u.token.id.slot = i /\ u.token.child = c
  BY <1>1 DEF Token, IdOf
<1> HIDE DEF c, w, s, n
<1>8. DeviceInv(w.devices[d])
  BY <1>2, <1>3, <1>6 DEF DeviceInv
<1>9. Devices(r, w)
  <2>1. \A e \in DeviceSlots : DeviceInv(w.devices[e])
    BY <1>6, <1>8, Zenon DEF QueueInv
  <2>2. Present(r, w)
    BY <1>6, Zenon DEF Present
  <2> QED
    BY <1>6, <2>1, <2>2 DEF Devices
<1>10. Waiting(w)
  BY <1>5, Zenon DEF Waiting, QueueInv
<1>11. KeptBut(r, w, i, {}) /\ \A j \in Slots : w.slots[j] = IF j = i THEN s ELSE r.slots[j]
  <2>1. Stored(r, w, i, s)
    BY <1>5, <1>9, <1>10 DEF Stored
  <2>2. SlotKept(r, w, i, s, {})
    BY <1>4, <2>1, OneSlot
  <2> QED
    BY <2>2 DEF SlotKept
<1>12. KeptAll(r, w) /\ QueueInv(w) /\ w.slots[i] = s
  BY <1>11, ButNone, Zenon DEF KeptAll
<1>13. KeptAll(r, u.q) /\ Alike(s, u.q.slots[i])
  <2>1. CASE Undispatched(s)
    <3>1. u.q = Enqueued(w, i)
      BY <1>1, <2>1
    <3>2. KeptAll(w, u.q) /\ \A j \in Slots : Alike(w.slots[j], u.q.slots[j])
      BY <1>12, <3>1, EnqueuedIs
    <3> QED
      BY <1>12, <3>2, AllTwice
  <2>2. CASE ~Undispatched(s)
    BY <1>1, <1>12, <2>2 DEF Alike
  <2> QED
    BY <2>1, <2>2
<1>14. IsLive(u.q.slots[i]) /\ InFlight(u.q.slots[i]) = InFlight(s)
  BY <1>4, <1>13, AlikeInv DEF Alike, IsLive
<1> QED
  BY <1>1, <1>4, <1>7, <1>13, <1>14, Zenon DEF Dispatch

\* A step on a device that stays.
LEMMA DeviceStep ==
    ASSUME NEW r, QueueInv(r), NEW d, NEW u, DOMAIN u.devices = DeviceSlots,
           \A e \in DeviceSlots : e # d => u.devices[e] = r.devices[e],
           d \in DeviceSlots => /\ DeviceInv(u.devices[d])
                                /\ u.devices[d].present = r.devices[d].present
                                /\ u.devices[d].gen = r.devices[d].gen
    PROVE  Devices(r, u)
<1>1. \A e \in DeviceSlots : DeviceInv(u.devices[e])
  BY Zenon DEF QueueInv
<1>2. Present(r, u)
  BY Zenon DEF Present
<1> QED
  BY <1>1, <1>2 DEF Devices

\* A step that leaves the slots alone.
LEMMA SlotsSame ==
    ASSUME NEW r, QueueInv(r), NEW u, DOMAIN u = DOMAIN r, u.slots = r.slots, Devices(r, u), Waiting(u)
    PROVE  KeptAll(r, u)
<1>1. QueueInv(u)
  BY Zenon DEF QueueInv, Devices, Waiting
<1> QED
  BY <1>1, KeptSame, Zenon DEF KeptAll, Devices

\* dispatch_shutdown_flush
LEMMA FinalDispatchedIs ==
    ASSUME NEW r, QueueInv(r), NEW d \in DeviceSlots, NEW u, u = FinalDispatched(r, d)
    PROVE  Dispatch(r, u)
<1> DEFINE v == FinalSent(r.devices[d])
           w == [r EXCEPT !.devices[d] = v, !.flight = @ + 1]
<1>1. u.q = w /\ u.token.final = TRUE /\ DOMAIN u = {"q", "token"}
  BY DEF FinalDispatched, FinalToken
<1>2. DeviceInv(r.devices[d]) /\ DOMAIN r.devices = DeviceSlots
  BY Zenon DEF QueueInv
<1>3. /\ DOMAIN v = DOMAIN r.devices[d]
      /\ v.serial = r.devices[d].serial + 1 /\ v.cursor = r.devices[d].cursor
      /\ v.present = r.devices[d].present /\ v.gen = r.devices[d].gen
  BY <1>2 DEF DeviceInv, FinalSent
<1> HIDE DEF v
<1>4. /\ DOMAIN w = DOMAIN r /\ w.slots = r.slots /\ w.queues = r.queues
      /\ DOMAIN w.devices = DeviceSlots /\ w.devices[d] = v
      /\ \A e \in DeviceSlots : e # d => w.devices[e] = r.devices[e]
  BY <1>2 DEF QueueInv
<1> HIDE DEF w
<1>5. DeviceInv(w.devices[d])
  BY <1>2, <1>3, <1>4 DEF DeviceInv
<1>6. Devices(r, w)
  BY <1>3, <1>4, <1>5, DeviceStep
<1>7. KeptAll(r, w)
  <2>1. Waiting(w)
    BY <1>4, Zenon DEF Waiting, QueueInv
  <2> QED
    BY <1>4, <1>6, <2>1, SlotsSame
<1> QED
  BY <1>1, <1>7, Zenon DEF Dispatch

\* Dispatching after a step.
LEMMA DispatchAfter ==
    ASSUME NEW r, NEW w, KeptAll(r, w), NEW u, Dispatch(w, u)
    PROVE  Dispatch(r, u)
<1>1. KeptAll(r, u.q)
  BY AllTwice DEF Dispatch
<1>2. ASSUME u.token # None, ~u.token.final
      PROVE  u.token.child \notin InFlight(r.slots[u.token.id.slot])
  <2> DEFINE i == u.token.id.slot
  <2>1. i \in Slots /\ u.token.child \notin InFlight(w.slots[i])
    BY <1>2 DEF Dispatch
  <2>2. Kept(r.slots[i], w.slots[i], {})
    BY <2>1, Zenon DEF KeptAll
  <2> QED
    BY <2>1, <2>2 DEF Kept
<1> QED
  BY <1>1, <1>2 DEF Dispatch

\* Nothing is dispatched.
LEMMA NoDispatch ==
    ASSUME NEW r, NEW w, KeptAll(r, w), NEW u, u = [q |-> w, token |-> None]
    PROVE  Dispatch(r, u)
<1>1. DOMAIN u = {"q", "token"} /\ u.q = w /\ u.token = None
  OBVIOUS
<1> QED
  BY <1>1, Zenon DEF Dispatch

\* dispatch_one
LEMMA DispatchedOneIs ==
    ASSUME NEW r, QueueInv(r), NEW d \in DeviceSlots, NEW u, u = DispatchedOne(r, d)
    PROVE  Dispatch(r, u)
<1> DEFINE e == Expired(r)
           k == Selected(e, d)
<1>1. u = IF e.devices[d].flight >= e.devices[d].depth THEN [q |-> e, token |-> None]
          ELSE IF k.found # None THEN RequestDispatched(k.q, d, k.found)
          ELSE IF WantsFinal(k.q, d) THEN FinalDispatched(k.q, d)
          ELSE [q |-> k.q, token |-> None]
  BY DEF DispatchedOne
<1>2. KeptAll(r, e) /\ QueueInv(e)
  <2>1. KeptAll(r, e)
    BY ExpiredIs
  <2> QED
    BY <2>1 DEF KeptAll
<1>3. Choice(e, k)
  BY <1>2, SelectedIs
<1> HIDE DEF e, k
<1>4. KeptAll(r, k.q) /\ QueueInv(k.q)
  BY <1>2, <1>3, AllTwice, Zenon DEF Choice, KeptAll
<1>5. CASE u = [q |-> e, token |-> None]
  BY <1>2, <1>5, NoDispatch
<1>6. CASE k.found # None /\ u = RequestDispatched(k.q, d, k.found)
  <2>1. /\ k.found \in Slots
        /\ IsLive(k.q.slots[k.found]) /\ Undispatched(k.q.slots[k.found])
    BY <1>3, <1>6, Zenon DEF Choice
  <2>2. Dispatch(k.q, u)
    BY <1>4, <1>6, <2>1, RequestDispatchedIs
  <2> QED
    BY <1>4, <2>2, DispatchAfter
<1>7. CASE u = FinalDispatched(k.q, d)
  BY <1>4, <1>7, FinalDispatchedIs, DispatchAfter
<1>8. CASE u = [q |-> k.q, token |-> None]
  BY <1>4, <1>8, NoDispatch
<1> QED
  BY <1>1, <1>5, <1>6, <1>7, <1>8, Zenon

-----------------------------------------------------------------------------
(* Completion                                                              *)

\* A queue that keeps all keeps what is not in X.
LEMMA AllBut ==
    ASSUME NEW r, NEW u, NEW j, NEW X, KeptAll(r, u)
    PROVE  KeptBut(r, u, j, X)
<1>1. \A i \in Slots : Kept(r.slots[i], u.slots[i], {})
  BY Zenon DEF KeptAll
<1>2. \A i \in Slots : Kept(r.slots[i], u.slots[i], IF i = j THEN X ELSE {})
  BY <1>1 DEF Kept
<1> QED
  BY <1>2 DEF KeptAll, KeptBut

\* A slot like another keeps its request.
LEMMA AlikeKept ==
    ASSUME NEW s, NEW t, Alike(s, t)
    PROVE  Kept(s, t, {})
<1>1. InFlight(t) = InFlight(s)
  BY AlikeInv
<1> QED
  BY <1>1 DEF Alike, Kept, IsLive

\* The queue after a step on slot i, which is now like x.
Settled(r, u, i, x) ==
    QueueInv(u) /\ Present(r, u) /\ \A j \in Slots : IF j = i THEN Alike(x, u.slots[j]) ELSE u.slots[j] = r.slots[j]

\* A slot's fields that count no commands may change.
LEMMA SettledAs ==
    ASSUME NEW r, QueueInv(r), NEW i \in Slots, NEW x, Alike(r.slots[i], x),
           NEW u, u = [r EXCEPT !.slots[i] = x]
    PROVE  Settled(r, u, i, r.slots[i]) /\ u.devices = r.devices
<1>1. DOMAIN u = DOMAIN r /\ u.devices = r.devices /\ u.queues = r.queues /\ u.slots = [r.slots EXCEPT ![i] = x]
  BY DEF QueueInv
<1>2. Devices(r, u) /\ Waiting(u)
  BY <1>1, Zenon DEF Devices, Waiting, QueueInv, Present
<1>3. SlotInv(x) /\ Kept(r.slots[i], x, {})
  <2>1. SlotInv(r.slots[i])
    BY Zenon DEF QueueInv
  <2> QED
    BY <2>1, AlikeInv, AlikeKept
<1>4. Stored(r, u, i, x)
  BY <1>1, <1>2 DEF Stored
<1>5. SlotKept(r, u, i, x, {})
  BY <1>3, <1>4, OneSlot
<1> QED
  BY <1>1, <1>5 DEF SlotKept, KeptBut, Settled

\* A child is done, with success or not.
LEMMA ChildDoneIs ==
    ASSUME NEW r, QueueInv(r), NEW t, t.id.slot \in Slots, t.child \in InFlight(r.slots[t.id.slot]),
           NEW status, NEW u, u = ChildDone(r, t, status)
    PROVE  KeptBut(r, u, t.id.slot, {t.child}) /\ u.slots[t.id.slot].state = r.slots[t.id.slot].state
<1> DEFINE i == t.id.slot
           c == t.child
           d == t.device.index
           s == r.slots[i]
           a == [r EXCEPT !.slots[i].children[c] = [state |-> "Done", serial |-> 0, told |-> FALSE],
                          !.slots[i].flight = OneLess(@), !.devices[d].flight = OneLess(@),
                          !.flight = OneLess(@)]
           x == a.slots[i]
<1>1. u = IF status = "Success" THEN [a EXCEPT !.slots[i].bytes = IF IsFence(s.op) THEN @ ELSE @ + 1]
          ELSE IF s.pending = None THEN EntriesRemoved([a EXCEPT !.slots[i].pending = status], {i})
          ELSE a
  BY Zenon DEF ChildDone
<1>2. SlotInv(s) /\ SlotShape(s) /\ DOMAIN r.slots = Slots /\ DOMAIN r.devices = DeviceSlots
  BY Zenon DEF QueueInv, SlotInv
<1>3. /\ DOMAIN a = DOMAIN r /\ a.queues = r.queues /\ a.slots = [r.slots EXCEPT ![i] = x]
      /\ DOMAIN a.devices = DeviceSlots
      /\ \A e \in DeviceSlots : e # d => a.devices[e] = r.devices[e]
  BY <1>2, Zenon DEF QueueInv
<1>4. /\ DOMAIN x = DOMAIN s /\ x.gen = s.gen /\ x.priority = s.priority /\ x.state = s.state
      /\ x.flight = OneLess(s.flight)
      /\ x.children = [s.children EXCEPT ![c] = [state |-> "Done", serial |-> 0, told |-> FALSE]]
  BY <1>2, Zenon DEF QueueInv, SlotShape
<1>5. d \in DeviceSlots => /\ DOMAIN a.devices[d] = DOMAIN r.devices[d]
                           /\ a.devices[d].serial = r.devices[d].serial
                           /\ a.devices[d].cursor = r.devices[d].cursor
                           /\ a.devices[d].present = r.devices[d].present
                           /\ a.devices[d].gen = r.devices[d].gen
  <2>1. ASSUME d \in DeviceSlots PROVE DeviceInv(r.devices[d])
    BY <2>1, Zenon DEF QueueInv
  <2> QED
    BY <1>2, <2>1 DEF QueueInv, DeviceInv
<1> HIDE DEF a, x
<1>6. SlotInv(x) /\ Kept(s, x, {c})
  <2> HIDE DEF s, c
  <2>1. c \in InFlight(s)
    BY DEF s, c
  <2> QED
    BY <1>2, <1>4, <2>1, DoneSlot
<1>7. Devices(r, a) /\ Waiting(a)
  <2>1. d \in DeviceSlots => DeviceInv(a.devices[d])
    <3>1. ASSUME d \in DeviceSlots PROVE DeviceInv(r.devices[d])
      BY <3>1, Zenon DEF QueueInv
    <3> QED
      BY <1>5, <3>1 DEF DeviceInv
  <2>2. Devices(r, a)
    <3> HIDE DEF d
    <3> QED
      BY <1>3, <1>5, <2>1, DeviceStep
  <2> QED
    BY <1>3, <2>2, Zenon DEF Waiting, QueueInv
<1>8. KeptBut(r, a, i, {c}) /\ QueueInv(a) /\ a.slots[i] = x
  <2>1. Stored(r, a, i, x)
    BY <1>3, <1>7 DEF Stored
  <2> HIDE DEF i, c, s
  <2>2. SlotKept(r, a, i, x, {c}) /\ i \in Slots
    BY <1>6, <2>1, OneSlot DEF i, s
  <2> QED
    BY <2>2 DEF SlotKept, KeptBut
<1>9. SlotShape(x)
  BY <1>6 DEF SlotInv
<1>10. KeptAll(a, u) /\ Alike(x, u.slots[i])
  <2>1. CASE status = "Success"
    <3> DEFINE y == [x EXCEPT !.bytes = IF IsFence(s.op) THEN @ ELSE @ + 1]
    <3>1. u = [a EXCEPT !.slots[i] = y]
      BY <1>1, <1>8, <2>1
    <3>2. Alike(x, y)
      BY <1>9 DEF Alike, SlotShape
    <3> HIDE DEF y, i, s
    <3>3. Settled(a, u, i, x) /\ i \in Slots
      BY <1>8, <3>1, <3>2, SettledAs DEF i
    <3> QED
      <4>1. QueueInv(u) /\ Present(a, u) /\ Alike(x, u.slots[i])
        BY <3>3 DEF Settled
      <4>2. \A j \in Slots : Alike(a.slots[j], u.slots[j])
        BY <1>8, <3>3 DEF Settled, Alike
      <4>3. \A j \in Slots : Kept(a.slots[j], u.slots[j], {})
        BY <4>2, AlikeKept, Zenon
      <4> QED
        BY <4>1, <4>3 DEF KeptAll
  <2>2. CASE status # "Success" /\ s.pending = None
    <3> DEFINE y == [x EXCEPT !.pending = status]
               b == [a EXCEPT !.slots[i].pending = status]
    <3>1. b = [a EXCEPT !.slots[i] = y] /\ u = EntriesRemoved(b, {i})
      BY <1>1, <1>8, <2>2
    <3>2. Alike(x, y)
      BY <1>9 DEF Alike, SlotShape
    <3> HIDE DEF y, b, i, s
    <3>3. Settled(a, b, i, x) /\ b.devices = a.devices /\ i \in Slots
      BY <1>8, <3>1, <3>2, SettledAs DEF i
    <3>4. QueueInv(b) /\ \A j \in Slots : Alike(a.slots[j], b.slots[j])
      BY <1>8, <3>3 DEF Settled, Alike
    <3> DEFINE S == {i}
    <3>5. QueueShape(b, {}) /\ S \in SUBSET Slots /\ u = EntriesRemoved(b, S)
      BY <3>1, <3>3, <3>4, ShapeInv
    <3> HIDE DEF S
    <3>6. /\ QueueShape(u, {}) /\ u.devices = b.devices
          /\ \A j \in Slots : Alike(b.slots[j], u.slots[j])
      BY <3>5, RemovedIs
    <3>7. QueueInv(u)
      BY <3>6, ShapeInv
    <3>8. \A j \in Slots : Alike(a.slots[j], u.slots[j])
      BY <3>4, <3>6, Zenon DEF Alike
    <3>9. KeptAll(a, u)
      BY <3>3, <3>6, <3>7, <3>8, AlikeKept, Zenon DEF KeptAll, Present
    <3> QED
      BY <1>8, <3>3, <3>8, <3>9, Zenon
  <2>3. CASE status # "Success" /\ s.pending # None
    <3>1. u = a
      BY <1>1, <2>3
    <3> QED
      BY <1>8, <3>1, AllSame DEF Alike
  <2> QED
    BY <2>1, <2>2, <2>3
<1>11. KeptBut(r, u, i, {c})
  BY <1>8, <1>10, ButTwice
<1> QED
  BY <1>4, <1>10, <1>11, Zenon DEF Alike

\* update_shutdown_state keeps all.
LEMMA UpdatedKeeps ==
    ASSUME NEW r, QueueInv(r)
    PROVE  KeptAll(r, ShutdownUpdated(r))
<1> DEFINE u == ShutdownUpdated(r)
<1>1. QueueInv(u) /\ u.slots = r.slots /\ u.devices = r.devices
  BY UpdatedIs
<1> HIDE DEF u
<1>2. KeptAll(r, u)
  BY <1>1, KeptSame, Zenon DEF KeptAll, Present
<1> QED
  BY <1>2 DEF u

\* A request that is complete has no command left in flight.
LEMMA FinishedKeeps ==
    ASSUME NEW r, QueueInv(r), NEW i \in Slots, r.slots[i].state \notin Vacant, r.slots[i].flight = 0
    PROVE  KeptAll(r, Finished(r, {i}))
<1> DEFINE S == {i}
           u == Finished(r, S)
<1>1. S \in SUBSET Slots /\ QueueShape(r, S) /\ u = Finished(r, S) /\ \A j : j \in S <=> j = i
  BY ShapeInv
<1> HIDE DEF S, u
<1>2. /\ QueueInv(u) /\ u.devices = r.devices
      /\ \A j \in Slots : /\ u.slots[j].gen = r.slots[j].gen
                          /\ j \in S => /\ u.slots[j].state = "Terminal"
                                        /\ u.slots[j].children = r.slots[j].children
                          /\ j \notin S => u.slots[j] = r.slots[j]
  BY <1>1, FinishedIs
<1>3. ASSUME NEW j \in Slots PROVE Kept(r.slots[j], u.slots[j], {})
  <2>1. CASE j = i
    <3>1. /\ u.slots[j].gen = r.slots[j].gen /\ u.slots[j].state = "Terminal"
          /\ u.slots[j].children = r.slots[j].children
      BY <1>1, <1>2, <2>1, Zenon
    <3>2. InFlight(u.slots[j]) = InFlight(r.slots[j])
      BY <3>1 DEF InFlight
    <3>3. IsLive(r.slots[j]) => InFlight(r.slots[j]) = {}
      <4>1. SlotInv(r.slots[j])
        BY Zenon DEF QueueInv
      <4> QED
        BY <2>1, <4>1, NoneInFlight DEF IsLive
    <3> QED
      BY <2>1, <3>1, <3>2, <3>3 DEF Kept, Vacant
  <2>2. CASE j # i
    <3>1. u.slots[j] = r.slots[j]
      BY <1>1, <1>2, <2>2, Zenon
    <3> QED
      BY <3>1, KeptSame
  <2> QED
    BY <2>1, <2>2
<1>4. KeptAll(r, u)
  BY <1>2, <1>3, Zenon DEF KeptAll, Present
<1> QED
  BY <1>4 DEF u, S

\* complete_request
LEMMA ChildCompletedIs ==
    ASSUME NEW r, QueueInv(r), NEW t, t.id.slot \in Slots, AcceptsChild(r, t),
           NEW status, NEW u, u = ChildCompleted(r, t, status)
    PROVE  KeptBut(r, u, t.id.slot, {t.child})
<1> DEFINE i == t.id.slot
           c == t.child
           a == ChildDone(r, t, status)
           b == IF IsComplete(a.slots[i]) THEN Finished(a, {i}) ELSE a
<1>1. c \in InFlight(r.slots[i]) /\ r.slots[i].state \notin Vacant
  BY Zenon DEF AcceptsChild, Names, InFlight, Vacant
<1>2. KeptBut(r, a, i, {c}) /\ a.slots[i].state = r.slots[i].state
  BY <1>1, ChildDoneIs
<1>3. u = ShutdownUpdated(b) /\ b = IF IsComplete(a.slots[i]) THEN Finished(a, {i}) ELSE a
  BY DEF ChildCompleted
<1> HIDE DEF a, b
<1>4. QueueInv(a)
  BY <1>2 DEF KeptBut
<1>5. KeptAll(a, b)
  <2>1. CASE IsComplete(a.slots[i])
    <3>1. a.slots[i].state \notin Vacant /\ a.slots[i].flight = 0 /\ b = Finished(a, {i})
      BY <1>1, <1>2, <1>3, <2>1, Zenon DEF IsComplete
    <3> QED
      BY <1>4, <3>1, FinishedKeeps
  <2>2. CASE ~IsComplete(a.slots[i])
    BY <1>3, <1>4, <2>2, AllSame
  <2> QED
    BY <2>1, <2>2
<1>6. KeptAll(b, u)
  BY <1>3, <1>5, UpdatedKeeps, Zenon DEF KeptAll
<1>7. KeptAll(a, u)
  BY <1>5, <1>6, AllTwice
<1> HIDE DEF i, c
<1>8. KeptBut(r, u, i, {c})
  BY <1>2, <1>7, ButTwice
<1> QED
  BY <1>8 DEF i, c

\* complete_shutdown_flush
LEMMA FinalCompletedIs ==
    ASSUME NEW r, QueueInv(r), NEW t, NEW status, NEW u, u = FinalCompleted(r, t, status)
    PROVE  KeptAll(r, u)
<1> DEFINE d == t.device.index
           w == [r EXCEPT !.devices[d].flight = OneLess(@), !.flight = OneLess(@),
                          !.devices[d].final = IF status = "Success" THEN "Done" ELSE "Failed",
                          !.devices[d].finalSerial = 0]
<1>1. u = r \/ u = ShutdownUpdated(w)
  BY DEF FinalCompleted
<1>2. DOMAIN r.devices = DeviceSlots
  BY Zenon DEF QueueInv
<1>3. DOMAIN w = DOMAIN r /\ w.slots = r.slots /\ w.queues = r.queues
  BY DEF QueueInv
<1>4. ASSUME d \in DeviceSlots PROVE DeviceInv(r.devices[d])
  BY <1>4, Zenon DEF QueueInv
<1>5. /\ DOMAIN w.devices = DeviceSlots
      /\ \A e \in DeviceSlots : e # d => w.devices[e] = r.devices[e]
      /\ d \in DeviceSlots =>
            /\ DOMAIN w.devices[d] = DOMAIN r.devices[d]
            /\ w.devices[d].serial = r.devices[d].serial /\ w.devices[d].cursor = r.devices[d].cursor
            /\ w.devices[d].present = r.devices[d].present /\ w.devices[d].gen = r.devices[d].gen
  BY <1>2, <1>4 DEF DeviceInv, QueueInv
<1> HIDE DEF w, d
<1>6. d \in DeviceSlots => DeviceInv(w.devices[d])
  BY <1>4, <1>5 DEF DeviceInv
<1>7. Devices(r, w)
  BY <1>5, <1>6, DeviceStep
<1>8. KeptAll(r, w)
  <2>1. Waiting(w)
    BY <1>3, Zenon DEF Waiting, QueueInv
  <2> QED
    BY <1>3, <1>7, <2>1, SlotsSame
<1>9. KeptAll(w, ShutdownUpdated(w))
  BY <1>8, UpdatedKeeps DEF KeptAll
<1> QED
  BY <1>1, <1>8, <1>9, AllSame, AllTwice

\* What a completion does: the final flush touches no request, and a token of a
\* request at most ends its own command.
Completion(r, u, t) ==
    /\ t.final => KeptAll(r, u)
    /\ ~t.final => KeptBut(r, u, t.id.slot, {t.child})

\* complete_observed
LEMMA CompletedIs ==
    ASSUME NEW r, QueueInv(r), NEW t, ~t.final => t.id.slot \in Slots,
           NEW status, NEW u, u = Completed(r, t, status)
    PROVE  Completion(r, u, t)
<1>1. CASE u = r
  BY <1>1, AllSame, AllBut DEF Completion
<1>2. CASE t.final /\ u = FinalCompleted(r, t, status)
  BY <1>2, FinalCompletedIs DEF Completion
<1>3. CASE ~t.final /\ AcceptsChild(r, t) /\ u = ChildCompleted(r, t, status)
  BY <1>3, ChildCompletedIs DEF Completion
<1> QED
  BY <1>1, <1>2, <1>3 DEF Completed

\* poll_cancel
LEMMA CancelToldIs ==
    ASSUME NEW r, QueueInv(r), NEW d, Untold(r, d) # {}, NEW u, u = CancelTold(r, d)
    PROVE  KeptAll(r, u)
<1> DEFINE i == Min(Untold(r, d))
           C == {n \in DOMAIN r.slots[i].children : IsUntold(r.slots[i].children[n])}
           c == Min(C)
           x == [r.slots[i] EXCEPT !.children[c].told = TRUE]
<1>1. Untold(r, d) \in SUBSET Nat
  BY DEF Untold, Slots
<1>2. i \in Slots /\ C # {}
  <2>1. i \in Untold(r, d)
    BY <1>1, MinIn
  <2> QED
    BY <2>1, Zenon DEF Untold
<1>3. SlotInv(r.slots[i]) /\ SlotShape(r.slots[i])
  BY <1>2, Zenon DEF QueueInv, SlotInv
<1>4. C \in SUBSET Nat
  <2>1. DOMAIN r.slots[i].children \subseteq Nat
    <3> HIDE DEF i
    <3> QED
      BY <1>3 DEF SlotShape
  <2> QED
    BY <2>1
<1>5. c \in InFlight(r.slots[i])
  <2>1. c \in C
    BY <1>2, <1>4, MinIn
  <2> QED
    BY <2>1, Zenon DEF InFlight, IsUntold
<1>6. DOMAIN u = DOMAIN r /\ u.slots = [r.slots EXCEPT ![i] = x] /\ u.devices = r.devices /\ u.queues = r.queues
  BY DEF CancelTold, QueueInv
<1>7. x = [r.slots[i] EXCEPT !.children[c].told = TRUE]
  OBVIOUS
<1> HIDE DEF x, c, C, i
<1>8. SlotInv(x) /\ Kept(r.slots[i], x, {})
  BY <1>3, <1>5, <1>7, ToldSlot
<1>9. Devices(r, u) /\ Waiting(u)
  BY <1>6, Zenon DEF Devices, Waiting, QueueInv, Present
<1>10. Stored(r, u, i, x)
  BY <1>6, <1>9 DEF Stored
<1>11. SlotKept(r, u, i, x, {})
  BY <1>2, <1>8, <1>10, OneSlot
<1> QED
  BY <1>11, ButNone DEF SlotKept

-----------------------------------------------------------------------------
(* New requests, ends of requests, ends of devices                         *)

\* u holds a new request in slot i and is otherwise as r.
NewRequest(r, u, i) ==
    /\ QueueInv(u) /\ Present(r, u)
    /\ i \in Slots /\ r.slots[i].state = "Free"
    /\ u.slots[i].state = "Queued" /\ u.slots[i].gen = r.slots[i].gen
    /\ \A j \in Slots : j # i => Alike(r.slots[j], u.slots[j])

\* The slot of a new request: nothing has been dispatched.
LEMMA NewSlot ==
    ASSUME NEW g \in 1..MaxGeneration, NEW n \in Nat, NEW p \in Priorities, NEW x,
           DOMAIN x = DOMAIN VacantSlot(g), x.gen = g, x.priority = p, x.flight = 0,
           x.children = [c \in 1..n |-> [state |-> "Pending", serial |-> 0, told |-> FALSE]]
    PROVE  SlotInv(x)
<1>1. DOMAIN x = {"gen", "state", "device", "op", "priority", "deadline", "seq", "epoch",
                  "children", "flight", "queued", "pending", "outcome", "bytes"}
  BY DEF VacantSlot
<1>2. /\ DOMAIN x.children = 1..n
      /\ \A c \in 1..n : x.children[c] = [state |-> "Pending", serial |-> 0, told |-> FALSE]
  BY Zenon
<1>3. [state |-> "Pending", serial |-> 0, told |-> FALSE] \in Child
  BY DEF Child
<1>4. x.children \in Seq(Child)
  <2>1. x.children \in [1..n -> Child]
    BY <1>2, <1>3
  <2> QED
    BY <2>1, SeqTyped
<1>5. Started(x) = {} /\ InFlight(x) = {}
  BY <1>2 DEF Started, InFlight
<1>6. 0 \in 0..Len(x.children) /\ 1..0 = {} /\ Cardinality({}) = 0
  BY <1>4, FS_EmptySet
<1> QED
  BY <1>1, <1>4, <1>5, <1>6 DEF SlotInv, SlotShape

\* submit
LEMMA SubmittedIs ==
    ASSUME NEW r, QueueInv(r), NEW d, NEW m \in Requests, Free(r) # {}, NEW u, u = Submitted(r, d, m)
    PROVE  NewRequest(r, u, Min(Free(r)))
<1> DEFINE i == Min(Free(r))
           g == r.slots[i].gen
           e == d.index
           dev == r.devices[e]
           x == [VacantSlot(g) EXCEPT
                    !.state = "Queued", !.device = d, !.op = m.op, !.priority = m.priority,
                    !.deadline = m.deadline, !.seq = dev.seq, !.epoch = dev.order,
                    !.children = [c \in 1..m.children |-> [state |-> "Pending", serial |-> 0, told |-> FALSE]]]
           w == [r EXCEPT !.slots[i] = x, !.devices[e].seq = @ + 1, !.devices[e].order = NextOrder(dev, m)]
<1>1. u = Enqueued(w, i)
  BY DEF Submitted
<1>2. i \in Slots /\ r.slots[i].state = "Free"
  <2>1. Free(r) \in SUBSET Nat
    BY DEF Free, Slots
  <2>2. i \in Free(r)
    BY <2>1, MinIn
  <2> QED
    BY <2>2 DEF Free
<1>3. g \in 1..MaxGeneration /\ DOMAIN r.slots = Slots /\ DOMAIN r.devices = DeviceSlots
  <2> HIDE DEF i
  <2> QED
    BY <1>2, Zenon DEF QueueInv, SlotInv, SlotShape
<1>4. m.priority \in Priorities /\ m.children \in Nat
  BY RequestAssumption
<1>5. /\ DOMAIN x = DOMAIN VacantSlot(g) /\ x.gen = g /\ x.priority = m.priority /\ x.flight = 0
      /\ x.state = "Queued"
      /\ x.children = [c \in 1..m.children |-> [state |-> "Pending", serial |-> 0, told |-> FALSE]]
  <2> HIDE DEF i, g, e, dev
  <2> QED
    BY Zenon DEF VacantSlot
<1>6. DOMAIN w = DOMAIN r /\ w.slots = [r.slots EXCEPT ![i] = x] /\ w.queues = r.queues
  <2> HIDE DEF i, e, dev, x
  <2> QED
    BY DEF QueueInv
<1>7. ASSUME e \in DeviceSlots PROVE DeviceInv(r.devices[e])
  BY <1>7, Zenon DEF QueueInv
<1>8. /\ DOMAIN w.devices = DeviceSlots
      /\ \A f \in DeviceSlots : f # e => w.devices[f] = r.devices[f]
      /\ e \in DeviceSlots =>
            /\ DOMAIN w.devices[e] = DOMAIN r.devices[e]
            /\ w.devices[e].serial = r.devices[e].serial /\ w.devices[e].cursor = r.devices[e].cursor
            /\ w.devices[e].present = r.devices[e].present /\ w.devices[e].gen = r.devices[e].gen
  <2> HIDE DEF i, e, dev, x
  <2> QED
    BY <1>3, <1>7 DEF DeviceInv, QueueInv
<1> HIDE DEF w, x, dev, e, g, i
<1>9. e \in DeviceSlots => DeviceInv(w.devices[e])
  BY <1>7, <1>8 DEF DeviceInv
<1>10. Devices(r, w)
  BY <1>8, <1>9, DeviceStep
<1>11. SlotInv(x)
  BY <1>3, <1>4, <1>5, NewSlot
<1>12. DOMAIN w.slots = Slots /\ \A j \in Slots : w.slots[j] = IF j = i THEN x ELSE r.slots[j]
  BY <1>2, <1>3, <1>6
<1>13. QueueInv(w)
  <2>1. \A j \in Slots : SlotInv(w.slots[j])
    BY <1>11, <1>12, Zenon DEF QueueInv
  <2> QED
    BY <1>6, <1>10, <1>12, <2>1, Zenon DEF QueueInv, Devices
<1>14. /\ KeptAll(w, u) /\ u.devices = w.devices
       /\ \A j \in Slots : Alike(w.slots[j], u.slots[j])
  BY <1>1, <1>2, <1>13, EnqueuedIs
<1>15. QueueInv(u) /\ Present(r, u)
  BY <1>10, <1>14, Zenon DEF KeptAll, Devices, Present
<1>16. u.slots[i].state = "Queued" /\ u.slots[i].gen = r.slots[i].gen
  <2>1. Alike(x, u.slots[i])
    BY <1>2, <1>12, <1>14, Zenon
  <2> QED
    BY <1>5, <2>1 DEF Alike, g
<1>17. \A j \in Slots : j # i => Alike(r.slots[j], u.slots[j])
  BY <1>12, <1>14, Zenon
<1> QED
  BY <1>2, <1>15, <1>16, <1>17 DEF NewRequest, i

\* u has given slot i back and is otherwise as r.
Vacated(r, u, i) ==
    /\ QueueInv(u) /\ Present(r, u) /\ u.slots[i].state \in Vacant
    /\ \A j \in Slots : j # i => u.slots[j] = r.slots[j]

\* take_completion
LEMMA ReleasedIs ==
    ASSUME NEW r, QueueInv(r), NEW i \in Slots, NEW u, u = Released(r, i)
    PROVE  Vacated(r, u, i)
<1> DEFINE g == r.slots[i].gen
           x == IF g < MaxGeneration THEN VacantSlot(g + 1)
                ELSE [VacantSlot(g) EXCEPT !.state = "Retired"]
<1>1. /\ DOMAIN u = DOMAIN r /\ u.slots = [r.slots EXCEPT ![i] = x]
      /\ u.devices = r.devices /\ u.queues = r.queues
  BY DEF Released, QueueInv
<1>2. g \in 1..MaxGeneration /\ DOMAIN r.slots = Slots
  BY Zenon DEF QueueInv, SlotInv, SlotShape
<1>3. MaxGeneration \in Nat
  BY SizeAssumption
<1>4. SlotInv(x) /\ x.state \in Vacant
  <2>1. CASE g < MaxGeneration
    <3>1. g + 1 \in 1..MaxGeneration
      BY <1>2, <1>3, <2>1
    <3> QED
      BY <2>1, <3>1, VacantInv, Zenon DEF Vacant
  <2>2. CASE ~(g < MaxGeneration)
    BY <1>2, <2>2, VacantInv DEF Vacant
  <2> QED
    BY <2>1, <2>2
<1> HIDE DEF x, g
<1>5. DOMAIN u.slots = Slots /\ \A j \in Slots : u.slots[j] = IF j = i THEN x ELSE r.slots[j]
  BY <1>1, <1>2
<1>6. QueueInv(u)
  <2>1. \A j \in Slots : SlotInv(u.slots[j])
    BY <1>4, <1>5, Zenon DEF QueueInv
  <2> QED
    BY <1>1, <1>5, <2>1, Zenon DEF QueueInv
<1> QED
  BY <1>1, <1>4, <1>5, <1>6, Zenon DEF Vacated, Present

\* What fail_device_requests, recount_in_flight and update_shutdown_state leave of
\* the requests when the devices change.
LEMMA DevicesEnd ==
    ASSUME NEW r, QueueInv(r), NEW w, DOMAIN w = DOMAIN r, w.slots = r.slots, w.queues = r.queues,
           DOMAIN w.devices = DeviceSlots, \A d \in DeviceSlots : DeviceInv(w.devices[d]),
           NEW E, NEW o, NEW u, u = ShutdownUpdated(Recounted(Failed(w, E, o)))
    PROVE  SameRequests(r, u)
<1> DEFINE f == Failed(w, E, o)
           n == Recounted(f)
<1>1. QueueInv(w)
  BY Zenon DEF QueueInv
<1>2. SameRequests(w, f)
  BY <1>1, FailedIs
<1>3. u = ShutdownUpdated(n)
  OBVIOUS
<1> HIDE DEF f
<1>4. DOMAIN n = DOMAIN f /\ n.slots = f.slots /\ n.devices = f.devices /\ n.queues = f.queues
  BY <1>2 DEF Recounted, SameRequests, QueueInv
<1> HIDE DEF n
<1>5. QueueInv(n)
  BY <1>2, <1>4, Zenon DEF SameRequests, QueueInv
<1>6. QueueInv(u) /\ u.slots = n.slots
  BY <1>3, <1>5, UpdatedIs
<1> QED
  BY <1>2, <1>4, <1>6, Zenon DEF SameRequests

\* remove_device
LEMMA DeviceRemoved ==
    ASSUME NEW r, QueueInv(r), NEW d, NEW u, u = Removed(r, d)
    PROVE  SameRequests(r, u)
<1> DEFINE e == d.index
           x == [NewEpoch(r.devices[e]) EXCEPT !.present = FALSE, !.final = "Failed"]
           w == [r EXCEPT !.devices[e] = x]
<1>1. u = ShutdownUpdated(Recounted(Failed(w, {d}, "DeviceRemoved")))
  BY DEF Removed
<1>2. ASSUME e \in DeviceSlots PROVE DeviceInv(x)
  <2>1. DeviceInv(r.devices[e])
    BY <1>2, Zenon DEF QueueInv
  <2> QED
    BY <2>1 DEF DeviceInv, NewEpoch
<1>3. /\ DOMAIN w = DOMAIN r /\ w.slots = r.slots /\ w.queues = r.queues
      /\ w.devices = [r.devices EXCEPT ![e] = x] /\ DOMAIN r.devices = DeviceSlots
  BY DEF QueueInv
<1> HIDE DEF w, x, e
<1>4. /\ DOMAIN w.devices = DeviceSlots
      /\ \A f \in DeviceSlots : w.devices[f] = IF f = e THEN x ELSE r.devices[f]
  BY <1>3
<1>5. \A f \in DeviceSlots : DeviceInv(w.devices[f])
  BY <1>2, <1>4, Zenon DEF QueueInv
<1> QED
  BY <1>1, <1>3, <1>4, <1>5, DevicesEnd

\* force_shutdown
LEMMA ForcedIs ==
    ASSUME NEW r, QueueInv(r), NEW u, u = Forced(r)
    PROVE  SameRequests(r, u)
<1> DEFINE w == [r EXCEPT !.shutdown = "Quiescing",
                          !.devices = [d \in DeviceSlots |-> ForcedDevice(r.devices[d])]]
<1>1. u = ShutdownUpdated(Recounted(Failed(w, DevicesOf(r), "ForcedShutdown")))
  BY DEF Forced
<1>2. /\ DOMAIN w = DOMAIN r /\ w.slots = r.slots /\ w.queues = r.queues
      /\ w.devices = [d \in DeviceSlots |-> ForcedDevice(r.devices[d])]
  BY DEF QueueInv
<1> HIDE DEF w
<1>3. ASSUME NEW d \in DeviceSlots PROVE DeviceInv(w.devices[d])
  <2>1. DeviceInv(r.devices[d]) /\ w.devices[d] = ForcedDevice(r.devices[d])
    BY <1>2, Zenon DEF QueueInv
  <2> QED
    BY <2>1 DEF DeviceInv, ForcedDevice
<1>4. DOMAIN w.devices = DeviceSlots
  BY <1>2
<1> QED
  BY <1>1, <1>2, <1>3, <1>4, DevicesEnd

\* begin_shutdown
LEMMA ShutdownBegunIs ==
    ASSUME NEW r, QueueInv(r), NEW u, u = ShutdownBegun(r)
    PROVE  KeptAll(r, u)
<1> DEFINE F(d) == IF ~r.devices[d].present THEN r.devices[d]
                   ELSE [r.devices[d] EXCEPT !.final = IF r.devices[d].flush THEN "Pending" ELSE "Done"]
           w == [r EXCEPT !.shutdown = "Quiescing", !.devices = [d \in DeviceSlots |-> F(d)]]
<1>1. u = ShutdownUpdated(w)
  BY DEF ShutdownBegun, QueueInv
<1>2. /\ DOMAIN w = DOMAIN r /\ w.slots = r.slots /\ w.queues = r.queues
      /\ w.devices = [d \in DeviceSlots |-> F(d)]
  BY DEF QueueInv
<1> HIDE DEF w
<1>3. ASSUME NEW d \in DeviceSlots
      PROVE  /\ DeviceInv(w.devices[d]) /\ w.devices[d].present = r.devices[d].present
             /\ w.devices[d].gen = r.devices[d].gen
  <2>1. DeviceInv(r.devices[d]) /\ w.devices[d] = F(d)
    BY <1>2, Zenon DEF QueueInv
  <2> QED
    BY <2>1 DEF DeviceInv
<1>4. DOMAIN w.devices = DeviceSlots
  BY <1>2
<1> HIDE DEF F
<1>5. Devices(r, w) /\ Waiting(w)
  BY <1>2, <1>3, <1>4, Zenon DEF Devices, Present, Waiting, QueueInv
<1>6. KeptAll(r, w)
  BY <1>2, <1>5, SlotsSame
<1>7. KeptAll(w, u)
  BY <1>1, <1>6, UpdatedKeeps DEF KeptAll
<1> QED
  BY <1>6, <1>7, AllTwice

\* Slots that are replaced by slots like them.
LEMMA AlikeSlots ==
    ASSUME NEW r, QueueInv(r), NEW f, DOMAIN f \subseteq Slots,
           \A i \in DOMAIN f : Alike(r.slots[i], f[i]), NEW u, u = WithSlots(r, f)
    PROVE  KeptAll(r, u)
<1>1. \A i \in Slots : SlotInv(r.slots[i]) /\ SlotShape(r.slots[i])
  BY Zenon DEF QueueInv, SlotInv
<1>2. \A i \in DOMAIN f : SlotShape(f[i]) /\ (i \notin {} => SlotInv(f[i]))
  BY <1>1, AlikeInv, Zenon
<1>3. QueueShape(r, {}) /\ {} \subseteq DOMAIN f \union {}
  BY ShapeInv
<1>4. /\ QueueShape(u, {}) /\ u.devices = r.devices
      /\ \A i \in Slots : u.slots[i] = IF i \in DOMAIN f THEN f[i] ELSE r.slots[i]
  BY <1>2, <1>3, WithSlotsIs
<1>5. QueueInv(u) /\ Present(r, u)
  BY <1>4, ShapeInv DEF Present
<1>6. ASSUME NEW i \in Slots PROVE Kept(r.slots[i], u.slots[i], {})
  <2>1. CASE i \in DOMAIN f
    BY <1>4, <2>1, AlikeKept, Zenon
  <2>2. CASE i \notin DOMAIN f
    BY <1>4, <2>2, KeptSame, Zenon
  <2> QED
    BY <2>1, <2>2
<1> QED
  BY <1>5, <1>6, Zenon DEF KeptAll

\* Deadlines come nearer.
LEMMA TickIs ==
    ASSUME NEW r, QueueInv(r), NEW u,
           u = WithSlots(r, [i \in LiveSlots(r) |-> [r.slots[i] EXCEPT !.deadline = OneLess(@)]])
    PROVE  KeptAll(r, u)
<1> DEFINE f == [i \in LiveSlots(r) |-> [r.slots[i] EXCEPT !.deadline = OneLess(@)]]
<1>1. /\ DOMAIN f = LiveSlots(r) /\ LiveSlots(r) \subseteq Slots
      /\ \A i \in DOMAIN f : f[i] = [r.slots[i] EXCEPT !.deadline = OneLess(@)]
  BY DEF LiveSlots
<1>2. u = WithSlots(r, f)
  OBVIOUS
<1> HIDE DEF f
<1>3. ASSUME NEW i \in DOMAIN f PROVE Alike(r.slots[i], f[i])
  <2> DEFINE s == r.slots[i]
             z == OneLess(s.deadline)
  <2>1. f[i] = [s EXCEPT !.deadline = z] /\ SlotInv(s)
    BY <1>1 DEF QueueInv
  <2> HIDE DEF s, z
  <2>2. Alike(s, f[i])
    BY <2>1 DEF Alike, SlotInv, SlotShape
  <2> QED
    BY <2>2 DEF s
<1> QED
  BY <1>1, <1>2, <1>3, AlikeSlots, Zenon

\* The queue with the driver's device and no request.
LEMMA RegisteredInv ==
    ASSUME NEW config, NEW r, r = Registered(NewQueue, config)
    PROVE  QueueInv(r) /\ \A i \in Slots : r.slots[i].state = "Free"
<1> DEFINE d == Min(DeviceRoom(NewQueue))
           old == NewQueue.devices[d]
           x == [EmptyDevice EXCEPT !.gen = IF old.ever THEN old.gen + 1 ELSE old.gen,
                                    !.ever = TRUE, !.present = TRUE,
                                    !.depth = config.depth, !.flush = config.flush,
                                    !.final = IF NewQueue.shutdown = "Quiescing" THEN "Pending" ELSE "None"]
<1>1. r = [NewQueue EXCEPT !.devices[d] = x]
  BY DEF Registered
<1>2. DeviceInv(EmptyDevice) /\ DeviceInv(x)
  <2> HIDE DEF d, old
  <2> QED
    BY DEF DeviceInv, EmptyDevice, Priorities
<1> HIDE DEF x, d
<1>3. /\ DOMAIN NewQueue = {"slots", "devices", "queues", "flight", "shutdown"}
      /\ NewQueue.slots = [i \in Slots |-> VacantSlot(1)]
      /\ NewQueue.devices = [e \in DeviceSlots |-> EmptyDevice]
      /\ NewQueue.queues = [p \in Priorities |-> <<>>]
  <2> HIDE DEF old
  <2> QED
    BY DEF NewQueue
<1>4. /\ DOMAIN r = DOMAIN NewQueue /\ r.slots = NewQueue.slots /\ r.queues = NewQueue.queues
      /\ r.devices = [NewQueue.devices EXCEPT ![d] = x]
  BY <1>1, <1>3
<1>5. DOMAIN r.slots = Slots /\ \A i \in Slots : r.slots[i] = VacantSlot(1)
  BY <1>3, <1>4
<1>6. DOMAIN r.devices = DeviceSlots /\ \A e \in DeviceSlots : r.devices[e] = x \/ r.devices[e] = EmptyDevice
  BY <1>3, <1>4
<1>7. DOMAIN r.queues = Priorities /\ \A p \in Priorities : r.queues[p] \in Seq(Entry)
  BY <1>3, <1>4, SeqEmpty
<1>8. 1 \in 1..MaxGeneration
  BY SizeAssumption
<1>9. SlotInv(VacantSlot(1)) /\ VacantSlot(1).state = "Free"
  BY <1>8, VacantInv, Zenon
<1>10. \A i \in Slots : SlotInv(r.slots[i]) /\ r.slots[i].state = "Free"
  BY <1>5, <1>9, Zenon
<1>11. \A e \in DeviceSlots : DeviceInv(r.devices[e])
  BY <1>2, <1>6, Zenon
<1> QED
  BY <1>3, <1>4, <1>5, <1>6, <1>7, <1>10, <1>11, Zenon DEF QueueInv

\* A command the driver refuses at once is as if it had not been dispatched.
LEMMA RefusedIs ==
    ASSUME NEW r, NEW u, Dispatch(r, u), u.token # None, NEW status, NEW v,
           v = Completed(u.q, u.token, status)
    PROVE  KeptAll(r, v)
<1> DEFINE t == u.token
           i == t.id.slot
<1>1. KeptAll(r, u.q) /\ QueueInv(u.q)
  BY DEF Dispatch, KeptAll
<1>2. ~t.final => /\ i \in Slots
                  /\ t.child \notin InFlight(r.slots[i])
  BY DEF Dispatch
<1>3. Completion(u.q, v, t)
  <2> HIDE DEF t
  <2> QED
    BY <1>1, <1>2, CompletedIs DEF t
<1>4. CASE t.final
  BY <1>1, <1>3, <1>4, AllTwice DEF Completion
<1>5. CASE ~t.final
  <2>1. KeptBut(u.q, v, i, {t.child})
    BY <1>3, <1>5 DEF Completion
  <2> HIDE DEF t, i
  <2>2. ASSUME NEW j \in Slots PROVE Kept(r.slots[j], v.slots[j], {})
    <3>1. Kept(r.slots[j], u.q.slots[j], {})
      BY <1>1, Zenon DEF KeptAll
    <3>2. Kept(u.q.slots[j], v.slots[j], IF j = i THEN {t.child} ELSE {})
      BY <2>1, Zenon DEF KeptBut
    <3>3. CASE j = i
      <4>1. InFlight(r.slots[j]) \subseteq InFlight(u.q.slots[j]) \ {t.child}
        BY <1>2, <1>5, <3>1, <3>3 DEF Kept
      <4>2. Kept(u.q.slots[j], v.slots[j], {t.child})
        BY <3>2, <3>3
      <4> QED
        BY <3>1, <4>1, <4>2, Zenon DEF Kept
    <3>4. CASE j # i
      BY <3>1, <3>2, <3>4, KeptTwice
    <3> QED
      BY <3>3, <3>4
  <2>3. QueueInv(v) /\ Present(r, v)
    BY <1>1, <2>1 DEF KeptBut, KeptAll, Present
  <2> QED
    BY <2>2, <2>3 DEF KeptAll
<1> QED
  BY <1>4, <1>5

=============================================================================
