-------------------------- MODULE ComponentProofs --------------------------
(***************************************************************************)
(* Proofs about the component and its engine together, for every value of  *)
(* the constants.                                                          *)
(***************************************************************************)
EXTENDS ComponentProperties, OperationProofs, PlanProofs, WellFoundedInduction

(***************************************************************************)
(* The newest operation of a sequence that names a field.                  *)
(***************************************************************************)
LEMMA MaxOf ==
    ASSUME NEW n \in Nat, NEW S \in SUBSET (1 .. n), S # {}
    PROVE  Max(S) \in S /\ \A y \in S : y <= Max(S)
<1> DEFINE R == OpToRel(<, Nat)
           T == {n - x : x \in S}
<1>1. IsWellFoundedOn(R, Nat)
  BY NatLessThanWellFounded
<1>2. \A x, y \in Nat : x < y => <<x, y>> \in R
  BY DEF OpToRel
<1> HIDE DEF R
<1>3. T \subseteq Nat /\ T # {}
  <2>1. \A x \in S : n - x \in Nat
    OBVIOUS
  <2> QED
    BY <2>1
<1>4. PICK m \in T : \A y \in T : ~ (<<y, m>> \in R)
  BY <1>1, <1>3, WFMin
<1>5. PICK x \in S : m = n - x
  BY <1>4
<1>6. \A y \in S : x >= y
  <2> SUFFICES ASSUME NEW y \in S, ~ (x >= y) PROVE FALSE
    OBVIOUS
  <2>1. n - y < m /\ n - y \in T /\ n - y \in Nat /\ m \in Nat
    BY <1>5
  <2> QED
    BY <1>2, <1>4, <2>1
<1>7. Max(S) \in S /\ \A y \in S : Max(S) >= y
  BY <1>6 DEF Max
<1> DEFINE m0 == Max(S)
<1> HIDE DEF m0
<1>8. m0 \in S /\ \A y \in S : m0 >= y
  BY <1>7 DEF m0
<1>9. m0 \in S /\ \A y \in S : y <= m0
  BY <1>8
<1> QED
  BY <1>9 DEF m0

NamingIn(s, f) == {i \in DOMAIN s : Names(s[i].request, f)}

IsNewest(s, f, j) == j \in NamingIn(s, f) /\ \A i \in NamingIn(s, f) : i <= j

LEMMA NewestIsMax ==
    ASSUME NEW s \in Seq(Operation), NEW f
    PROVE  /\ NamingIn(s, f) # {} => IsNewest(s, f, Max(NamingIn(s, f)))
           /\ \A j : IsNewest(s, f, j) =>
                 NamingIn(s, f) # {} /\ j = Max(NamingIn(s, f)) /\ j \in 1 .. Len(s)
<1> DEFINE S == NamingIn(s, f)
<1>1. Len(s) \in Nat /\ S \subseteq 1 .. Len(s)
  BY LenProperties DEF NamingIn
<1>2. S # {} => Max(S) \in S /\ \A y \in S : y <= Max(S)
  BY <1>1, MaxOf
<1>3. ASSUME NEW j, IsNewest(s, f, j)
      PROVE  S # {} /\ j = Max(S) /\ j \in 1 .. Len(s)
  <2>1. j \in S /\ \A y \in S : y <= j
    BY <1>3 DEF IsNewest
  <2>2. Max(S) <= j /\ j <= Max(S) /\ j \in Int /\ Max(S) \in Int
    BY <1>1, <1>2, <2>1
  <2>3. j = Max(S)
    BY <2>2
  <2> QED
    BY <1>1, <2>1, <2>3
<1> QED
  BY <1>2, <1>3 DEF IsNewest

(***************************************************************************)
(* The overlay p of the live operations s: OverlayIsNewest without Max.    *)
(***************************************************************************)
ShownAs(op, f) ==
    [value |-> op.request[f], generation |-> op.generation, age |-> op.age]

Overlay(s, p, expiring) ==
    /\ DOMAIN p \subseteq ClimateField
    /\ \A f \in DOMAIN p : \E j : IsNewest(s, f, j) /\ p[f] = ShownAs(s[j], f)
    /\ \A f \in ClimateField \ DOMAIN p : \A j :
          IsNewest(s, f, j) => expiring /\ Old(s[j])

LEMMA OverlayForm ==
    ASSUME NEW s \in Seq(Operation), NEW p, NEW expiring \in BOOLEAN
    PROVE  Overlay(s, p, expiring) <=>
             LET wanted == {f \in ClimateField : NamingIn(s, f) # {}}
                 newest(f) == s[Max(NamingIn(s, f))]
             IN  /\ DOMAIN p \subseteq wanted
                 /\ \A f \in DOMAIN p : p[f] = ShownAs(newest(f), f)
                 /\ \A f \in wanted \ DOMAIN p : expiring /\ Old(newest(f))
BY NewestIsMax DEF Overlay

LiveShape ==
    /\ Live \in Seq(Operation)
    /\ Len(queue) \in Nat /\ DOMAIN queue = 1 .. Len(queue)
    /\ Len(Live) = Len(queue) + (IF Active THEN 1 ELSE 0)
    /\ DOMAIN Live = 1 .. Len(Live) /\ Len(Live) \in Nat
    /\ Active => /\ Live[1] = current
                 /\ \A i \in 1 .. Len(queue) : Live[i + 1] = queue[i]
    /\ ~Active => \A i \in 1 .. Len(queue) : Live[i] = queue[i]

LEMMA LiveForm == ASSUME OperationsOK PROVE LiveShape
<1> DEFINE head == When(Active, <<current>>)
<1>1. queue \in Seq(Operation) /\ Len(queue) \in Nat /\ DOMAIN queue = 1 .. Len(queue)
  BY LenProperties DEF OperationsOK
<1>2. head \in Seq(Operation) /\ Len(head) = (IF Active THEN 1 ELSE 0)
      /\ (Active => head[1] = current)
  <2>1. CASE Active
    <3>1. current \in Operation /\ head = <<current>>
      BY <2>1 DEF OperationsOK, Active, When
    <3>2. \A op \in Operation : /\ <<op>> \in Seq(Operation)
                               /\ Len(<<op>>) = 1 /\ <<op>>[1] = op
      OBVIOUS
    <3> QED
      BY <2>1, <3>1, <3>2
  <2>2. CASE ~Active
    BY <2>2, EmptySeq DEF When
  <2> QED
    BY <2>1, <2>2
<1> HIDE DEF head
<1>3. Live = head \o queue
  BY DEF Live, head
<1>4. /\ Live \in Seq(Operation) /\ Len(Live) = Len(head) + Len(queue)
      /\ \A i \in 1 .. Len(head) + Len(queue) :
            Live[i] = IF i <= Len(head) THEN head[i] ELSE queue[i - Len(head)]
  BY <1>1, <1>2, <1>3, ConcatProperties
<1>5. DOMAIN Live = 1 .. Len(Live) /\ Len(Live) \in Nat
  BY <1>4, LenProperties
<1>6. ASSUME Active
      PROVE  Live[1] = current /\ \A i \in 1 .. Len(queue) : Live[i + 1] = queue[i]
  <2>1. Len(head) = 1 /\ head[1] = current
    BY <1>2, <1>6
  <2>2. Live[1] = current
    BY <1>1, <1>4, <2>1
  <2>3. ASSUME NEW i \in 1 .. Len(queue) PROVE Live[i + 1] = queue[i]
    <3>1. i + 1 \in 1 .. 1 + Len(queue) /\ ~(i + 1 <= 1) /\ (i + 1) - 1 = i
      BY <1>1
    <3> QED
      BY <1>4, <2>1, <3>1
  <2> QED
    BY <2>2, <2>3
<1>7. ASSUME ~Active, NEW i \in 1 .. Len(queue) PROVE Live[i] = queue[i]
  <2>1. Len(head) = 0
    BY <1>2, <1>7
  <2>2. i \in 1 .. 0 + Len(queue) /\ ~(i <= 0) /\ i - 0 = i
    BY <1>1
  <2> QED
    BY <1>4, <2>1, <2>2
<1>8. Len(Live) = Len(queue) + (IF Active THEN 1 ELSE 0)
  BY <1>1, <1>2, <1>4
<1> QED
  BY <1>1, <1>4, <1>5, <1>6, <1>7, <1>8 DEF LiveShape

LEMMA LiveFormNext == OperationsOK' => LiveShape'
<1>1. OperationsOK => LiveShape
  BY LiveForm
<1> QED
  BY <1>1, PTL

OverlayInv == Overlay(Live, pending, turn = "in")

LEMMA OverlayNow == OperationsOK => (OverlayIsNewest <=> OverlayInv)
<1> SUFFICES ASSUME OperationsOK PROVE OverlayIsNewest <=> OverlayInv
  OBVIOUS
<1>1. Live \in Seq(Operation) /\ (turn = "in") \in BOOLEAN
  BY LiveForm DEF LiveShape
<1> QED
  BY <1>1, OverlayForm
  DEF OverlayIsNewest, Wanted, Newest, Naming, NamingIn, ShownAs, OverlayInv

LEMMA OverlayNext == OperationsOK' => (OverlayIsNewest' <=> OverlayInv')
BY OverlayNow, PTL

LEMMA OverFacts ==
    ASSUME NEW p, NEW q
    PROVE  /\ DOMAIN Over(p, q) = DOMAIN p \cup DOMAIN q
           /\ \A f \in DOMAIN p : Over(p, q)[f] = p[f]
           /\ \A f \in DOMAIN q \ DOMAIN p : Over(p, q)[f] = q[f]
BY DEF Over

(***************************************************************************)
(* What the steps do to the overlay: the oldest operations end, all grow   *)
(* older, settings expire, and a new operation is appended or takes the    *)
(* place of the newest one.                                                *)
(***************************************************************************)
LEMMA OpFacts ==
    ASSUME NEW s \in Seq(Operation)
    PROVE  /\ Len(s) \in Nat /\ DOMAIN s = 1 .. Len(s)
           /\ \A i \in 1 .. Len(s) : /\ s[i] \in Operation
                                      /\ s[i].generation \in Generation
                                      /\ s[i].age \in Nat
<1>1. Len(s) \in Nat /\ DOMAIN s = 1 .. Len(s) /\ \A i \in 1 .. Len(s) : s[i] \in Operation
  BY LenProperties, ElementOfSeq
<1>2. \A op \in Operation : op.generation \in Generation /\ op.age \in Nat
  BY ClockFacts DEF Operation
<1> QED
  BY <1>1, <1>2

LEMMA NewestIsOne ==
    ASSUME NEW s \in Seq(Operation), NEW f, NEW i, NEW j,
           IsNewest(s, f, i), IsNewest(s, f, j)
    PROVE  i = j
<1>1. i \in 1 .. Len(s) /\ j \in 1 .. Len(s)
  BY NewestIsMax
<1>2. i <= j /\ j <= i
  BY DEF IsNewest
<1> QED
  BY <1>1, <1>2

\* The k oldest operations end, and what is shown of them is cleared.
LEMMA OverlayDrops ==
    ASSUME NEW s \in Seq(Operation), NEW t \in Seq(Operation), DistinctOps(s),
           NEW k \in 0 .. Len(s), Len(t) = Len(s) - k,
           \A i \in 1 .. Len(t) : t[i] = s[i + k],
           NEW gone,
           \A g \in Generation :
               g \in gone <=> \E i \in 1 .. k : s[i].generation = g,
           NEW p, NEW expiring, Overlay(s, p, expiring)
    PROVE  Overlay(t, Completed(p, gone), expiring)
<1> DEFINE q == Completed(p, gone)
<1>1. /\ DOMAIN q = {f \in DOMAIN p : p[f].generation \notin gone}
      /\ \A f \in DOMAIN q : q[f] = p[f]
  BY DEF Completed, Without
<1> HIDE DEF q
<1>2. /\ Len(s) \in Nat /\ DOMAIN s = 1 .. Len(s) /\ k \in Nat
      /\ \A i \in 1 .. Len(s) : s[i].generation \in Generation
      /\ DOMAIN t = 1 .. Len(t) /\ Len(t) = Len(s) - k
  BY OpFacts
<1>3. \A f, i : i \in NamingIn(t, f) <=>
                  i \in 1 .. Len(s) - k /\ i + k \in NamingIn(s, f)
  BY <1>2 DEF NamingIn
<1>4. ASSUME NEW f, NEW i, IsNewest(t, f, i)
      PROVE  i \in 1 .. Len(t) /\ IsNewest(s, f, i + k)
  <2>1. i \in 1 .. Len(s) - k /\ i + k \in NamingIn(s, f)
    BY <1>3, <1>4 DEF IsNewest
  <2>2. ASSUME NEW l \in NamingIn(s, f) PROVE l <= i + k
    <3>1. l \in 1 .. Len(s)
      BY <1>2 DEF NamingIn
    <3>2. CASE l <= k
      BY <1>2, <2>1, <3>1, <3>2
    <3>3. CASE ~(l <= k)
      <4>1. l - k \in 1 .. Len(s) - k /\ (l - k) + k = l
        BY <1>2, <3>1, <3>3
      <4>2. l - k <= i
        BY <1>3, <1>4, <4>1 DEF IsNewest
      <4> QED
        BY <1>2, <2>1, <3>1, <4>2
    <3> QED
      BY <3>2, <3>3
  <2> QED
    BY <1>2, <2>1, <2>2 DEF IsNewest
<1>5. ASSUME NEW f, NEW j, IsNewest(s, f, j), j > k
      PROVE  IsNewest(t, f, j - k) /\ t[j - k] = s[j]
  <2>1. j \in 1 .. Len(s) /\ j - k \in 1 .. Len(s) - k /\ (j - k) + k = j
    BY <1>2, <1>5 DEF IsNewest, NamingIn
  <2>2. j - k \in NamingIn(t, f)
    BY <1>3, <1>5, <2>1 DEF IsNewest
  <2>3. ASSUME NEW l \in NamingIn(t, f) PROVE l <= j - k
    <3>1. l \in 1 .. Len(s) - k /\ l + k <= j
      BY <1>3, <1>5 DEF IsNewest
    <3> QED
      BY <1>2, <2>1, <3>1
  <2> QED
    BY <1>2, <2>1, <2>2, <2>3 DEF IsNewest
<1>6. ASSUME NEW f \in DOMAIN q
      PROVE  \E j : IsNewest(t, f, j) /\ q[f] = ShownAs(t[j], f)
  <2>1. PICK j : IsNewest(s, f, j) /\ p[f] = ShownAs(s[j], f)
    BY <1>1 DEF Overlay
  <2>2. j \in 1 .. Len(s) /\ s[j].generation \in Generation \ gone
    BY <1>1, <1>2, <2>1 DEF IsNewest, NamingIn, ShownAs
  <2>3. j > k
    <3>1. ~ \E i \in 1 .. k : s[i].generation = s[j].generation
      BY <2>2
    <3>2. ~ (j \in 1 .. k)
      BY <3>1
    <3> QED
      BY <1>2, <2>2, <3>2
  <2> QED
    BY <1>1, <1>5, <2>1, <2>3
<1>7. ASSUME NEW f \in ClimateField \ DOMAIN q, NEW i, IsNewest(t, f, i)
      PROVE  expiring /\ Old(t[i])
  <2>1. i \in 1 .. Len(t) /\ IsNewest(s, f, i + k) /\ t[i] = s[i + k]
    BY <1>4, <1>7
  <2>2. ASSUME f \in DOMAIN p PROVE FALSE
    <3>1. p[f] = ShownAs(s[i + k], f) /\ p[f].generation \in gone
      BY <1>1, <1>7, <2>1, <2>2, NewestIsOne DEF Overlay
    <3>2. i + k \in 1 .. Len(s) /\ s[i + k].generation \in gone
      BY <1>2, <2>1, <3>1 DEF ShownAs
    <3>3. PICK l \in 1 .. k : s[l].generation = s[i + k].generation
      BY <1>2, <3>2
    <3>4. l = i + k
      BY <1>2, <3>2, <3>3 DEF DistinctOps
    <3> QED
      BY <1>2, <2>1, <3>4
  <2> QED
    BY <2>1, <2>2 DEF Overlay
<1> QED
  BY <1>1, <1>6, <1>7 DEF Overlay, q

\* Time passes: what is old stays old.
LEMMA OverlayAges ==
    ASSUME NEW s \in Seq(Operation), NEW t \in Seq(Operation),
           Len(t) = Len(s),
           \A i \in 1 .. Len(s) : /\ t[i].request = s[i].request
                                  /\ t[i].generation = s[i].generation
                                  /\ t[i].age = Older(s[i].age)
                                  /\ Old(s[i]) => Old(t[i]),
           NEW p, NEW expiring, Overlay(s, p, expiring)
    PROVE  Overlay(t, [f \in DOMAIN p |-> [p[f] EXCEPT !.age = Older(@)]], expiring)
<1>1. DOMAIN s = 1 .. Len(s) /\ DOMAIN t = 1 .. Len(s)
  BY OpFacts
<1>2. \A f : NamingIn(t, f) = NamingIn(s, f) /\ NamingIn(s, f) \subseteq 1 .. Len(s)
  BY <1>1 DEF NamingIn
<1>3. \A f, j : IsNewest(t, f, j) <=> IsNewest(s, f, j)
  BY <1>2 DEF IsNewest
<1>4. \A f, j : IsNewest(s, f, j) => j \in 1 .. Len(s)
  BY <1>2 DEF IsNewest
<1>5. ASSUME NEW f \in DOMAIN p
      PROVE  \E j : /\ IsNewest(t, f, j)
                    /\ [p[f] EXCEPT !.age = Older(@)] = ShownAs(t[j], f)
  <2>1. PICK j : IsNewest(s, f, j) /\ p[f] = ShownAs(s[j], f)
    BY DEF Overlay
  <2>2. [ShownAs(s[j], f) EXCEPT !.age = Older(@)] = ShownAs(t[j], f)
    BY <1>4, <2>1 DEF ShownAs
  <2> QED
    BY <1>3, <2>1, <2>2
<1> QED
  BY <1>3, <1>4, <1>5 DEF Overlay

\* Settings expire with their operations.
LEMMA OverlayExpires ==
    ASSUME NEW s \in Seq(Operation), NEW p, Overlay(s, p, FALSE)
    PROVE  Overlay(s, Without(p, {f \in DOMAIN p : p[f].age >= OperationTimeout}), TRUE)
<1> DEFINE q == Without(p, {f \in DOMAIN p : p[f].age >= OperationTimeout})
<1>1. /\ DOMAIN q = {f \in DOMAIN p : ~(p[f].age >= OperationTimeout)}
      /\ \A f \in DOMAIN q : q[f] = p[f]
  BY DEF Without
<1> HIDE DEF q
<1>2. ASSUME NEW f \in ClimateField \ DOMAIN q, NEW j, IsNewest(s, f, j)
      PROVE  Old(s[j])
  <2>1. f \in DOMAIN p /\ p[f] = ShownAs(s[j], f)
    BY <1>2, NewestIsOne DEF Overlay
  <2> QED
    BY <1>1, <1>2, <2>1 DEF ShownAs, Old
<1> QED
  BY <1>1, <1>2 DEF Overlay, q

\* l shows op over q.
ShowsOver(l, q, op) ==
    /\ DOMAIN l = DOMAIN op.request \cup DOMAIN q
    /\ \A f \in DOMAIN op.request : l[f] = ShownAs(op, f)
    /\ \A f \in DOMAIN q \ DOMAIN op.request : l[f] = q[f]

LEMMA LaidFacts ==
    ASSUME NEW op, NEW q, op.age = 0
    PROVE  ShowsOver(Laid(q, op.request, op.generation), q, op)
<1> DEFINE r == op.request
           new == [f \in DOMAIN r |-> [value |-> r[f], generation |-> op.generation, age |-> 0]]
<1>1. DOMAIN new = DOMAIN r /\ \A f \in DOMAIN r : new[f] = ShownAs(op, f)
  BY DEF ShownAs
<1>2. Laid(q, r, op.generation) = Over(new, q)
  BY DEF Laid
<1> HIDE DEF new, r
<1>3. /\ DOMAIN Over(new, q) = DOMAIN new \cup DOMAIN q
      /\ \A f \in DOMAIN new : Over(new, q)[f] = new[f]
      /\ \A f \in DOMAIN q \ DOMAIN new : Over(new, q)[f] = q[f]
  BY OverFacts
<1>4. /\ DOMAIN Over(new, q) = DOMAIN r \cup DOMAIN q
      /\ \A f \in DOMAIN r : Over(new, q)[f] = ShownAs(op, f)
      /\ \A f \in DOMAIN q \ DOMAIN r : Over(new, q)[f] = q[f]
  BY <1>1, <1>3
<1>5. ShowsOver(Over(new, q), q, op)
  BY <1>4 DEF ShowsOver, r
<1> QED
  BY <1>2, <1>5 DEF r

\* An operation op is accepted: s becomes t, whose newest is number n, and
\* gone are the generations, if any, that it takes the place of.
Accepts(s, t, n, op, gone) ==
    /\ n \in 1 .. Len(s) + 1 /\ n >= Len(s) /\ Len(t) = n
    /\ \A i \in 1 .. n - 1 : t[i] = s[i]
    /\ t[n] = op /\ op.age = 0
    /\ n = Len(s) => DOMAIN s[n].request = DOMAIN op.request
    /\ \A g \in Generation : g \in gone => n = Len(s) /\ g = s[n].generation

LEMMA OverlayAccepts ==
    ASSUME NEW s \in Seq(Operation), NEW t \in Seq(Operation), DistinctOps(s),
           NEW n, NEW op, NEW gone, Accepts(s, t, n, op, gone),
           NEW p, NEW expiring, Overlay(s, p, expiring),
           NEW q, q = Completed(p, gone), NEW l, ShowsOver(l, q, op)
    PROVE  /\ DOMAIN op.request \subseteq ClimateField => Overlay(t, l, expiring)
           /\ DOMAIN op.request \cap ClimateField = {} =>
                  Overlay(t, q, expiring) /\ DOMAIN q = DOMAIN p
<1> SUFFICES ASSUME n \in 1 .. Len(s) + 1, n >= Len(s), Len(t) = n,
                    \A i \in 1 .. n - 1 : t[i] = s[i],
                    t[n] = op, op.age = 0,
                    n = Len(s) => DOMAIN s[n].request = DOMAIN op.request,
                    \A g \in Generation : g \in gone => n = Len(s) /\ g = s[n].generation
             PROVE  /\ DOMAIN op.request \subseteq ClimateField => Overlay(t, l, expiring)
                    /\ DOMAIN op.request \cap ClimateField = {} =>
                          Overlay(t, q, expiring) /\ DOMAIN q = DOMAIN p
  BY DEF Accepts
<1> DEFINE r == op.request
<1>2. /\ DOMAIN q = {f \in DOMAIN p : p[f].generation \notin gone}
      /\ \A f \in DOMAIN q : q[f] = p[f]
  BY DEF Completed, Without
<1>3. /\ DOMAIN l = DOMAIN r \cup DOMAIN q
      /\ \A f \in DOMAIN r : l[f] = ShownAs(op, f)
      /\ \A f \in DOMAIN q \ DOMAIN r : l[f] = q[f]
  BY DEF ShowsOver
<1>4. /\ Len(s) \in Nat /\ DOMAIN s = 1 .. Len(s) /\ DOMAIN t = 1 .. n
      /\ \A i \in 1 .. Len(s) : s[i].generation \in Generation
  BY OpFacts
<1> DEFINE m == Len(s)
<1>5. /\ m \in Nat /\ DOMAIN s = 1 .. m /\ DOMAIN t = 1 .. n /\ n \in 1 .. m + 1 /\ n >= m
  BY <1>4
<1>6. /\ n \in 1 .. n /\ \A i \in 1 .. n : i <= n
      /\ 1 .. n - 1 \subseteq 1 .. m /\ 1 .. n - 1 \subseteq 1 .. n
      /\ n \notin 1 .. n - 1
      /\ \A i \in 1 .. m \cup 1 .. n : i # n => i \in 1 .. n - 1
  <2> HIDE DEF m
  <2> QED
    BY <1>5
<1>7. n \in 1 .. m => n = m
  <2> HIDE DEF m
  <2> QED
    BY <1>5
<1>8. ASSUME NEW f, f \notin DOMAIN r PROVE n \notin NamingIn(s, f)
  <2>1. ASSUME n \in DOMAIN s PROVE DOMAIN s[n].request = DOMAIN r
    BY <1>5, <1>7, <2>1
  <2> QED
    BY <1>8, <2>1 DEF NamingIn, Names
<1>9. ASSUME NEW f, f \in DOMAIN r
      PROVE  IsNewest(t, f, n)
  <2>1. n \in NamingIn(t, f) /\ \A i \in NamingIn(t, f) : i <= n
    BY <1>5, <1>6, <1>9 DEF NamingIn, Names
  <2> QED
    BY <2>1 DEF IsNewest
<1>10. ASSUME NEW f, f \notin DOMAIN r
      PROVE  NamingIn(t, f) = NamingIn(s, f) /\ NamingIn(s, f) \subseteq 1 .. n - 1
  <2>1. ASSUME NEW i \in NamingIn(s, f) PROVE i \in 1 .. n - 1 /\ i \in NamingIn(t, f)
    <3>1. i \in 1 .. Len(s) /\ f \in DOMAIN s[i].request
      BY <1>4 DEF NamingIn, Names
    <3>2. i # n
      BY <1>8, <1>10
    <3>3. i \in 1 .. n - 1 /\ i \in DOMAIN t /\ t[i] = s[i]
      BY <1>5, <1>6, <3>1, <3>2
    <3> QED
      BY <3>1, <3>3 DEF NamingIn, Names
  <2>2. ASSUME NEW i \in NamingIn(t, f) PROVE i \in NamingIn(s, f)
    <3>1. i \in 1 .. n /\ f \in DOMAIN t[i].request
      BY <1>4 DEF NamingIn, Names
    <3>2. i # n
      BY <1>10, <3>1
    <3>3. i \in 1 .. n - 1 /\ i \in DOMAIN s /\ t[i] = s[i]
      BY <1>5, <1>6, <3>1, <3>2
    <3> QED
      BY <3>1, <3>3 DEF NamingIn, Names
  <2> QED
    BY <2>1, <2>2
<1>11. ASSUME NEW f, f \notin DOMAIN r, NEW j
      PROVE  /\ IsNewest(t, f, j) <=> IsNewest(s, f, j)
             /\ IsNewest(s, f, j) => j \in 1 .. n - 1 /\ t[j] = s[j]
  BY <1>10, <1>11 DEF IsNewest
<1>12. ASSUME NEW f \in DOMAIN p, f \notin DOMAIN r
      PROVE  /\ f \in DOMAIN q
             /\ \E j : IsNewest(t, f, j) /\ q[f] = ShownAs(t[j], f)
  <2>1. PICK j : IsNewest(s, f, j) /\ p[f] = ShownAs(s[j], f)
    BY DEF Overlay
  <2>2. j \in 1 .. n - 1 /\ t[j] = s[j] /\ IsNewest(t, f, j)
    BY <1>11, <1>12, <2>1
  <2>3. ASSUME s[j].generation \in gone PROVE FALSE
    <3>1. j \in DOMAIN s /\ s[j].generation \in Generation
      BY <1>4, <1>6, <2>2
    <3>2. n = Len(s) /\ s[j].generation = s[n].generation
      BY <2>3, <3>1
    <3>3. n \in DOMAIN s
      BY <1>5, <1>6, <3>2
    <3>4. j = n
      BY <3>1, <3>2, <3>3 DEF DistinctOps
    <3> QED
      BY <1>6, <2>2, <3>4
  <2>4. f \in DOMAIN q
    BY <1>2, <2>1, <2>3 DEF ShownAs
  <2> QED
    BY <1>2, <2>1, <2>2, <2>4
<1>13. ASSUME NEW f \in ClimateField \ DOMAIN p, f \notin DOMAIN r, NEW j,
             IsNewest(t, f, j)
      PROVE  expiring /\ Old(t[j])
  BY <1>11, <1>13 DEF Overlay
<1>14. ASSUME DOMAIN r \subseteq ClimateField PROVE Overlay(t, l, expiring)
  <2>1. DOMAIN l \subseteq ClimateField
    BY <1>2, <1>3, <1>14 DEF Overlay
  <2>2. ASSUME NEW f \in DOMAIN l
        PROVE  \E j : IsNewest(t, f, j) /\ l[f] = ShownAs(t[j], f)
    BY <1>2, <1>3, <1>9, <1>12
  <2>3. ASSUME NEW f \in ClimateField \ DOMAIN l, NEW j, IsNewest(t, f, j)
        PROVE  expiring /\ Old(t[j])
    BY <1>3, <1>12, <1>13, <2>3
  <2> QED
    BY <2>1, <2>2, <2>3 DEF Overlay
<1>15. ASSUME DOMAIN r \cap ClimateField = {}
       PROVE  Overlay(t, q, expiring) /\ DOMAIN q = DOMAIN p
  <2>1. \A f \in ClimateField : f \notin DOMAIN r
    BY <1>15
  <2>2. DOMAIN p \subseteq ClimateField /\ DOMAIN q \subseteq DOMAIN p
    BY <1>2 DEF Overlay
  <2>3. DOMAIN q = DOMAIN p
    BY <1>12, <2>1, <2>2
  <2> QED
    BY <1>12, <1>13, <2>1, <2>2, <2>3 DEF Overlay
<1> QED
  BY <1>14, <1>15

(***************************************************************************)
(* What a step of the engine does to the live operations.                  *)
(***************************************************************************)
EngineInv == IInv /\ UInv /\ LInv

Drops(k) ==
    /\ k \in 0 .. Len(Live) /\ Len(Live') = Len(Live) - k
    /\ \A i \in 1 .. Len(Live') : Live'[i] = Live[i + k]

LEMMA EngineShape == EngineInv => LiveShape /\ OperationsOK
BY LiveForm DEF EngineInv, IInv, TypeOK

LEMMA EngineShapeNext == EngineInv' => LiveShape' /\ OperationsOK'
<1>1. EngineInv => LiveShape /\ OperationsOK
  BY EngineShape
<1> QED
  BY <1>1, PTL

LiveNames == LiveGenerations = {Live[i].generation : i \in 1 .. Len(Live)}

LEMMA LiveDistinct ==
    ASSUME EngineInv
    PROVE  DistinctOps(Live) /\ Live \in Seq(Operation) /\ LiveNames
<1>1. LiveShape /\ UInv
  BY EngineShape DEF EngineInv
<1>2. CASE Active
  <2>1. /\ Len(queue) \in Nat /\ Len(Live) = Len(queue) + 1 /\ DOMAIN Live = 1 .. Len(Live)
        /\ Live[1] = current /\ \A i \in 1 .. Len(queue) : Live[i + 1] = queue[i]
        /\ DOMAIN queue = 1 .. Len(queue)
    BY <1>1, <1>2 DEF LiveShape
  <2>2. ASSUME NEW i \in DOMAIN Live
        PROVE  \/ i = 1 /\ Live[i] = current
               \/ i - 1 \in DOMAIN queue /\ Live[i] = queue[i - 1] /\ i # 1
    <3>1. i = 1 \/ (i - 1 \in 1 .. Len(queue) /\ (i - 1) + 1 = i /\ i # 1)
      BY <2>1
    <3> QED
      BY <2>1, <3>1
  <2>3. ASSUME NEW i \in DOMAIN queue
        PROVE  queue[i].generation # current.generation
    BY <1>1, <1>2 DEF UInv, Gens
  <2>4. DistinctOps(Live)
    <3> SUFFICES ASSUME NEW i \in DOMAIN Live, NEW j \in DOMAIN Live,
                        Live[i].generation = Live[j].generation
                 PROVE  i = j
      BY DEF DistinctOps
    <3>1. i = 1 <=> j = 1
      BY <2>2, <2>3
    <3>2. i # 1 => i - 1 = j - 1
      BY <1>1, <2>2, <3>1 DEF UInv, DistinctOps
    <3> QED
      BY <2>1, <3>1, <3>2
  <2>5. \A i \in DOMAIN queue : i + 1 \in DOMAIN Live /\ Live[i + 1] = queue[i]
    BY <2>1
  <2>6. 1 \in DOMAIN Live
    BY <2>1
  <2>7. LiveGenerations = {Live[i].generation : i \in DOMAIN Live}
    BY <1>2, <2>1, <2>2, <2>5, <2>6 DEF LiveGenerations
  <2> QED
    BY <1>1, <2>1, <2>4, <2>7 DEF LiveShape, LiveNames
<1>3. CASE ~Active
  <2>1. /\ Len(queue) \in Nat /\ Len(Live) = Len(queue) /\ DOMAIN Live = DOMAIN queue
        /\ DOMAIN queue = 1 .. Len(queue)
        /\ \A i \in DOMAIN queue : Live[i] = queue[i]
    BY <1>1, <1>3 DEF LiveShape
  <2>2. DistinctOps(Live)
    BY <1>1, <2>1 DEF UInv, DistinctOps
  <2>3. LiveGenerations = {Live[i].generation : i \in DOMAIN Live}
    BY <1>3, <2>1 DEF LiveGenerations
  <2> QED
    BY <1>1, <2>1, <2>2, <2>3 DEF LiveShape, LiveNames
<1> QED
  BY <1>2, <1>3

LEMMA LiveDistinctNext == EngineInv' => LiveNames'
<1>1. EngineInv => LiveNames
  BY LiveDistinct
<1> QED
  BY <1>1, PTL

\* The whole of Live ends, or nothing.
LEMMA AllEnd == ASSUME EngineInv, EngineInv', current' = NoOperation, queue' = <<>>
                PROVE  Drops(Len(Live))
<1>1. ~Active' /\ Len(queue') = 0
  BY EmptySeq DEF Active
<1>2. Len(Live) \in Nat
  BY EngineShape DEF LiveShape
<1>3. Len(Live') = Len(queue')
  BY <1>1, EngineShapeNext DEF LiveShape
<1> QED
  BY <1>1, <1>2, <1>3 DEF Drops

LEMMA TickDrops == ASSUME EngineInv, EngineInv', TickSteps PROVE \E k : Drops(k)
<1>1. \/ current' = NoOperation /\ queue' = <<>>
      \/ current' = current /\ queue' = Waiting /\ ~Expired
      \/ /\ phase = "IDLE" /\ Waiting # <<>>
         /\ current' = Head(Waiting) /\ queue' = Tail(Waiting)
  BY TickServes
<1> DEFINE k == Cardinality(Lapsed)
           n == Len(queue)
<1>2. /\ queue \in Seq(Operation) /\ n \in Nat
      /\ k \in 0 .. n /\ Waiting \in Seq(Operation) /\ Len(Waiting) = n - k
      /\ \A i \in 1 .. Len(Waiting) : Waiting[i] = queue[i + k]
  BY ExpirySplits, QueueFacts DEF EngineInv
<1>3. /\ LiveShape /\ LiveShape'
  BY EngineShape, EngineShapeNext
<1>4. Active /\ ~Expired => k = 0
  <2> SUFFICES ASSUME Active, ~Expired PROVE k = 0
    OBVIOUS
  <2>1. ASSUME NEW i \in Lapsed PROVE FALSE
    <3>1. /\ i \in DOMAIN queue /\ queue[i].age >= OperationTimeout
          /\ queue[i].age \in Nat /\ current.age \in Nat
      BY QueueFacts DEF Lapsed, Old, EngineInv
    <3>2. current.age >= queue[i].age
      BY <3>1 DEF EngineInv, LInv, AcceptanceOrder
    <3>3. ~(current.age >= OperationTimeout)
      BY DEF Expired, Old
    <3> QED
      BY <3>1, <3>2, <3>3, ConstantFacts
  <2>2. Lapsed = {}
    BY <2>1
  <2> QED
    BY <2>2, FS_EmptySet
<1> HIDE DEF k, n
<1>5. CASE current' = NoOperation /\ queue' = <<>>
  BY <1>5, AllEnd
<1>6. CASE current' = current /\ queue' = Waiting /\ ~Expired
  <2>1. Active' <=> Active
    BY <1>6 DEF Active
  <2>2. CASE Active
    <3>1. /\ Len(Live) = n + 1 /\ Live[1] = current
          /\ \A i \in 1 .. n : Live[i + 1] = queue[i]
      BY <1>3, <2>2 DEF LiveShape, n
    <3>2. /\ Len(Live') = n + 1 /\ Live'[1] = current
          /\ \A i \in 1 .. n : Live'[i + 1] = queue'[i]
      BY <1>2, <1>3, <1>4, <1>6, <2>1, <2>2 DEF LiveShape
    <3>3. \A i \in 1 .. n : queue'[i] = queue[i]
      BY <1>2, <1>4, <1>6, <2>2
    <3>4. ASSUME NEW i \in 1 .. n + 1 PROVE Live'[i] = Live[i + 0]
      <4>1. i = 1 \/ i - 1 \in 1 .. n
        BY <1>2
      <4>2. i - 1 \in 1 .. n => Live'[(i - 1) + 1] = Live[(i - 1) + 1]
        BY <3>1, <3>2, <3>3
      <4>3. (i - 1) + 1 = i /\ i + 0 = i
        BY <1>2
      <4> QED
        BY <3>1, <3>2, <4>1, <4>2, <4>3
    <3>5. 0 \in 0 .. Len(Live) /\ Len(Live') = Len(Live) - 0
      BY <1>2, <3>1, <3>2
    <3>6. Drops(0)
      BY <3>2, <3>4, <3>5 DEF Drops
    <3> QED
      BY <3>6
  <2>3. CASE ~Active
    <3>1. Len(Live) = n /\ \A i \in 1 .. n : Live[i] = queue[i]
      BY <1>2, <1>3, <2>3 DEF LiveShape, n
    <3>2. Len(Live') = n - k /\ \A i \in 1 .. n - k : Live'[i] = queue'[i]
      BY <1>2, <1>3, <1>6, <2>1, <2>3 DEF LiveShape
    <3>3. \A i \in 1 .. n - k : i + k \in 1 .. n
      BY <1>2
    <3>4. Drops(k)
      BY <1>2, <1>6, <3>1, <3>2, <3>3 DEF Drops
    <3> QED
      BY <3>4
  <2> QED
    BY <2>2, <2>3
<1>7. CASE /\ phase = "IDLE" /\ Waiting # <<>>
           /\ current' = Head(Waiting) /\ queue' = Tail(Waiting)
  <2>1. ~Active
    BY <1>7 DEF EngineInv, IInv, SettersSentOnce, Exchange
  <2>2. /\ Head(Waiting) \in Operation /\ Head(Waiting) = Waiting[1]
        /\ Len(Tail(Waiting)) = Len(Waiting) - 1 /\ Len(Waiting) \in Nat
        /\ \A i \in 1 .. Len(Tail(Waiting)) : Tail(Waiting)[i] = Waiting[i + 1]
        /\ Len(Waiting) # 0
    BY <1>2, <1>7, HeadTailProperties, EmptySeq, LenProperties
  <2>3. Active'
    BY <1>7, <2>2, EnvironmentFacts DEF Active
  <2>4. Len(Live) = n /\ \A i \in 1 .. n : Live[i] = queue[i]
    BY <1>2, <1>3, <2>1 DEF LiveShape, n
  <2>5. /\ Len(Live') = n - k /\ Live'[1] = Waiting[1]
        /\ \A i \in 1 .. (n - k) - 1 : Live'[i + 1] = Waiting[i + 1]
    <3>1. Len(queue') = (n - k) - 1 /\ ((n - k) - 1) + 1 = n - k
      BY <1>2, <1>7, <2>2
    <3>2. /\ Len(Live') = Len(queue') + 1 /\ Live'[1] = current'
          /\ \A i \in 1 .. Len(queue') : Live'[i + 1] = queue'[i]
      BY <1>3, <2>3 DEF LiveShape
    <3> QED
      BY <1>2, <1>7, <2>2, <3>1, <3>2
  <2>6. ASSUME NEW i \in 1 .. n - k PROVE Live'[i] = Live[i + k]
    <3>1. Live'[i] = Waiting[i]
      <4>1. i = 1 \/ (i - 1 \in 1 .. (n - k) - 1 /\ (i - 1) + 1 = i)
        BY <1>2
      <4> QED
        BY <2>5, <4>1
    <3>2. i + k \in 1 .. n /\ Waiting[i] = queue[i + k]
      BY <1>2
    <3> QED
      BY <2>4, <3>1, <3>2
  <2>7. Drops(k)
    BY <1>2, <2>4, <2>5, <2>6 DEF Drops
  <2> QED
    BY <2>7
<1> QED
  BY <1>1, <1>5, <1>6, <1>7

LEMMA LiveStays ==
    ASSUME EngineInv, current' = current, queue' = queue
    PROVE  Live' = Live /\ Drops(0)
<1>1. Live' = Live
  BY DEF Live, Active
<1>2. Len(Live) \in Nat
  BY EngineShape DEF LiveShape
<1> QED
  BY <1>1, <1>2 DEF Drops

LEMMA ReceiveDrops ==
    ASSUME EngineInv, EngineInv', NEW s, Receive(s)
    PROVE  \E k : Drops(k)
<1>1. \/ current' = current /\ queue' = queue
      \/ current' = NoOperation /\ queue' \in {queue, <<>>}
  BY ReceiveServes
<1>2. CASE current' = current /\ queue' = queue
  BY <1>2, LiveStays
<1>3. CASE current' = NoOperation /\ queue' = <<>>
  BY <1>3, AllEnd
<1>4. CASE current' = NoOperation /\ queue' = queue /\ ~Active
  BY <1>4, LiveStays DEF Active
<1>5. CASE current' = NoOperation /\ queue' = queue /\ Active
  <2>1. LiveShape /\ LiveShape' /\ ~Active'
    BY <1>5, EngineShape, EngineShapeNext DEF Active
  <2>2. /\ Len(queue) \in Nat /\ Len(Live) = Len(queue) + 1
        /\ \A i \in 1 .. Len(queue) : Live[i + 1] = queue[i]
    BY <1>5, <2>1 DEF LiveShape
  <2>3. Len(Live') = Len(queue) /\ \A i \in 1 .. Len(queue) : Live'[i] = queue[i]
    BY <1>5, <2>1, <2>2 DEF LiveShape
  <2>4. Drops(1)
    BY <2>2, <2>3 DEF Drops
  <2> QED
    BY <2>4
<1> QED
  BY <1>1, <1>2, <1>3, <1>4, <1>5

\* What is reported is what is dropped.
LEMMA DropsEnd ==
    ASSUME EngineInv, EngineInv', OutcomeStep, NEW k, Drops(k)
    PROVE  \A g \in Generation :
               g \in Ended <=> \E i \in 1 .. k : Live[i].generation = g
<1> DEFINE m == Len(Live)
           names == {finished'[i].generation :
                        i \in {j \in DOMAIN finished' : finished'[j].generation # 0}}
<1>1. names = LiveGenerations \ LiveGenerations'
  BY DEF OutcomeStep
<1>2. \A g : g # 0 => (g \in Ended <=> g \in names)
  BY DEF Ended
<1> HIDE DEF names
<1>3. /\ LiveGenerations = {Live[i].generation : i \in 1 .. m}
      /\ LiveGenerations' = {Live'[i].generation : i \in 1 .. Len(Live')}
      /\ DistinctOps(Live) /\ m \in Nat /\ DOMAIN Live = 1 .. m
  BY LiveDistinct, LiveDistinctNext, EngineShape DEF LiveShape, LiveNames
<1>4. /\ k \in 0 .. m /\ Len(Live') = m - k
      /\ \A i \in 1 .. m - k : Live'[i] = Live[i + k]
  BY DEF Drops
<1> HIDE DEF m
<1>5. LiveGenerations' = {Live[i].generation : i \in k + 1 .. m}
  <2>1. \A i \in 1 .. m - k : i + k \in k + 1 .. m
    BY <1>3, <1>4
  <2>2. \A j \in k + 1 .. m : j - k \in 1 .. m - k /\ (j - k) + k = j
    BY <1>3, <1>4
  <2>3. LiveGenerations' = {Live[i + k].generation : i \in 1 .. m - k}
    BY <1>3, <1>4
  <2> QED
    BY <2>1, <2>2, <2>3
<1>6. /\ (1 .. k) \subseteq (1 .. m) /\ (k + 1 .. m) \subseteq (1 .. m)
      /\ \A i \in 1 .. m : i \in 1 .. k \/ i \in k + 1 .. m
      /\ \A i \in 1 .. k, j \in k + 1 .. m : i # j
  BY <1>3, <1>4
<1>7. names = {Live[i].generation : i \in 1 .. k}
  BY <1>1, <1>3, <1>5, <1>6 DEF DistinctOps
<1>8. \A g \in Generation : g # 0
  BY ConstantFacts DEF Generation
<1> QED
  BY <1>2, <1>7, <1>8

Grows(n, op) ==
    /\ n \in 1 .. Len(Live) + 1 /\ n >= Len(Live) /\ Len(Live') = n
    /\ \A i \in 1 .. n - 1 : Live'[i] = Live[i]
    /\ Live'[n] = op
    /\ n = Len(Live) => DOMAIN Live[n].request = DOMAIN op.request
    /\ \A g \in Generation : g \in Ended => n = Len(Live) /\ g = Live[n].generation

LEMMA NormalizedFields == ASSUME NEW r PROVE DOMAIN Normalized(r) = DOMAIN r
BY DEF Normalized

LEMMA AcceptGrows ==
    ASSUME EngineInv, EngineInv', NEW r, Admit(r) \/ Supersede(r)
    PROVE  \E n : Grows(n, Entry(r))
<1> DEFINE m == Len(queue)
           a == IF Active THEN 1 ELSE 0
<1>1. /\ queue \in Seq(Operation) /\ m \in Nat /\ DOMAIN queue = 1 .. m
      /\ queue' \in Seq(Operation)
  BY LenProperties, EngineShape, EngineShapeNext DEF OperationsOK
<1>2. /\ LiveShape /\ LiveShape' /\ (Active' <=> Active) /\ current' = current
      /\ a \in {0, 1}
  BY EngineShape, EngineShapeNext DEF Admit, Supersede, Untouched, Active
<1>3. /\ Len(Live) = m + a /\ Len(Live') = Len(queue') + a
      /\ \A i \in 1 .. m : Live[i + a] = queue[i]
      /\ \A i \in 1 .. Len(queue') : Live'[i + a] = queue'[i]
      /\ a = 1 => Live[1] = current /\ Live'[1] = current
  <2>1. CASE Active
    <3>1. a = 1
      BY <2>1
    <3> HIDE DEF a
    <3> QED
      BY <1>2, <2>1, <3>1 DEF LiveShape
  <2>2. CASE ~Active
    <3>1. a = 0 /\ Len(queue') \in Nat
      BY <1>1, <2>2, LenProperties
    <3> HIDE DEF a
    <3> HIDE DEF a
    <3>2. Len(Live) = m /\ \A i \in 1 .. m : Live[i] = queue[i]
      BY <1>1, <1>2, <2>2 DEF LiveShape
    <3>5. ~Active' /\ Len(queue') \in Nat
      BY <1>2, <2>2, <3>1
    <3>6. Len(Live') = Len(queue')
      BY <1>2, <3>5 DEF LiveShape
    <3>3. Len(Live') = Len(queue') /\ \A i \in 1 .. Len(queue') : Live'[i] = queue'[i]
      BY <1>2, <3>5, <3>6 DEF LiveShape
    <3> HIDE DEF m
    <3>4. /\ \A i \in 1 .. m : i + a = i
          /\ \A i \in 1 .. Len(queue') : i + a = i
      BY <1>1, <3>1
    <3> QED
      BY <1>1, <3>1, <3>2, <3>3, <3>4
  <2> QED
    BY <2>1, <2>2
<1> HIDE DEF m, a
<1>4. ASSUME NEW n \in 1 .. m + 1, n >= m, Len(queue') = n,
             \A i \in 1 .. n - 1 : queue'[i] = queue[i], queue'[n] = Entry(r),
             n = m => DOMAIN queue[n].request = DOMAIN r,
             \A g \in Generation : g \in Ended => n = m /\ g = queue[n].generation
      PROVE  Grows(n + a, Entry(r))
  <2>1. /\ n + a \in 1 .. (m + a) + 1 /\ n + a >= m + a
        /\ (n + a = m + a <=> n = m) /\ n \in 1 .. n
        /\ (n = m => n \in 1 .. m)
    BY <1>1, <1>2, <1>4
  <2>2. Live'[n + a] = Entry(r) /\ (n = m => Live[n + a] = queue[n])
    BY <1>3, <1>4, <2>1
  <2>3. ASSUME NEW i \in 1 .. (n + a) - 1 PROVE Live'[i] = Live[i]
    <3>1. \/ i = 1 /\ a = 1
          \/ i - a \in 1 .. n - 1 /\ i - a \in 1 .. n /\ i - a \in 1 .. m /\ (i - a) + a = i
      BY <1>1, <1>2
    <3> QED
      BY <1>3, <1>4, <3>1
  <2>4. DOMAIN Entry(r).request = DOMAIN r
    BY NormalizedFields DEF Entry
  <2> QED
    BY <1>3, <1>4, <2>1, <2>2, <2>3, <2>4 DEF Grows
<1>5. CASE Admit(r)
  <2>1. queue' = Append(queue, Entry(r)) /\ finished' = <<>>
    BY <1>5 DEF Admit
  <2>2. /\ Len(queue') = m + 1 /\ \A i \in 1 .. m : queue'[i] = queue[i]
        /\ queue'[m + 1] = Entry(r)
    <3>1. Entry(r) \in Operation
      <4>1. Len(queue') \in Nat /\ Len(queue') = Len(queue) + 1 /\ queue'[Len(queue) + 1] = Entry(r)
        BY <1>1, <2>1 DEF m
      <4>2. Len(queue) + 1 \in 1 .. Len(queue')
        BY <1>1, <4>1 DEF m
      <4> QED
        BY <1>1, <4>1, <4>2, ElementOfSeq
    <3> QED
      BY <1>1, <2>1, <3>1, AppendProperties DEF m
  <2>3. Ended = {}
    <3>1. DOMAIN <<>> = {}
      OBVIOUS
    <3> QED
      BY <2>1, <3>1 DEF Ended
  <2>4. m + 1 \in 1 .. m + 1 /\ m + 1 >= m /\ m + 1 # m /\ (m + 1) - 1 = m
    BY <1>1
  <2>5. Grows((m + 1) + a, Entry(r))
    BY <1>4, <2>2, <2>3, <2>4
  <2> QED
    BY <2>5
<1>6. CASE Supersede(r)
  <2>1. /\ queue # <<>> /\ queue' = [queue EXCEPT ![m] = Entry(r)]
        /\ DOMAIN r = DOMAIN queue[m].request
        /\ finished' = <<Outcome(queue[m], "SUPERSEDED")>>
    BY <1>6 DEF Supersede, Replaces, m
  <2>2. m \in 1 .. m + 1 /\ m \in 1 .. m /\ m >= m /\ \A i \in 1 .. m - 1 : i \in 1 .. m /\ i # m
    <3>1. m # 0
      BY <1>1, <2>1, EmptySeq DEF m
    <3> QED
      BY <1>1, <3>1
  <2>3. DOMAIN queue' = 1 .. m /\ \A i \in 1 .. m : queue'[i] = IF i = m THEN Entry(r) ELSE queue[i]
    BY <1>1, <2>1
  <2>4. Len(queue') = m
    <3>1. Len(queue') \in Nat /\ DOMAIN queue' = 1 .. Len(queue')
      BY <1>1, LenProperties
    <3> QED
      BY <1>1, <2>3, <3>1
  <2>5. Ended = {queue[m].generation}
    <3>1. \A c : DOMAIN <<c>> = {1} /\ <<c>>[1] = c
      OBVIOUS
    <3> QED
      BY <2>1, <3>1 DEF Ended, Outcome
  <2>6. Grows(m + a, Entry(r))
    BY <1>4, <2>1, <2>2, <2>3, <2>4, <2>5
  <2> QED
    BY <2>6
<1> QED
  BY <1>5, <1>6

LEMMA AdvanceAges ==
    ASSUME EngineInv, EngineInv', Advance
    PROVE  /\ Len(Live') = Len(Live)
           /\ \A i \in 1 .. Len(Live) : /\ Live'[i].request = Live[i].request
                                        /\ Live'[i].generation = Live[i].generation
                                        /\ Live'[i].age = Older(Live[i].age)
                                        /\ Old(Live[i]) => Old(Live'[i])
<1> DEFINE Aging(op) == /\ op.age \in Nat /\ op.age < OperationTimeout + lag
           m == Len(queue)
<1>1. /\ lag \in Nat /\ lag < MaxLag
      /\ current' = IF Active THEN Aged(current) ELSE current
      /\ queue' = [i \in 1 .. m |-> Aged(queue[i])]
      /\ m \in Nat /\ queue' \in Seq(Operation)
  BY QueueFacts, EngineShapeNext DEF Advance, EngineInv, OperationsOK
<1>2. /\ LiveShape /\ LiveShape' /\ (Active' <=> Active)
  <2>1. Active' <=> Active
    BY <1>1, QueueFacts, AgedType, EnvironmentFacts DEF Active, EngineInv
  <2> QED
    BY <2>1, EngineShape, EngineShapeNext
<1>3. DOMAIN queue' = 1 .. m /\ \A i \in 1 .. m : queue'[i] = Aged(queue[i])
  BY <1>1
<1>4. Len(queue') = m
  <2>1. Len(queue') \in Nat /\ DOMAIN queue' = 1 .. Len(queue')
    BY <1>1, LenProperties
  <2> QED
    BY <1>1, <1>3, <2>1
<1>5. ASSUME NEW op \in Operation, Aging(op)
      PROVE  /\ Aged(op).request = op.request
             /\ Aged(op).generation = op.generation
             /\ Aged(op).age = Older(op.age)
             /\ Old(op) => Old(Aged(op))
  <2>1. /\ Aged(op).request = op.request /\ Aged(op).generation = op.generation
        /\ Aged(op).age = Older(op.age)
    BY <1>5 DEF Aged, Operation
  <2>2. Older(op.age) = op.age + 1
    BY <1>1, <1>5, AgesByOne
  <2> QED
    BY <1>5, <2>1, <2>2, ConstantFacts DEF Old
<1>6. /\ \A i \in 1 .. m : queue[i] \in Operation /\ Aging(queue[i])
      /\ Active => current \in Operation /\ Aging(current)
  BY QueueFacts DEF EngineInv, LInv, BoundedLifetime
<1> HIDE DEF m, Aging
<1>7. CASE Active
  <2>1. /\ Len(Live) = m + 1 /\ Live[1] = current
        /\ \A i \in 1 .. m : Live[i + 1] = queue[i]
    BY <1>2, <1>7 DEF LiveShape, m
  <2>2. /\ Len(Live') = m + 1 /\ Live'[1] = Aged(current)
        /\ \A i \in 1 .. m : Live'[i + 1] = Aged(queue[i])
    BY <1>1, <1>2, <1>3, <1>4, <1>7 DEF LiveShape
  <2>3. ASSUME NEW i \in 1 .. m + 1
        PROVE  \E op \in Operation : Aging(op) /\ Live[i] = op /\ Live'[i] = Aged(op)
    <3>1. i = 1 \/ (i - 1 \in 1 .. m /\ (i - 1) + 1 = i)
      BY <1>1
    <3> QED
      BY <1>6, <1>7, <2>1, <2>2, <3>1
  <2> QED
    BY <1>5, <2>1, <2>2, <2>3
<1>8. CASE ~Active
  <2>1. Len(Live) = m /\ \A i \in 1 .. m : Live[i] = queue[i]
    BY <1>1, <1>2, <1>8 DEF LiveShape, m
  <2>2. Len(Live') = m /\ \A i \in 1 .. m : Live'[i] = Aged(queue[i])
    BY <1>1, <1>2, <1>3, <1>4, <1>8 DEF LiveShape
  <2> QED
    BY <1>5, <1>6, <2>1, <2>2
<1> QED
  BY <1>7, <1>8

(***************************************************************************)
(* Every step of the component is a step of its engine, or leaves it alone *)
(* but for the outputs of the step before.  The calls that get through to  *)
(* the engine are among its Requests because the component remembers only  *)
(* targets that a caller or the unit has named.                            *)
(***************************************************************************)
MemoryInv ==
    /\ DOMAIN remembered \subseteq {Heat, Cool}
    /\ \A m \in DOMAIN remembered : remembered[m] \in Targets

LEMMA FilledFacts ==
    ASSUME MemoryInv, NEW r \in Calls
    PROVE  /\ r \in Requests /\ Filled(r) \in Requests
           /\ DOMAIN r \subseteq DOMAIN Filled(r)
           /\ DOMAIN Filled(r) \subseteq DOMAIN r \cup {"temperature"}
           /\ ~Names(Filled(r), "power")
           /\ Names(Filled(r), "dryOffset") => DOMAIN r = {"dryOffset"}
           /\ Names(r, "dryOffset") => DOMAIN r = {"dryOffset"} /\ Filled(r) = r
<1>1. /\ r \in Requests /\ ~Names(r, "power")
      /\ Names(r, "dryOffset") => DOMAIN r = {"dryOffset"}
  BY ComponentAssumption
<1>2. \A t : DOMAIN WithTarget(r, t) = {"temperature"} \cup DOMAIN r
  BY DEF WithTarget, Over
<1>3. CASE ~Names(r, "temperature") /\ Names(r, "mode") /\ r["mode"] \in DOMAIN remembered
  <2> DEFINE t == remembered[r["mode"]]
  <2>1. Filled(r) = WithTarget(r, t)
    BY <1>3 DEF Filled
  <2>2. t \in Targets /\ r["mode"] \in {Heat, Cool}
    BY <1>3 DEF MemoryInv
  <2> HIDE DEF t
  <2>3. WithTarget(r, t) \in Requests
    BY <1>3, <2>2, ComponentAssumption
  <2>4. ~Names(r, "dryOffset")
    BY <1>1, <1>3 DEF Names
  <2> QED
    BY <1>1, <1>2, <2>1, <2>3, <2>4 DEF Names
<1>4. CASE ~(~Names(r, "temperature") /\ Names(r, "mode") /\ r["mode"] \in DOMAIN remembered)
  <2>1. Filled(r) = r
    BY <1>4 DEF Filled
  <2> QED
    BY <1>1, <2>1
<1> QED
  BY <1>3, <1>4

LEMMA ActionIsEngineStep ==
    ASSUME MemoryInv, ComponentNext
    PROVE  Next \/ EngineIdle
<1>1. CASE Setup \/ Update \/ LoopBegin \/ LoopEnd \/ Elapse \/ Resume
  BY <1>1 DEF Setup, Update, LoopBegin, LoopEnd, Elapse, Resume, Next
<1>2. CASE \E r \in Calls \cup Automations : Call(r)
  <2>1. PICK r \in Calls : Call(r)
    BY <1>2, ComponentAssumption
  <2>2. Filled(r) \in Requests
    BY FilledFacts
  <2>3. CASE Dismissed(r)
    BY <2>3 DEF Dismissed
  <2>4. CASE TurnedAway(r) \/ Taken(r)
    BY <2>2, <2>4 DEF TurnedAway, Taken, Enqueue, Next
  <2> QED
    BY <2>1, <2>3, <2>4 DEF Call
<1>3. CASE \E s \in Statuses : Read(s)
  BY <1>3 DEF Read, Next
<1> QED
  BY <1>1, <1>2, <1>3 DEF ComponentNext

LEMMA IdleKeeps == ASSUME EngineInv, EngineIdle PROVE EngineInv'
<1>1. /\ IInv /\ finished' = <<>> /\ sent' = <<>> /\ UNCHANGED engine
  BY DEF EngineInv, EngineIdle
<1>2. OutputsOK'
  BY <1>1, EmptySeq DEF OutputsOK
<1>3. TypeOK'
  BY <1>1, <1>2
  DEF engine, plan, polling, timers, IInv, TypeOK, OperationsOK, PlanOK, PollingOK, TimersOK
<1>4. IInv'
  BY <1>1, <1>3
  DEF engine, plan, polling, timers, IInv, SettersSentOnce, RecoveryIsReadOnly, Active, Resting
<1>5. UInv' /\ LInv'
  BY <1>1 DEF EngineInv, engine, UInv, LInv, BoundedLifetime, AcceptanceOrder, Active
<1> QED
  BY <1>4, <1>5 DEF EngineInv

LEMMA EngineKeeps == ASSUME EngineInv, Next \/ EngineIdle PROVE EngineInv'
BY IdleKeeps, NextKeepsIInv, NextKeepsLInv, NextReports DEF EngineInv

(***************************************************************************)
(* The overlay and the engine go together.                                 *)
(***************************************************************************)
LatestInv ==
    /\ latest = nextGeneration
    /\ Len(Live) > 0 => Live[Len(Live)].generation = latest

CoreInv == EngineInv /\ OverlayInv /\ LatestInv /\ MemoryInv

LEMMA NumbersStay ==
    ASSUME TickSteps \/ \E s : Receive(s)
    PROVE  nextGeneration' = nextGeneration
<1>1. CASE TickSteps
  BY <1>1 DEF TickSteps, TickExpired, TickWaits, TickIdlePoll, TickIdleStart, TickBlocked,
              TickSend, TickDrained, TickSettled, TickReread, TickTimeout, TickRecovery,
              Quietly, Poll, PollWith
<1>2. ASSUME NEW s, Receive(s) PROVE nextGeneration' = nextGeneration
  BY <1>2 DEF Receive, ReceiveIgnored, ReceiveIdle, ReceiveTooLate, ReceiveRuledOut,
              ReceiveBaseline, ReceiveDryLost, ReceiveStale, ReceiveStep, ReceiveDone,
              Answers, Confirming, Unsent
<1> QED
  BY <1>1, <1>2

\* Operations end, by tick or by a status.
LEMMA DropKeeps ==
    ASSUME CoreInv, EngineInv', OutcomeStep, NEW k, Drops(k),
           nextGeneration' = nextGeneration, latest' = latest,
           pending' = Completed(pending, Ended)
    PROVE  /\ Overlay(Live', pending', turn = "in")
           /\ LatestInv'
<1>1. /\ LiveShape /\ LiveShape' /\ DistinctOps(Live)
      /\ OverlayInv /\ LatestInv
  BY EngineShape, EngineShapeNext, LiveDistinct DEF CoreInv
<1>2. /\ Live \in Seq(Operation) /\ Live' \in Seq(Operation)
      /\ Len(Live) \in Nat /\ Len(Live') \in Nat
  BY <1>1 DEF LiveShape
<1>3. \A g \in Generation : g \in Ended <=> \E i \in 1 .. k : Live[i].generation = g
  BY DropsEnd DEF CoreInv
<1>4. /\ k \in 0 .. Len(Live) /\ Len(Live') = Len(Live) - k
      /\ \A i \in 1 .. Len(Live') : Live'[i] = Live[i + k]
  BY DEF Drops
<1>5. Overlay(Live', pending', turn = "in")
  <2> DEFINE s == Live
             t == Live'
             gone == Ended
             expiring == (turn = "in")
  <2>1. /\ s \in Seq(Operation) /\ t \in Seq(Operation) /\ DistinctOps(s)
        /\ k \in 0 .. Len(s) /\ Len(t) = Len(s) - k
        /\ \A i \in 1 .. Len(t) : t[i] = s[i + k]
        /\ \A g \in Generation : g \in gone <=> \E i \in 1 .. k : s[i].generation = g
        /\ Overlay(s, pending, expiring)
    BY <1>1, <1>2, <1>3, <1>4 DEF OverlayInv
  <2> HIDE DEF s, t, gone, expiring
  <2>2. Overlay(t, Completed(pending, gone), expiring)
    BY <2>1, OverlayDrops
  <2> QED
    BY <2>2 DEF t, gone, expiring
<1>6. LatestInv'
  <2>1. ASSUME Len(Live') > 0 PROVE Live'[Len(Live')].generation = latest'
    <3>1. /\ Len(Live') \in 1 .. Len(Live') /\ Len(Live') + k = Len(Live)
          /\ Len(Live) > 0
      BY <1>2, <1>4, <2>1
    <3>2. Live'[Len(Live')] = Live[Len(Live)]
      BY <1>4, <3>1
    <3> QED
      BY <1>1, <3>1, <3>2 DEF LatestInv
  <2> QED
    BY <1>1, <2>1 DEF LatestInv
<1> QED
  BY <1>5, <1>6

\* The engine is left alone, or asked for a poll.
LEMMA StayKeeps ==
    ASSUME CoreInv, current' = current, queue' = queue,
           nextGeneration' = nextGeneration, latest' = latest
    PROVE  Live' = Live /\ LatestInv'
BY LiveStays DEF CoreInv, LatestInv

\* A call is taken.
LEMMA TakenKeeps ==
    ASSUME CoreInv, EngineInv', NEW r \in Calls, Taken(r)
    PROVE  /\ Overlay(Live', pending', turn = "in") /\ LatestInv'
           /\ ~LaysOver(r) => DOMAIN pending' = DOMAIN pending
<1> DEFINE x == Filled(r)
           op == Entry(x)
           q == Completed(pending, Ended)
           l == Laid(q, Normalized(x), latest')
<1>1. /\ Admit(x) \/ Supersede(x)
      /\ latest' = nextGeneration' /\ nextGeneration' = NextGeneration
      /\ pending' = IF LaysOver(r) THEN l ELSE q
  BY DEF Taken, Admit, Supersede
<1>2. /\ op.request = Normalized(x) /\ op.generation = latest' /\ op.age = 0
      /\ DOMAIN Normalized(x) = DOMAIN x
  BY <1>1, NormalizedFields DEF Entry
<1>3. PICK n : Grows(n, op)
  BY <1>1, AcceptGrows DEF CoreInv
<1>4. /\ LiveShape /\ LiveShape' /\ DistinctOps(Live) /\ OverlayInv
  BY EngineShape, EngineShapeNext, LiveDistinct DEF CoreInv
<1>5. IF LaysOver(r) THEN DOMAIN op.request \subseteq ClimateField
                     ELSE DOMAIN op.request \cap ClimateField = {}
  <2>1. /\ x \in Requests /\ ~Names(x, "power")
        /\ DOMAIN r \subseteq DOMAIN x
        /\ Names(x, "dryOffset") => DOMAIN r = {"dryOffset"}
        /\ Names(r, "dryOffset") => DOMAIN r = {"dryOffset"} /\ x = r
    BY FilledFacts DEF CoreInv
  <2>2. DOMAIN x \subseteq Field
    BY <2>1, EnvironmentFacts DEF IsIntent
  <2> HIDE DEF x
  <2>3. ASSUME LaysOver(r) PROVE DOMAIN x \subseteq ClimateField
    <3>1. "dryOffset" \notin DOMAIN x /\ "power" \notin DOMAIN x
      BY <2>1, <2>3 DEF LaysOver, Names
    <3> QED
      BY <2>2, <3>1 DEF Field, ClimateField
  <2>4. ASSUME ~LaysOver(r) PROVE DOMAIN x \cap ClimateField = {}
    BY <2>1, <2>4 DEF LaysOver, ClimateField
  <2> QED
    BY <1>2, <2>3, <2>4
<1>6. l = Laid(q, op.request, op.generation) /\ q = Completed(pending, Ended)
  BY <1>2
<1> HIDE DEF x, op, q, l
<1>7. ShowsOver(l, q, op)
  BY <1>2, <1>6, LaidFacts
<1>8. /\ DOMAIN op.request \subseteq ClimateField => Overlay(Live', l, turn = "in")
      /\ DOMAIN op.request \cap ClimateField = {} =>
             Overlay(Live', q, turn = "in") /\ DOMAIN q = DOMAIN pending
  <2> DEFINE s == Live
             t == Live'
             gone == Ended
             expiring == (turn = "in")
             p == pending
  <2>1. /\ s \in Seq(Operation) /\ t \in Seq(Operation) /\ DistinctOps(s)
        /\ Accepts(s, t, n, op, gone)
        /\ Overlay(s, p, expiring) /\ q = Completed(p, gone)
    BY <1>2, <1>3, <1>4, <1>6 DEF Grows, Accepts, OverlayInv, LiveShape
  <2> HIDE DEF s, t, gone, expiring, p
  <2>2. /\ DOMAIN op.request \subseteq ClimateField => Overlay(t, l, expiring)
        /\ DOMAIN op.request \cap ClimateField = {} =>
               Overlay(t, q, expiring) /\ DOMAIN q = DOMAIN p
    BY <1>7, <2>1, OverlayAccepts
  <2> QED
    BY <2>2 DEF t, expiring, p
<1>9. LatestInv'
  <2>1. Live'[Len(Live')] = op
    BY <1>3 DEF Grows
  <2> QED
    BY <1>1, <1>2, <2>1 DEF LatestInv
<1> QED
  BY <1>1, <1>5, <1>8, <1>9

\* Right after a tick nothing that is live is old.
Young == \A i \in 1 .. Len(Live) : ~Old(Live[i])

LEMMA NoneOld == EngineInv /\ lag = 0 => Young
<1> SUFFICES ASSUME EngineInv, lag = 0 PROVE Young
  OBVIOUS
<1>1. LiveShape /\ BoundedLifetime /\ IInv
  BY EngineShape DEF EngineInv, LInv
<1>2. /\ \A i \in DOMAIN queue : queue[i].age \in Nat /\ queue[i].age < OperationTimeout
      /\ Active => current.age \in Nat /\ current.age < OperationTimeout
  <2>1. OperationTimeout \in Nat /\ OperationTimeout + lag = OperationTimeout
    BY ConstantFacts
  <2> QED
    BY <1>1, <2>1, QueueFacts DEF BoundedLifetime
<1>3. /\ \A i \in DOMAIN queue : ~Old(queue[i])
      /\ Active => ~Old(current)
  BY <1>2, ConstantFacts DEF Old
<1>4. CASE Active
  <2>1. /\ Len(Live) = Len(queue) + 1 /\ Live[1] = current /\ Len(queue) \in Nat
        /\ DOMAIN queue = 1 .. Len(queue)
        /\ \A i \in 1 .. Len(queue) : Live[i + 1] = queue[i]
    BY <1>1, <1>4 DEF LiveShape
  <2>2. ASSUME NEW i \in 1 .. Len(Live) PROVE ~Old(Live[i])
    <3>1. i = 1 \/ (i - 1 \in 1 .. Len(queue) /\ (i - 1) + 1 = i)
      BY <2>1
    <3> QED
      BY <1>3, <1>4, <2>1, <3>1
  <2> QED
    BY <2>2 DEF Young
<1>5. CASE ~Active
  <2>1. /\ Len(Live) = Len(queue) /\ DOMAIN queue = 1 .. Len(queue)
        /\ \A i \in 1 .. Len(queue) : Live[i] = queue[i]
    BY <1>1, <1>5 DEF LiveShape
  <2> QED
    BY <1>3, <2>1 DEF Young
<1> QED
  BY <1>4, <1>5

JustTicked == lag = 0

LEMMA NoneOldNext == EngineInv' /\ lag' = 0 => Young'
<1>1. EngineInv /\ JustTicked => Young
  BY NoneOld DEF JustTicked
<1>2. EngineInv' /\ JustTicked' => Young'
  BY <1>1, PTL
<1> QED
  BY <1>2 DEF JustTicked

LEMMA OverlaySettles ==
    ASSUME NEW s \in Seq(Operation), NEW p, NEW expiring, NEW any,
           Overlay(s, p, expiring),
           expiring => \A i \in 1 .. Len(s) : ~Old(s[i])
    PROVE  Overlay(s, p, any)
<1>1. ASSUME NEW f \in ClimateField \ DOMAIN p, NEW j, IsNewest(s, f, j) PROVE FALSE
  <2>1. expiring /\ Old(s[j])
    BY <1>1 DEF Overlay
  <2>2. j \in 1 .. Len(s)
    BY <1>1, NewestIsMax
  <2> QED
    BY <2>1, <2>2
<1> QED
  BY <1>1 DEF Overlay

LEMMA LoopBeginKeeps ==
    ASSUME CoreInv, EngineInv', LoopBegin
    PROVE  OverlayInv' /\ LatestInv'
<1>1. /\ current' = current /\ queue' = queue /\ nextGeneration' = nextGeneration
      /\ latest' = latest /\ turn = "out" /\ turn' = "in"
      /\ pending' = Without(pending, {f \in DOMAIN pending : pending[f].age >= OperationTimeout})
  BY DEF LoopBegin, RequestPoll, EngineIdle, engine, heard, Overdue
<1>2. Live' = Live /\ LatestInv'
  BY <1>1, StayKeeps
<1>3. Live \in Seq(Operation)
  BY LiveDistinct DEF CoreInv
<1>4. Overlay(Live, pending, FALSE)
  BY <1>1 DEF CoreInv, OverlayInv
<1>5. Overlay(Live, pending', TRUE)
  <2> DEFINE s == Live
             p == pending
  <2>1. s \in Seq(Operation) /\ Overlay(s, p, FALSE)
    BY <1>3, <1>4
  <2> HIDE DEF s, p
  <2>2. Overlay(s, Without(p, {f \in DOMAIN p : p[f].age >= OperationTimeout}), TRUE)
    BY <2>1, OverlayExpires
  <2> QED
    BY <1>1, <2>2 DEF s, p
<1>6. Overlay(Live', pending', turn' = "in")
  BY <1>1, <1>2, <1>5
<1> QED
  BY <1>2, <1>6 DEF OverlayInv

LEMMA LoopEndKeeps ==
    ASSUME CoreInv, EngineInv', LoopEnd
    PROVE  OverlayInv' /\ LatestInv'
<1>1. /\ TickSteps /\ turn' = "out" /\ latest' = latest
      /\ pending' = Completed(pending, Ended)
  BY DEF LoopEnd, React
<1>2. OutcomeStep /\ lag' = 0 /\ nextGeneration' = nextGeneration
  BY <1>1, TickReports, TickServes, NumbersStay DEF CoreInv, EngineInv
<1>3. PICK k : Drops(k)
  BY <1>1, TickDrops DEF CoreInv
<1>4. Overlay(Live', pending', turn = "in") /\ LatestInv'
  BY <1>1, <1>2, <1>3, DropKeeps
<1>5. LiveShape' /\ Young'
  BY <1>2, EngineShapeNext, NoneOldNext
<1>6. Overlay(Live', pending', FALSE)
  <2> DEFINE s == Live'
             p == pending'
             expiring == (turn = "in")
  <2>1. /\ s \in Seq(Operation) /\ Overlay(s, p, expiring)
        /\ \A i \in 1 .. Len(s) : ~Old(s[i])
    BY <1>4, <1>5 DEF LiveShape, Young
  <2> HIDE DEF s, p, expiring
  <2>2. Overlay(s, p, FALSE)
    BY <2>1, OverlaySettles
  <2> QED
    BY <2>2 DEF s, p
<1>7. Overlay(Live', pending', turn' = "in")
  BY <1>1, <1>6
<1> QED
  BY <1>4, <1>7 DEF OverlayInv

LEMMA ReadKeeps ==
    ASSUME CoreInv, EngineInv', NEW s, Read(s)
    PROVE  OverlayInv' /\ LatestInv'
<1>1. /\ Receive(s) /\ turn' = turn /\ latest' = latest
      /\ pending' = Completed(pending, Ended)
  BY DEF Read, React
<1>2. OutcomeStep /\ nextGeneration' = nextGeneration
  BY <1>1, ReceiveReports, NumbersStay DEF CoreInv, EngineInv
<1>3. PICK k : Drops(k)
  BY <1>1, ReceiveDrops DEF CoreInv
<1>4. Overlay(Live', pending', turn = "in") /\ LatestInv'
  BY <1>1, <1>2, <1>3, DropKeeps
<1>5. Overlay(Live', pending', turn' = "in")
  BY <1>1, <1>4
<1> QED
  BY <1>4, <1>5 DEF OverlayInv

LEMMA ElapseKeeps ==
    ASSUME CoreInv, EngineInv', Elapse
    PROVE  OverlayInv' /\ LatestInv'
<1>1. /\ Advance /\ turn' = turn /\ latest' = latest /\ nextGeneration' = nextGeneration
      /\ pending' = [f \in DOMAIN pending |-> [pending[f] EXCEPT !.age = Older(@)]]
  BY DEF Elapse, Advance
<1>2. /\ Len(Live') = Len(Live)
      /\ \A i \in 1 .. Len(Live) : /\ Live'[i].request = Live[i].request
                                   /\ Live'[i].generation = Live[i].generation
                                   /\ Live'[i].age = Older(Live[i].age)
                                   /\ Old(Live[i]) => Old(Live'[i])
  BY <1>1, AdvanceAges DEF CoreInv
<1>3. LiveShape /\ LiveShape' /\ OverlayInv
  BY EngineShape, EngineShapeNext DEF CoreInv
<1>4. Overlay(Live', pending', turn = "in")
  <2> DEFINE s == Live
             t == Live'
             p == pending
             expiring == (turn = "in")
  <2>1. /\ s \in Seq(Operation) /\ t \in Seq(Operation) /\ Len(t) = Len(s)
        /\ \A i \in 1 .. Len(s) : /\ t[i].request = s[i].request
                                  /\ t[i].generation = s[i].generation
                                  /\ t[i].age = Older(s[i].age)
                                  /\ Old(s[i]) => Old(t[i])
        /\ Overlay(s, p, expiring)
    BY <1>2, <1>3 DEF LiveShape, OverlayInv
  <2> HIDE DEF s, t, p, expiring
  <2>2. Overlay(t, [f \in DOMAIN p |-> [p[f] EXCEPT !.age = Older(@)]], expiring)
    BY <2>1, OverlayAges
  <2> QED
    BY <1>1, <2>2 DEF t, p, expiring
<1>5. LatestInv'
  <2>1. ASSUME Len(Live') > 0 PROVE Live'[Len(Live')].generation = latest'
    <3>1. Len(Live) \in Nat /\ Len(Live) > 0
      BY <1>2, <1>3, <2>1 DEF LiveShape
    <3>2. Len(Live) \in 1 .. Len(Live)
      BY <3>1
    <3> QED
      BY <1>1, <1>2, <3>1, <3>2 DEF CoreInv, LatestInv
  <2> QED
    BY <1>1, <2>1 DEF CoreInv, LatestInv
<1>6. Overlay(Live', pending', turn' = "in")
  BY <1>1, <1>4
<1> QED
  BY <1>5, <1>6 DEF OverlayInv

\* The engine is asked for a poll, or for nothing, and nothing pending changes.
LEMMA RestKeeps ==
    ASSUME CoreInv, EngineInv', RequestPoll \/ EngineIdle \/ \E r : Reject(r),
           pending' = pending, latest' = latest,
           turn' = turn \/ (turn = "setup" /\ turn' = "out")
    PROVE  OverlayInv' /\ LatestInv'
<1>1. current' = current /\ queue' = queue /\ nextGeneration' = nextGeneration
  BY DEF RequestPoll, EngineIdle, engine, Reject, Untouched
<1>2. Live' = Live /\ LatestInv'
  BY <1>1, StayKeeps
<1>3. Overlay(Live', pending', turn' = "in")
  BY <1>2 DEF CoreInv, OverlayInv
<1> QED
  BY <1>2, <1>3 DEF OverlayInv

LEMMA MemoryGrows ==
    ASSUME MemoryInv, NEW p, DOMAIN p \subseteq {Heat, Cool},
           \A m \in DOMAIN p : p[m] \in Targets, remembered' = Over(p, remembered)
    PROVE  MemoryInv'
<1> DEFINE q == remembered
           new == Over(p, q)
<1>1. /\ DOMAIN new = DOMAIN p \cup DOMAIN q
      /\ \A f \in DOMAIN p : new[f] = p[f]
      /\ \A f \in DOMAIN q \ DOMAIN p : new[f] = q[f]
  BY DEF Over
<1>2. DOMAIN q \subseteq {Heat, Cool} /\ \A m \in DOMAIN q : q[m] \in Targets
  BY DEF MemoryInv
<1>3. remembered' = new
  OBVIOUS
<1> HIDE DEF q, new
<1>4. DOMAIN new \subseteq {Heat, Cool} /\ \A m \in DOMAIN new : new[m] \in Targets
  BY <1>1, <1>2
<1> QED
  BY <1>3, <1>4 DEF MemoryInv

LEMMA MemoryKeeps == ASSUME MemoryInv, ComponentNext PROVE MemoryInv'
<1>1. CASE remembered' = remembered
  BY <1>1 DEF MemoryInv
<1>2. ASSUME NEW r \in Calls, Taken(r) PROVE MemoryInv'
  <2>1. CASE Names(r, "temperature")
    <3>1. remembered' = Over(Target(r), remembered)
      BY <1>2, <2>1 DEF Taken
    <3>2. Rounded(r["temperature"]) \in Targets
      BY <2>1 DEF Targets
    <3>3. /\ DOMAIN Target(r) \subseteq {Heat, Cool}
          /\ \A m \in DOMAIN Target(r) : Target(r)[m] \in Targets
      BY <3>2 DEF Target
    <3> QED
      BY <3>1, <3>3, MemoryGrows
  <2>2. CASE ~Names(r, "temperature")
    <3>1. remembered' = Over(Nothing, remembered) /\ DOMAIN Nothing = {}
      BY <1>2, <2>2 DEF Taken, Nothing
    <3> QED
      BY <3>1, MemoryGrows
  <2> QED
    BY <2>1, <2>2
<1>3. ASSUME NEW s \in Statuses, Read(s) PROVE MemoryInv'
  <2>1. CASE Steady(s)
    <3> DEFINE now == [m \in {ReportedMode(s)} \cap {Heat, Cool} |-> s.setpoint]
    <3>1. remembered' = Over(now, remembered)
      BY <1>3, <2>1 DEF Read
    <3>2. /\ DOMAIN now \subseteq {Heat, Cool}
          /\ \A m \in DOMAIN now : now[m] \in Targets
      BY DEF Targets
    <3> HIDE DEF now
    <3> QED
      BY <3>1, <3>2, MemoryGrows
  <2>2. CASE ~Steady(s)
    <3>1. remembered' = Over(Nothing, remembered) /\ DOMAIN Nothing = {}
      BY <1>3, <2>2 DEF Read, Nothing
    <3> QED
      BY <3>1, MemoryGrows
  <2> QED
    BY <2>1, <2>2
<1>4. CASE Setup \/ Update \/ LoopBegin \/ LoopEnd \/ Elapse \/ Resume
  BY <1>1, <1>4 DEF Setup, Update, LoopBegin, LoopEnd, Elapse, Resume, component
<1>5. CASE \E r \in Calls \cup Automations : Call(r)
  <2>1. PICK r \in Calls : Call(r)
    BY <1>5, ComponentAssumption
  <2>2. CASE Dismissed(r) \/ TurnedAway(r)
    BY <1>1, <2>2 DEF Dismissed, TurnedAway, Warned
  <2> QED
    BY <1>2, <2>1, <2>2 DEF Call
<1>6. CASE \E s \in Statuses : Read(s)
  BY <1>3, <1>6
<1> QED
  BY <1>4, <1>5, <1>6 DEF ComponentNext

LEMMA CoreNext == ASSUME CoreInv, ComponentNext PROVE CoreInv'
<1>1. MemoryInv' /\ EngineInv'
  BY MemoryKeeps, ActionIsEngineStep, EngineKeeps DEF CoreInv
<1>2. CASE Setup
  <2>1. RequestPoll /\ pending' = pending /\ latest' = latest /\ turn = "setup" /\ turn' = "out"
    BY <1>2 DEF Setup
  <2> QED
    BY <1>1, <2>1, RestKeeps DEF CoreInv
<1>3. CASE Update \/ Resume
  <2>1. RequestPoll \/ EngineIdle
    BY <1>3 DEF Update, Resume
  <2>2. pending' = pending /\ latest' = latest /\ turn' = turn
    BY <1>3 DEF Update, Resume, component
  <2> QED
    BY <1>1, <2>1, <2>2, RestKeeps DEF CoreInv
<1>4. CASE LoopBegin
  BY <1>1, <1>4, LoopBeginKeeps DEF CoreInv
<1>5. CASE LoopEnd
  BY <1>1, <1>5, LoopEndKeeps DEF CoreInv
<1>6. CASE Elapse
  BY <1>1, <1>6, ElapseKeeps DEF CoreInv
<1>7. CASE \E r \in Calls \cup Automations : Call(r)
  <2>1. PICK r \in Calls : Call(r)
    BY <1>7, ComponentAssumption
  <2>2. CASE Dismissed(r) \/ TurnedAway(r)
    <3>1. EngineIdle \/ \E x : Reject(x)
      BY <2>2 DEF Dismissed, TurnedAway
    <3>2. pending' = pending /\ latest' = latest /\ turn' = turn
      BY <2>2 DEF Dismissed, TurnedAway, Warned
    <3> QED
      BY <1>1, <3>1, <3>2, RestKeeps DEF CoreInv
  <2>3. CASE Taken(r)
    <3>1. Overlay(Live', pending', turn = "in") /\ LatestInv'
      BY <1>1, <2>3, TakenKeeps
    <3>2. turn' = turn
      BY <2>3 DEF Taken
    <3>3. Overlay(Live', pending', turn' = "in")
      BY <3>1, <3>2
    <3> QED
      BY <1>1, <3>1, <3>3 DEF CoreInv, OverlayInv
  <2> QED
    BY <2>1, <2>2, <2>3 DEF Call
<1>8. CASE \E s \in Statuses : Read(s)
  BY <1>1, <1>8, ReadKeeps DEF CoreInv
<1> QED
  BY <1>2, <1>3, <1>4, <1>5, <1>6, <1>7, <1>8 DEF ComponentNext

LEMMA CoreStep == ASSUME CoreInv, [ComponentNext]_<<vars, component>> PROVE CoreInv'
<1>1. CASE ComponentNext
  BY <1>1, CoreNext
<1>2. CASE UNCHANGED <<vars, component>>
  <2>1. EngineInv'
    BY <1>2, NextKeepsIInv, NextKeepsLInv, NextReports DEF CoreInv, EngineInv
  <2>2. /\ current' = current /\ queue' = queue /\ nextGeneration' = nextGeneration
        /\ pending' = pending /\ latest' = latest /\ turn' = turn
        /\ remembered' = remembered
    BY <1>2 DEF vars, component
  <2>3. Live' = Live /\ LatestInv'
    BY <2>2, StayKeeps
  <2>4. OverlayInv' /\ MemoryInv'
    BY <2>2, <2>3 DEF CoreInv, OverlayInv, MemoryInv
  <2> QED
    BY <2>1, <2>3, <2>4 DEF CoreInv
<1> QED
  BY <1>1, <1>2

LEMMA InitCore == ComponentInit => CoreInv
<1> SUFFICES ASSUME ComponentInit PROVE CoreInv
  OBVIOUS
<1>1. /\ Init /\ queue = <<>> /\ current = NoOperation /\ nextGeneration = 0
      /\ pending = Nothing /\ remembered = Nothing /\ latest = 0
  BY DEF ComponentInit, Init
<1>2. DOMAIN Nothing = {} /\ DOMAIN queue = {} /\ ~Active
  BY <1>1 DEF Nothing, Active
<1>3. EngineInv
  BY <1>1, <1>2, InitIInv, InitLInv DEF EngineInv, UInv, DistinctOps
<1>4. LiveShape /\ Len(queue) = 0
  BY <1>1, <1>3, EngineShape, EmptySeq
<1>5. Len(Live) = 0 /\ DOMAIN Live = {}
  BY <1>2, <1>4 DEF LiveShape
<1>6. OverlayInv
  BY <1>1, <1>2, <1>5 DEF OverlayInv, Overlay, IsNewest, NamingIn
<1> QED
  BY <1>1, <1>2, <1>3, <1>5, <1>6 DEF CoreInv, LatestInv, MemoryInv

LEMMA CoreInvariance == ComponentSpec => []CoreInv
BY InitCore, CoreStep, PTL DEF ComponentSpec

(***************************************************************************)
(* What is pending is, field by field, the setting of the newest accepted  *)
(* operation without an outcome: no older completion clears a newer        *)
(* setting, and none is shown for longer than its operation lives.         *)
(***************************************************************************)
THEOREM PendingIsNewest == ComponentSpec => []OverlayIsNewest
<1>1. CoreInv => OverlayIsNewest
  BY OverlayNow DEF CoreInv, EngineInv, IInv, TypeOK
<1> QED
  BY <1>1, CoreInvariance, PTL

(***************************************************************************)
(* Controls and capacity.                                                  *)
(***************************************************************************)
LEMMA AskedIsValid ==
    ASSUME MemoryInv, NEW r \in Calls, Asked(r)
    PROVE  Valid(Filled(r))
<1> DEFINE x == Filled(r)
<1>1. Sound(x)
  BY DEF Asked
<1>2. ~Names(x, "power") /\ (Names(x, "dryOffset") => DOMAIN x = {"dryOffset"})
  BY FilledFacts DEF Names
<1> HIDE DEF x
<1>3. /\ DOMAIN x # {}
      /\ \A f \in DOMAIN Supported : Names(x, f) => x[f] \in Supported[f]
      /\ Names(x, "fan") => x["fan"] \in Fan
      /\ Names(x, "temperature") => Encodable(x["temperature"])
      /\ Names(x, "dryOffset") =>
            DryOffsetEnabled /\ ~Fahrenheit /\ x["dryOffset"] \in Offset
  BY <1>1 DEF Sound
<1>4. /\ Names(x, "mode") => x["mode"] \in Mode
      /\ Names(x, "swing") => x["swing"] \in Swing
      /\ Names(x, "preset") => x["preset"] \in Preset
  BY <1>3, ComponentAssumption
<1> QED
  BY <1>2, <1>3, <1>4 DEF Valid, x

CapacityStep == \A r \in Calls : TurnedAway(r) => Len(queue) = QueueCapacity

LEMMA CapacityNow == ASSUME MemoryInv PROVE CapacityStep
BY AskedIsValid DEF CapacityStep, TurnedAway, Reject

(***************************************************************************)
(* "Queue rejections count operations refused for lack of capacity": what  *)
(* has passed the component's own checks, the targets it filled in from    *)
(* its memory included, the engine refuses only when its queue is full.    *)
(***************************************************************************)
THEOREM OnlyCapacityRejects == ComponentSpec => RejectionsAreForCapacity
<1>1. CoreInv => CapacityStep
  BY CapacityNow DEF CoreInv
<1> QED
  BY <1>1, CoreInvariance, PTL DEF RejectionsAreForCapacity, CapacityStep

(***************************************************************************)
(* The Dry adjustment number.                                              *)
(***************************************************************************)
Feedback ==
    /\ hasStatus /\ Drying(status)
    /\ number = <<OffsetOf(status.compensation)>>
    /\ statusAge < StaleAfter + lag
    /\ ~communicationWarning

FeedbackInv ==
    /\ statusAge \in 0 .. StaleAfter /\ lag \in Nat
    /\ communicationWarning \in BOOLEAN
    /\ turn = "setup" => number = <<>>
    /\ turn = "out" /\ number # <<>> => Feedback

LEMMA TickReads == ASSUME TickSteps PROVE status' = status
BY DEF TickSteps, TickExpired, TickWaits, TickIdlePoll, TickIdleStart, TickBlocked,
       TickSend, TickDrained, TickSettled, TickReread, TickTimeout, TickRecovery,
       Quietly, Poll, PollWith

LEMMA StaysFeedback ==
    ASSUME FeedbackInv, status' = status, lag' = lag, statusAge' = statusAge,
           hasStatus' = hasStatus, communicationWarning' = communicationWarning,
           number' = number,
           turn' = turn \/ turn = "setup" \/ turn' = "in"
    PROVE  FeedbackInv'
<1>1. turn' = "setup" => number' = <<>>
  BY DEF FeedbackInv
<1>2. turn' = "out" /\ number' # <<>> => Feedback'
  BY DEF FeedbackInv, Feedback
<1> QED
  BY <1>1, <1>2 DEF FeedbackInv

LEMMA LoopEndFeeds == ASSUME FeedbackInv, LoopEnd PROVE FeedbackInv'
<1>1. /\ status' = status /\ lag' = 0 /\ statusAge' = statusAge
      /\ hasStatus' = hasStatus /\ turn' = "out"
      /\ number' = When(DryOffsetEnabled, NumberShown(status, Connected))
  BY TickReads, TickServes DEF LoopEnd, heard
<1>2. communicationWarning' = ((communicationWarning \/ StatusStale) \/ Alarms({0}))
  BY DEF LoopEnd, React
<1>3. communicationWarning' \in BOOLEAN /\ (~communicationWarning' => ~StatusStale)
  BY <1>2
<1>4. ASSUME number' # <<>> PROVE Feedback'
  <2>1. /\ Connected /\ Drying(status)
        /\ number' = <<OffsetOf(status.compensation)>>
    BY <1>1, <1>4 DEF When, NumberShown
  <2>2. ~(statusAge >= StaleAfter)
    BY <1>3, <2>1 DEF Connected, StatusStale
  <2>3. statusAge' < StaleAfter + lag'
    BY <1>1, <2>2, ComponentAssumption DEF FeedbackInv
  <2> QED
    BY <1>1, <2>1, <2>3 DEF Feedback, Connected
<1> QED
  BY <1>1, <1>3, <1>4 DEF FeedbackInv

LEMMA ReadFeeds ==
    ASSUME FeedbackInv, NEW s, Read(s)
    PROVE  FeedbackInv'
<1>1. /\ turn = "in" /\ turn' = "in" /\ statusAge' = 0 /\ lag' = lag
  BY ReceiveServes DEF Read
<1>2. communicationWarning' = (FALSE \/ Alarms({0}))
  BY DEF Read, React
<1>3. communicationWarning' \in BOOLEAN
  BY <1>2
<1>4. 0 \in 0 .. StaleAfter
  BY ComponentAssumption
<1> QED
  BY <1>1, <1>3, <1>4 DEF FeedbackInv

LEMMA ElapseFeeds == ASSUME FeedbackInv, Elapse PROVE FeedbackInv'
<1>1. /\ status' = status /\ lag' = lag + 1 /\ turn' = turn
      /\ statusAge' = IF StatusStale THEN statusAge ELSE statusAge + 1
      /\ hasStatus' = hasStatus /\ communicationWarning' = communicationWarning
      /\ number' = number
  BY DEF Elapse, Advance, warnings
<1>2. /\ StaleAfter \in Nat /\ lag \in Nat /\ statusAge \in 0 .. StaleAfter
  BY ComponentAssumption DEF FeedbackInv
<1>3. /\ statusAge' \in 0 .. StaleAfter /\ lag' \in Nat
      /\ statusAge < StaleAfter + lag => statusAge' < StaleAfter + lag'
  BY <1>1, <1>2 DEF StatusStale
<1>4. turn' = "out" /\ number' # <<>> => Feedback'
  BY <1>1, <1>3 DEF FeedbackInv, Feedback
<1> QED
  BY <1>1, <1>3, <1>4 DEF FeedbackInv

LEMMA CallFeeds ==
    ASSUME FeedbackInv, NEW r, Call(r)
    PROVE  FeedbackInv'
<1>1. CASE Dismissed(r) \/ TurnedAway(r)
  <2>1. status' = status /\ lag' = lag
    BY <1>1 DEF Dismissed, TurnedAway, EngineIdle, engine, Reject, Untouched
  <2>2. /\ turn' = turn /\ statusAge' = statusAge /\ hasStatus' = hasStatus
        /\ communicationWarning' = communicationWarning /\ number' = number
    BY <1>1 DEF Dismissed, TurnedAway, Warned, heard
  <2> QED
    BY <2>1, <2>2, StaysFeedback
<1>2. CASE Taken(r)
  <2>1. status' = status /\ lag' = lag
    BY <1>2 DEF Taken, Admit, Supersede, Untouched
  <2>2. /\ turn' = turn /\ statusAge' = statusAge /\ hasStatus' = hasStatus
        /\ communicationWarning' = communicationWarning /\ number' = number
    BY <1>2 DEF Taken, heard, warnings
  <2> QED
    BY <2>1, <2>2, StaysFeedback
<1> QED
  BY <1>1, <1>2 DEF Call

LEMMA OtherFeeds ==
    ASSUME FeedbackInv, Setup \/ Update \/ LoopBegin \/ Resume
    PROVE  FeedbackInv'
<1>1. status' = status /\ lag' = lag
  BY DEF Setup, Update, LoopBegin, Resume, RequestPoll, EngineIdle, engine
<1>2. /\ turn' = turn \/ turn = "setup" \/ turn' = "in"
      /\ statusAge' = statusAge /\ hasStatus' = hasStatus
      /\ communicationWarning' = communicationWarning /\ number' = number
  BY DEF Setup, Update, LoopBegin, Resume, component, heard, warnings
<1> QED
  BY <1>1, <1>2, StaysFeedback

LEMMA FeedbackStep ==
    ASSUME FeedbackInv, [ComponentNext]_<<vars, component>>
    PROVE  FeedbackInv'
<1>1. CASE UNCHANGED <<vars, component>>
  <2>1. /\ status' = status /\ lag' = lag /\ turn' = turn
        /\ statusAge' = statusAge /\ hasStatus' = hasStatus
        /\ communicationWarning' = communicationWarning /\ number' = number
    BY <1>1 DEF vars, component, heard, warnings
  <2> QED
    BY <2>1, StaysFeedback
<1> QED
  BY <1>1, LoopEndFeeds, ReadFeeds, ElapseFeeds, CallFeeds, OtherFeeds DEF ComponentNext

LEMMA InitFeedback == ComponentInit => FeedbackInv
BY ComponentAssumption DEF ComponentInit, Init, FeedbackInv

LEMMA FeedbackInvariance == ComponentSpec => []FeedbackInv
BY InitFeedback, FeedbackStep, PTL DEF ComponentSpec

(***************************************************************************)
(* The Dry adjustment number shows between two turns of the loop what the  *)
(* latest status of a drying unit says or nothing, and nothing when that   *)
(* status was stale at the last tick or the communication is in doubt.     *)
(***************************************************************************)
THEOREM NumberShowsFeedback == ComponentSpec => []NumberIsFeedback
<1>1. FeedbackInv => NumberIsFeedback
  BY DEF FeedbackInv, Feedback, NumberIsFeedback, Quiet
<1> QED
  BY <1>1, FeedbackInvariance, PTL

(***************************************************************************)
(* The memory of targets.                                                  *)
(***************************************************************************)
Both == {"mode", "temperature"} \subseteq DOMAIN pending

TargetKept ==
    /\ Both
    /\ pending["mode"].generation = pending["temperature"].generation
    /\ pending["mode"].value \in {Heat, Cool}
    => LET m == pending["mode"].value IN
       m \in DOMAIN remembered /\ remembered[m] = pending["temperature"].value

LEMMA TargetKeptIs == TargetKept <=> PendingTargetRemembered
BY DEF TargetKept, PendingTargetRemembered, Both

\* What stays pending stays what it is, and the memory is left alone.
LEMMA TargetStays ==
    ASSUME TargetKept,
           {"mode", "temperature"} \subseteq DOMAIN pending' =>
               /\ Both
               /\ \A f \in {"mode", "temperature"} :
                     /\ pending'[f].value = pending[f].value
                     /\ pending'[f].generation = pending[f].generation
               /\ \A m \in {Heat, Cool} :
                     m \in DOMAIN remembered =>
                        m \in DOMAIN remembered' /\ remembered'[m] = remembered[m]
    PROVE  TargetKept'
<1> SUFFICES ASSUME {"mode", "temperature"} \subseteq DOMAIN pending',
                    pending'["mode"].generation = pending'["temperature"].generation,
                    pending'["mode"].value \in {Heat, Cool}
             PROVE  /\ pending'["mode"].value \in DOMAIN remembered'
                    /\ remembered'[pending'["mode"].value] = pending'["temperature"].value
  BY DEF TargetKept, Both
<1>1. /\ Both
      /\ pending'["mode"].value = pending["mode"].value
      /\ pending'["mode"].generation = pending["mode"].generation
      /\ pending'["temperature"].value = pending["temperature"].value
      /\ pending'["temperature"].generation = pending["temperature"].generation
  OBVIOUS
<1>2. /\ pending["mode"].value \in DOMAIN remembered
      /\ remembered[pending["mode"].value] = pending["temperature"].value
  BY <1>1 DEF TargetKept
<1> QED
  BY <1>1, <1>2

\* l is p laid over q.
IsOver(l, p, q) ==
    /\ DOMAIN l = DOMAIN p \cup DOMAIN q
    /\ \A f \in DOMAIN p : l[f] = p[f]
    /\ \A f \in DOMAIN q \ DOMAIN p : l[f] = q[f]

LEMMA OverIs == ASSUME NEW p, NEW q PROVE IsOver(Over(p, q), p, q)
BY OverFacts DEF IsOver

LEMMA MemoryStays ==
    ASSUME remembered' = Over(Nothing, remembered)
    PROVE  \A m \in DOMAIN remembered :
              m \in DOMAIN remembered' /\ remembered'[m] = remembered[m]
<1>1. DOMAIN Nothing = {}
  BY DEF Nothing
<1>2. IsOver(remembered', Nothing, remembered)
  BY OverIs
<1> QED
  BY <1>1, <1>2 DEF IsOver

LEMMA CompletedFacts ==
    ASSUME NEW p, NEW gone
    PROVE  /\ DOMAIN Completed(p, gone) \subseteq DOMAIN p
           /\ \A f \in DOMAIN Completed(p, gone) : Completed(p, gone)[f] = p[f]
BY DEF Completed, Without

LEMMA RoundedWhole == \A t \in Int : Rounded(2 * t) = t
BY DEF Rounded

LEMMA TargetsAreWhole == Targets \subseteq Int
<1>1. ASSUME NEW r \in Calls, Names(r, "temperature") PROVE Rounded(r["temperature"]) \in Int
  <2>1. r["temperature"] \in Int
    BY <1>1, ComponentAssumption, EnvironmentFacts DEF IsIntent, Names
  <2> QED
    BY <2>1 DEF Rounded
<1>2. ASSUME NEW s \in Statuses PROVE s.setpoint \in Int
  BY EnvironmentFacts DEF Status
<1> QED
  BY <1>1, <1>2 DEF Targets

LEMMA NewTargetKept ==
    ASSUME MemoryInv, NEW r \in Calls, Taken(r),
           {"mode", "temperature"} \subseteq DOMAIN Filled(r)
    PROVE  LET m == Normalized(Filled(r))["mode"] IN
           m \in {Heat, Cool} =>
              /\ m \in DOMAIN remembered'
              /\ remembered'[m] = Normalized(Filled(r))["temperature"]
<1> DEFINE x == Filled(r)
           m == x["mode"]
<1>1. Normalized(x)["mode"] = m /\ Normalized(x)["temperature"] = Rounded(x["temperature"])
  BY DEF Normalized, Names
<1>2. DOMAIN x \subseteq DOMAIN r \cup {"temperature"} /\ Names(r, "mode")
  BY FilledFacts DEF Names
<1>3. CASE Names(r, "temperature")
  <2>1. x = r
    BY <1>3 DEF Filled
  <2>2. /\ remembered' = Over(Target(r), remembered)
        /\ Target(r) = [n \in {m} \cap {Heat, Cool} |-> Rounded(x["temperature"])]
    BY <1>2, <1>3, <2>1 DEF Taken, Target
  <2> HIDE DEF m, x
  <2>3. m \in {Heat, Cool} =>
           m \in DOMAIN Target(r) /\ Target(r)[m] = Rounded(x["temperature"])
    BY <2>2
  <2>4. m \in {Heat, Cool} =>
           m \in DOMAIN remembered' /\ remembered'[m] = Rounded(x["temperature"])
    BY <2>2, <2>3, OverFacts
  <2> QED
    BY <1>1, <2>4 DEF x
<1>4. CASE ~Names(r, "temperature")
  <2> DEFINE t == remembered[r["mode"]]
  <2>1. r["mode"] \in DOMAIN remembered /\ x = WithTarget(r, t)
    BY <1>4 DEF Filled, Names
  <2>2. t \in Int
    BY <2>1, TargetsAreWhole DEF MemoryInv
  <2> HIDE DEF t, x, m
  <2>3. x["temperature"] = 2 * t /\ x["mode"] = r["mode"]
    BY <1>2, <2>1 DEF WithTarget, Over, Names
  <2>4. Rounded(x["temperature"]) = t
    BY <2>2, <2>3, RoundedWhole
  <2>5. remembered' = Over(Nothing, remembered)
    BY <1>4 DEF Taken
  <2>6. r["mode"] \in DOMAIN remembered' /\ remembered'[r["mode"]] = t
    BY <2>1, <2>5, MemoryStays DEF t
  <2> QED
    BY <1>1, <2>3, <2>4, <2>6 DEF x, m
<1> QED
  BY <1>3, <1>4

LEMMA PendingLives ==
    ASSUME CoreInv, NEW f \in DOMAIN pending
    PROVE  pending[f].generation \in LiveGenerations
<1>1. PICK j : IsNewest(Live, f, j) /\ pending[f] = ShownAs(Live[j], f)
  BY DEF CoreInv, OverlayInv, Overlay
<1>2. Live \in Seq(Operation) /\ LiveNames
  BY LiveDistinct DEF CoreInv
<1>3. j \in 1 .. Len(Live)
  BY <1>1, <1>2, NewestIsMax
<1> QED
  BY <1>1, <1>2, <1>3 DEF LiveNames, ShownAs

LEMMA TakenTargetKept ==
    ASSUME CoreInv, TargetKept, NEW r \in Calls, Taken(r)
    PROVE  TargetKept'
<1> DEFINE x == Filled(r)
           q == Completed(pending, Ended)
           new == [f \in DOMAIN Normalized(x) |->
                     [value |-> Normalized(x)[f], generation |-> latest', age |-> 0]]
<1>1. /\ latest' = NextGeneration /\ NextGeneration \notin LiveGenerations
      /\ IF LaysOver(r) THEN pending' = Over(new, q) ELSE pending' = q
  BY DEF Taken, Admit, Supersede, Laid
<1>8. LaysOver(r) => IsOver(pending', new, q)
  BY <1>1, OverIs
<1>2. /\ DOMAIN new = DOMAIN x
      /\ \A f \in DOMAIN x : new[f].value = Normalized(x)[f] /\ new[f].generation = latest'
  BY NormalizedFields
<1>3. /\ DOMAIN q \subseteq DOMAIN pending
      /\ \A f \in DOMAIN q : q[f] = pending[f]
  BY CompletedFacts
<1>4. \A f \in DOMAIN q : q[f].generation # latest'
  BY <1>1, <1>3, PendingLives
<1> HIDE DEF new, q
<1>5. CASE ~LaysOver(r) \/ (LaysOver(r) /\ {"mode", "temperature"} \cap DOMAIN x = {})
  <2>1. ASSUME {"mode", "temperature"} \subseteq DOMAIN pending'
        PROVE  \A f \in {"mode", "temperature"} : f \in DOMAIN q /\ pending'[f] = q[f]
    <3>1. CASE ~LaysOver(r)
      BY <1>1, <2>1, <3>1
    <3>2. CASE LaysOver(r) /\ {"mode", "temperature"} \cap DOMAIN x = {}
      BY <1>8, <1>2, <2>1, <3>2 DEF IsOver
    <3> QED
      BY <1>5, <3>1, <3>2
  <2>2. ~Names(r, "temperature")
    <3>1. CASE ~LaysOver(r)
      BY <3>1, FilledFacts DEF LaysOver, Names, CoreInv
    <3>2. CASE {"mode", "temperature"} \cap DOMAIN x = {}
      BY <3>2, FilledFacts DEF Names, CoreInv
    <3> QED
      BY <1>5, <3>1, <3>2
  <2>3. remembered' = Over(Nothing, remembered)
    BY <2>2 DEF Taken
  <2>4. \A m \in DOMAIN remembered : m \in DOMAIN remembered' /\ remembered'[m] = remembered[m]
    BY <2>3, MemoryStays
  <2> QED
    BY <1>3, <2>1, <2>4, TargetStays DEF Both
<1>6. CASE LaysOver(r) /\ {"mode", "temperature"} \subseteq DOMAIN x
  <2>1. \A f \in {"mode", "temperature"} :
           f \in DOMAIN pending' /\ pending'[f].value = Normalized(x)[f]
    BY <1>8, <1>2, <1>6 DEF IsOver
  <2>2. LET m == Normalized(x)["mode"] IN
        m \in {Heat, Cool} =>
           m \in DOMAIN remembered' /\ remembered'[m] = Normalized(x)["temperature"]
    BY <1>6, NewTargetKept DEF CoreInv
  <2> QED
    BY <2>1, <2>2 DEF TargetKept
<1>7. CASE /\ LaysOver(r)
           /\ \E f, g \in {"mode", "temperature"} : f \in DOMAIN x /\ g \notin DOMAIN x
  <2>1. PICK f \in {"mode", "temperature"}, g \in {"mode", "temperature"} :
           f \in DOMAIN x /\ g \notin DOMAIN x
    BY <1>7
  <2>2. f # g
    BY <2>1
  <2>3. pending'[f].generation = latest'
    BY <1>8, <1>2, <1>7, <2>1 DEF IsOver
  <2>4. g \in DOMAIN pending' => g \in DOMAIN q /\ pending'[g] = q[g]
    BY <1>8, <1>2, <1>7, <2>1 DEF IsOver
  <2>5. g \in DOMAIN pending' => pending'[g].generation # pending'[f].generation
    BY <1>4, <2>3, <2>4
  <2>6. (f = "mode" /\ g = "temperature") \/ (f = "temperature" /\ g = "mode")
    <3>1. \A a, b \in {"mode", "temperature"} :
             a # b => (a = "mode" /\ b = "temperature") \/ (a = "temperature" /\ b = "mode")
      OBVIOUS
    <3> QED
      BY <2>2, <3>1
  <2> QED
    BY <2>5, <2>6 DEF TargetKept, Both
<1> QED
  BY <1>5, <1>6, <1>7

LEMMA TargetStep ==
    ASSUME CoreInv, TargetKept, [ComponentNext]_<<vars, component>>
    PROVE  TargetKept'
<1>1. CASE pending' = pending /\ remembered' = remembered
  BY <1>1 DEF TargetKept, Both
<1>2. CASE LoopBegin
  <2>1. remembered' = remembered /\ pending' = Without(pending, Overdue)
    BY <1>2 DEF LoopBegin
  <2>2. DOMAIN pending' \subseteq DOMAIN pending /\ \A f \in DOMAIN pending' : pending'[f] = pending[f]
    BY <2>1 DEF Without
  <2> QED
    BY <2>1, <2>2, TargetStays DEF Both
<1>3. CASE LoopEnd
  <2>1. remembered' = remembered /\ pending' = Completed(pending, Ended)
    BY <1>3 DEF LoopEnd, React
  <2>2. DOMAIN pending' \subseteq DOMAIN pending /\ \A f \in DOMAIN pending' : pending'[f] = pending[f]
    BY <2>1, CompletedFacts
  <2> QED
    BY <2>1, <2>2, TargetStays DEF Both
<1>4. ASSUME NEW s \in Statuses, Read(s) PROVE TargetKept'
  <2>1. pending' = Completed(pending, Ended)
    BY <1>4 DEF Read, React
  <2>2. DOMAIN pending' \subseteq DOMAIN pending /\ \A f \in DOMAIN pending' : pending'[f] = pending[f]
    BY <2>1, CompletedFacts
  <2>3. ASSUME {"mode", "temperature"} \subseteq DOMAIN pending'
        PROVE  \A m \in DOMAIN remembered :
                  m \in DOMAIN remembered' /\ remembered'[m] = remembered[m]
    <3>1. ~Steady(s)
      BY <2>3 DEF Steady
    <3>2. remembered' = Over(Nothing, remembered)
      BY <1>4, <3>1 DEF Read
    <3> QED
      BY <3>2, MemoryStays
  <2> QED
    BY <2>2, <2>3, TargetStays DEF Both
<1>5. CASE Elapse
  <2>1. /\ remembered' = remembered
        /\ pending' = [f \in DOMAIN pending |-> [pending[f] EXCEPT !.age = Older(@)]]
    BY <1>5 DEF Elapse
  <2>2. ASSUME NEW f \in DOMAIN pending
        PROVE  /\ f \in DOMAIN pending'
               /\ pending'[f].value = pending[f].value
               /\ pending'[f].generation = pending[f].generation
    <3>1. PICK j : pending[f] = ShownAs(Live[j], f)
      BY DEF CoreInv, OverlayInv, Overlay
    <3> QED
      BY <2>1, <3>1 DEF ShownAs
  <2>3. DOMAIN pending' = DOMAIN pending
    BY <2>1
  <2> QED
    BY <2>1, <2>2, <2>3, TargetStays DEF Both
<1>6. CASE Setup \/ Update \/ Resume \/ UNCHANGED <<vars, component>>
  BY <1>1, <1>6 DEF Setup, Update, Resume, component
<1>7. CASE \E r \in Calls \cup Automations : Call(r)
  <2>1. PICK r \in Calls : Call(r)
    BY <1>7, ComponentAssumption
  <2>2. CASE Dismissed(r) \/ TurnedAway(r)
    BY <1>1, <2>2 DEF Dismissed, TurnedAway, Warned
  <2> QED
    BY <2>1, <2>2, TakenTargetKept DEF Call
<1> QED
  BY <1>2, <1>3, <1>4, <1>5, <1>6, <1>7 DEF ComponentNext

LEMMA InitTarget == ComponentInit => TargetKept
BY DEF ComponentInit, Nothing, TargetKept, Both

(***************************************************************************)
(* A target accepted together with Heat or Cool stays remembered for that  *)
(* mode as long as both are pending, whatever the unit reports meanwhile   *)
(* and whatever else is asked for.                                         *)
(***************************************************************************)
THEOREM TargetSurvivesItsWay == ComponentSpec => []PendingTargetRemembered
<1>1. ComponentInit => TargetKept
  BY InitTarget
<1>2. CoreInv /\ TargetKept /\ [ComponentNext]_<<vars, component>> => TargetKept'
  BY TargetStep
<1>3. TargetKept => PendingTargetRemembered
  BY TargetKeptIs
<1> QED
  BY <1>1, <1>2, <1>3, CoreInvariance, PTL DEF ComponentSpec

(***************************************************************************)
(* What Home Assistant sees.                                               *)
(***************************************************************************)
View == Present(pending, confirmed)

ShownInv ==
    /\ dirty \in BOOLEAN
    /\ dirty => turn = "in" /\ Optimistic
    /\ publishing # <<>> => ~Optimistic /\ publishing = <<confirmed>>
    /\ ~Names(confirmed, "mode") => climate = Nothing
    /\ ~dirty /\ Names(View, "display") => display = Only(View, {"display"})
    /\ ~dirty /\ publishing = <<>> /\ Names(confirmed, "mode") => climate = Climate(View)

LEMMA SameContext ==
    ASSUME NEW p, NEW q, NEW c, DOMAIN p = DOMAIN q,
           \A f \in DOMAIN p : p[f].value = q[f].value
    PROVE  Context(p, c) = Context(q, c)
<1>1. [f \in DOMAIN p |-> p[f].value] = [f \in DOMAIN q |-> q[f].value]
  OBVIOUS
<1> QED
  BY <1>1 DEF Context

\* The view stays the same when the settings do, or when none is shown.
LEMMA SameView ==
    ASSUME confirmed' = confirmed,
           \/ ~Optimistic
           \/ /\ DOMAIN pending' = DOMAIN pending
              /\ \A f \in DOMAIN pending : pending'[f].value = pending[f].value
    PROVE  View' = View
<1>1. CASE ~Optimistic
  BY <1>1 DEF View, Present
<1>2. CASE /\ DOMAIN pending' = DOMAIN pending
           /\ \A f \in DOMAIN pending : pending'[f].value = pending[f].value
  <2>1. Context(pending', confirmed) = Context(pending, confirmed)
    BY <1>2, SameContext
  <2> QED
    BY <2>1 DEF View, Present
<1> QED
  BY <1>1, <1>2

LEMMA ShownStays ==
    ASSUME ShownInv, View' = View, confirmed' = confirmed,
           climate' = climate, display' = display, publishing' = publishing,
           dirty' = dirty, dirty => turn' = "in"
    PROVE  ShownInv'
BY DEF ShownInv

LEMMA PublishShows ==
    ASSUME ShownInv, Automations = {} \/ ~Optimistic, publishing = <<>>, Publish,
           Names(confirmed, "mode") => Names(confirmed', "mode")
    PROVE  ShownInv'
<1> DEFINE view == Present(pending', confirmed')
<1>1. /\ dirty' = FALSE
      /\ display' = IF Names(view, "display") THEN Only(view, {"display"}) ELSE display
      /\ \/ publishing' = <<view>> /\ climate' = climate /\ Automations # {}
         \/ PublishedClimate(view) /\ publishing' = publishing
  BY DEF Publish
<1>2. View' = view
  BY DEF View
<1>3. ~Optimistic => view = confirmed'
  BY DEF Present
<1> HIDE DEF view
<1>4. ~Names(confirmed', "mode") => climate' = Nothing
  BY <1>1 DEF PublishedClimate, ShownInv
<1>5. \A c : <<c>> # <<>>
  OBVIOUS
<1>6. CASE publishing' = <<view>> /\ climate' = climate /\ Automations # {}
  BY <1>1, <1>2, <1>3, <1>4, <1>5, <1>6 DEF ShownInv
<1>7. CASE PublishedClimate(view) /\ publishing' = publishing
  BY <1>1, <1>2, <1>4, <1>7 DEF ShownInv, PublishedClimate
<1> QED
  BY <1>1, <1>6, <1>7

LEMMA LoopBeginShows == ASSUME ShownInv, LoopBegin PROVE ShownInv'
<1>1. /\ confirmed' = confirmed /\ climate' = climate /\ display' = display
      /\ publishing' = publishing /\ turn' = "in"
      /\ pending' = Without(pending, Overdue)
      /\ IF Overdue # {} THEN dirty' = Optimistic ELSE dirty' = dirty
  BY DEF LoopBegin, shown
<1>2. CASE Overdue = {} \/ ~Optimistic
  <2>1. ~Optimistic => ~dirty
    BY DEF ShownInv
  <2>2. dirty' = dirty
    BY <1>1, <1>2, <2>1, PresentationAssumption DEF ShownInv
  <2>3. ASSUME Overdue = {}
        PROVE  /\ DOMAIN pending' = DOMAIN pending
               /\ \A f \in DOMAIN pending : pending'[f].value = pending[f].value
    BY <1>1, <2>3 DEF Without
  <2>4. View' = View
    BY <1>1, <1>2, <2>3, SameView
  <2> QED
    BY <1>1, <2>2, <2>4, ShownStays
<1>3. CASE Overdue # {} /\ Optimistic
  <2>1. dirty' = TRUE
    BY <1>1, <1>3, PresentationAssumption
  <2> QED
    BY <1>1, <1>3, <2>1 DEF ShownInv
<1> QED
  BY <1>2, <1>3

LEMMA LoopEndShows ==
    ASSUME ShownInv, Automations = {} \/ ~Optimistic, publishing = <<>>, LoopEnd
    PROVE  ShownInv'
<1>1. /\ confirmed' = confirmed /\ turn' = "out"
      /\ IF Dirtied(pending) THEN Publish ELSE UNCHANGED <<dirty, shown>>
  BY DEF LoopEnd
<1>2. CASE Dirtied(pending)
  BY <1>1, <1>2, PublishShows
<1>3. CASE ~Dirtied(pending)
  <2>1. ~dirty /\ (~Optimistic \/ pending' = pending)
    BY <1>3 DEF Dirtied
  <2>2. View' = View
    BY <1>1, <2>1, SameView
  <2>3. /\ climate' = climate /\ display' = display /\ publishing' = publishing
        /\ dirty' = dirty
    BY <1>1, <1>3 DEF shown
  <2> QED
    BY <1>1, <2>1, <2>2, <2>3, ShownStays
<1> QED
  BY <1>2, <1>3

LEMMA ReadShows ==
    ASSUME ShownInv, Automations = {} \/ ~Optimistic, publishing = <<>>,
           NEW s, Read(s)
    PROVE  ShownInv'
<1>1. Publish /\ confirmed' = Applied(confirmed, s)
  BY DEF Read
<1>2. Names(confirmed, "mode") => Names(confirmed', "mode")
  <2> DEFINE kept == Without(confirmed, IF OffsetMode(s) THEN {"temperature"} ELSE {})
  <2>1. Names(confirmed, "mode") => Names(kept, "mode")
    BY DEF Without, Names
  <2>2. confirmed' = Over(Reported(s), kept)
    BY <1>1 DEF Applied
  <2> HIDE DEF kept
  <2> QED
    BY <2>1, <2>2 DEF Over, Names
<1> QED
  BY <1>1, <1>2, PublishShows

LEMMA TakenShows ==
    ASSUME CoreInv, EngineInv', ShownInv, Automations = {} \/ ~Optimistic,
           NEW r \in Calls, Taken(r), publishing # <<>> => r \in Automations
    PROVE  ShownInv'
<1>1. /\ confirmed' = confirmed /\ turn' = turn
      /\ IF LaysOver(r) /\ Optimistic THEN Publish ELSE UNCHANGED <<dirty, shown>>
      /\ ~LaysOver(r) => pending' = Completed(pending, Ended)
  BY DEF Taken
<1>2. CASE LaysOver(r) /\ Optimistic
  <2>1. publishing = <<>>
    BY <1>2 DEF ShownInv
  <2> QED
    BY <1>1, <1>2, <2>1, PublishShows
<1>3. CASE ~(LaysOver(r) /\ Optimistic)
  <2>1. ASSUME ~LaysOver(r)
        PROVE  /\ DOMAIN pending' = DOMAIN pending
               /\ \A f \in DOMAIN pending : pending'[f].value = pending[f].value
    <3>1. DOMAIN pending' = DOMAIN pending
      BY <2>1, TakenKeeps
    <3>2. \A f \in DOMAIN pending' : pending'[f] = pending[f]
      BY <1>1, <2>1, CompletedFacts
    <3> QED
      BY <3>1, <3>2
  <2>2. View' = View
    BY <1>1, <1>3, <2>1, SameView
  <2>3. /\ climate' = climate /\ display' = display /\ publishing' = publishing
        /\ dirty' = dirty
    BY <1>1, <1>3 DEF shown
  <2>4. dirty => turn' = "in"
    BY <1>1 DEF ShownInv
  <2> QED
    BY <1>1, <2>2, <2>3, <2>4, ShownStays
<1> QED
  BY <1>2, <1>3

LEMMA ElapseShows == ASSUME CoreInv, ShownInv, Elapse PROVE ShownInv'
<1>1. /\ confirmed' = confirmed /\ turn' = turn /\ dirty' = dirty
      /\ climate' = climate /\ display' = display /\ publishing' = publishing
      /\ pending' = [f \in DOMAIN pending |-> [pending[f] EXCEPT !.age = Older(@)]]
  BY DEF Elapse, shown
<1>2. ASSUME NEW f \in DOMAIN pending PROVE pending'[f].value = pending[f].value
  <2>1. PICK j : pending[f] = ShownAs(Live[j], f)
    BY DEF CoreInv, OverlayInv, Overlay
  <2> QED
    BY <1>1, <2>1 DEF ShownAs
<1>3. DOMAIN pending' = DOMAIN pending
  BY <1>1
<1>4. View' = View
  BY <1>1, <1>2, <1>3, SameView
<1> QED
  BY <1>1, <1>4, ShownStays DEF ShownInv

LEMMA ResumeShows == ASSUME ShownInv, Resume PROVE ShownInv'
<1>1. /\ publishing # <<>> /\ publishing' = <<>> /\ PublishedClimate(publishing[1])
      /\ confirmed' = confirmed /\ pending' = pending /\ dirty' = dirty
      /\ display' = display /\ turn' = turn
  BY DEF Resume
<1>2. ~Optimistic /\ publishing = <<confirmed>>
  BY <1>1 DEF ShownInv
<1>3. \A c : <<c>>[1] = c
  OBVIOUS
<1>4. climate' = IF Names(confirmed, "mode") THEN Climate(confirmed) ELSE climate
  BY <1>1, <1>2, <1>3 DEF PublishedClimate
<1>5. View' = View /\ View = confirmed
  BY <1>1, <1>2 DEF View, Present
<1> QED
  BY <1>1, <1>2, <1>4, <1>5 DEF ShownInv

LEMMA ShownStep ==
    ASSUME CoreInv, ShownInv, Automations = {} \/ ~Optimistic,
           [ComponentNext]_<<vars, component>>
    PROVE  ShownInv'
<1>1. CASE Setup \/ Update \/ UNCHANGED <<vars, component>>
  <2>1. /\ confirmed' = confirmed /\ pending' = pending /\ dirty' = dirty
        /\ climate' = climate /\ display' = display /\ publishing' = publishing
        /\ turn' = turn \/ turn = "setup"
    BY <1>1 DEF Setup, Update, component, shown
  <2>2. View' = View /\ (dirty => turn' = "in")
    BY <2>1, SameView DEF ShownInv
  <2> QED
    BY <2>1, <2>2, ShownStays
<1>2. ASSUME NEW r \in Calls, Call(r), publishing # <<>> => r \in Automations
      PROVE  ShownInv'
  <2>1. CASE Dismissed(r) \/ TurnedAway(r)
    <3>1. /\ confirmed' = confirmed /\ pending' = pending /\ dirty' = dirty
          /\ climate' = climate /\ display' = display /\ publishing' = publishing
          /\ turn' = turn
      BY <2>1 DEF Dismissed, TurnedAway, Warned, shown
    <3>2. View' = View /\ (dirty => turn' = "in")
      BY <3>1, SameView DEF ShownInv
    <3> QED
      BY <3>1, <3>2, ShownStays
  <2>2. CASE Taken(r)
    <3>1. EngineInv'
      <4>1. Filled(r) \in Requests
        BY FilledFacts DEF CoreInv
      <4>2. Next
        BY <2>2, <4>1 DEF Taken, Enqueue, Next
      <4> QED
        BY <4>2, EngineKeeps DEF CoreInv
    <3> QED
      BY <1>2, <2>2, <3>1, TakenShows
  <2> QED
    BY <1>2, <2>1, <2>2 DEF Call
<1>3. CASE /\ publishing = <<>>
           /\ \/ LoopBegin \/ LoopEnd \/ Elapse
              \/ turn = "out" /\ \E r \in Calls : Call(r)
              \/ \E s \in Statuses : Read(s)
  BY <1>2, <1>3, LoopBeginShows, LoopEndShows, ElapseShows, ReadShows
<1>4. CASE publishing # <<>> /\ \E r \in Automations : Call(r)
  BY <1>2, <1>4, ComponentAssumption
<1> QED
  BY <1>1, <1>3, <1>4, ResumeShows DEF ComponentNext

LEMMA InitShown == ComponentInit => ShownInv
BY DEF ComponentInit, ShownInv, View, Present, Context, Over, Nothing, Names

(***************************************************************************)
(* Between two turns of the loop Home Assistant sees neither more nor less *)
(* than what is confirmed and, in optimistic mode, pending, as long as no  *)
(* call comes from inside a publication; in device-reported mode even      *)
(* then.  Without the hypothesis it is not so: what was to be shown before *)
(* such a call is published after it.                                      *)
(***************************************************************************)
THEOREM ShowsPresent ==
    ASSUME Automations = {} \/ ~Optimistic
    PROVE  ComponentSpec => []ShownIsPresent
<1>1. ComponentInit => ShownInv
  BY InitShown
<1>2. CoreInv /\ ShownInv /\ [ComponentNext]_<<vars, component>> => ShownInv'
  BY ShownStep
<1>3. ShownInv => ShownIsPresent
  BY DEF ShownInv, ShownIsPresent, Quiet, View
<1> QED
  BY <1>1, <1>2, <1>3, CoreInvariance, PTL DEF ComponentSpec

(***************************************************************************)
(* The operation warning.                                                  *)
(***************************************************************************)

\* A status ends an operation successfully, or reports no success at all.
EndsWell ==
    /\ Active /\ current' = NoOperation /\ queue' = queue
    /\ \A i \in DOMAIN finished' : finished'[i].generation = current.generation

LEMMA FinishesWell ==
    ASSUME NEW result \in Success, Finish(result, queue, <<>>), Active
    PROVE  EndsWell
<1>1. /\ finished' = <<>> \o Verdict(current, result)
      /\ current' = NoOperation /\ queue' = queue
  BY DEF Finish, FinishWith, Failure, Success
<1>2. Verdict(current, result) = <<Outcome(current, result)>>
  BY DEF Verdict, Active
<1>3. finished' = <<Outcome(current, result)>>
  BY <1>1, <1>2
<1>4. DOMAIN finished' = {1} /\ finished'[1] = Outcome(current, result)
  BY <1>3
<1> QED
  BY <1>1, <1>4 DEF EndsWell, Outcome

LEMMA ReceiveEndsWell ==
    ASSUME IInv, NEW s \in Statuses, Receive(s)
    PROVE  NoSuccess(finished') \/ EndsWell
<1>1. CASE ReceiveIdle(s)
  <2>1. /\ finished' = <<>> \o Verdict(current, "CONFIRMED")
        /\ current = NoOperation
    BY <1>1 DEF ReceiveIdle, Finish, FinishWith, Failure, Active
  <2>2. Verdict(current, "CONFIRMED") = <<>>
    BY <2>1 DEF Verdict, When, Failure
  <2>3. finished' = <<>>
    BY <2>1, <2>2
  <2> QED
    BY <2>3, NothingIsNoSuccess
<1>2. CASE ReceiveIgnored(s) \/ ReceiveTooLate(s) \/ ReceiveStale(s) \/ ReceiveStep(s)
  <2>1. finished' = <<>>
    BY <1>2 DEF ReceiveIgnored, ReceiveTooLate, ReceiveStale, ReceiveStep
  <2> QED
    BY <2>1, NothingIsNoSuccess
<1>3. ASSUME NEW result \in Result \ Success, Finish(result, queue, <<>>)
      PROVE  NoSuccess(finished')
  <2>1. /\ FinishWith(current, result, queue, <<>>)
        /\ current \in Operation \cup {NoOperation} /\ queue \in Seq(Operation)
        /\ <<>> \in Seq(Callback)
    BY <1>3, EmptySeq DEF Finish, IInv, TypeOK, OperationsOK
  <2> QED
    BY <2>1, NothingIsNoSuccess, FailureReported
<1>4. CASE ReceiveRuledOut(s) \/ ReceiveDryLost(s)
  <2>1. Finish("PREREQUISITE", queue, <<>>) /\ "PREREQUISITE" \in Result \ Success
    BY <1>4 DEF ReceiveRuledOut, ReceiveDryLost, Result, Success
  <2> QED
    BY <1>3, <2>1
<1>5. CASE ReceiveBaseline(s)
  <2>1. \/ finished' = <<>>
        \/ Finish("CONFIRMED", queue, <<>>) /\ Active
        \/ Finish("UNSUPPORTED", queue, <<>>)
    BY <1>5 DEF ReceiveBaseline, Answers
  <2>2. "CONFIRMED" \in Success /\ "UNSUPPORTED" \in Result \ Success
    BY DEF Result, Success
  <2> QED
    BY <1>3, <2>1, <2>2, NothingIsNoSuccess, FinishesWell
<1>6. CASE ReceiveDone(s)
  <2>1. /\ Active
        /\ Finish("UNVERIFIED", queue, <<>>) \/ Finish("CONFIRMED", queue, <<>>)
    BY <1>6 DEF ReceiveDone, Confirming, Answers
  <2>2. "CONFIRMED" \in Success /\ "UNVERIFIED" \in Success
    BY DEF Success
  <2> QED
    BY <2>1, <2>2, FinishesWell
<1> QED
  BY <1>1, <1>2, <1>4, <1>5, <1>6 DEF Receive

SettledStep ==
    operationWarning /\ ~operationWarning' => LiveGenerations' = {} /\ pending' = Nothing

LEMMA LastEnds ==
    ASSUME CoreInv, EngineInv', EndsWell, current.generation = latest
    PROVE  Len(Live') = 0
<1>1. LiveShape /\ LiveShape' /\ DistinctOps(Live) /\ LatestInv /\ Active /\ ~Active'
  BY EngineShape, EngineShapeNext, LiveDistinct DEF CoreInv, EndsWell, Active
<1>2. /\ Len(queue) \in Nat /\ Len(Live) = Len(queue) + 1
      /\ Live[1] = current /\ DOMAIN Live = 1 .. Len(Live)
  BY <1>1 DEF LiveShape
<1>3. Len(Live) > 0 /\ 1 \in DOMAIN Live /\ Len(Live) \in DOMAIN Live
  BY <1>2
<1>4. Live[Len(Live)].generation = Live[1].generation
  BY <1>1, <1>2, <1>3 DEF LatestInv
<1>5. Len(Live) = 1
  BY <1>1, <1>3, <1>4 DEF DistinctOps
<1>6. Len(queue) = 0 /\ Len(queue') = 0
  BY <1>2, <1>5 DEF EndsWell
<1> QED
  BY <1>1, <1>6 DEF LiveShape

LEMMA NothingLives ==
    ASSUME CoreInv', Len(Live') = 0
    PROVE  LiveGenerations' = {} /\ DOMAIN pending' = {}
<1>1. LiveNames' /\ LiveShape'
  BY LiveDistinctNext, EngineShapeNext DEF CoreInv
<1>2. LiveGenerations' = {}
  BY <1>1 DEF LiveNames
<1>3. DOMAIN Live' = {}
  BY <1>1 DEF LiveShape
<1>4. Overlay(Live', pending', turn' = "in")
  BY DEF CoreInv, OverlayInv
<1>5. DOMAIN pending' = {}
  BY <1>3, <1>4 DEF Overlay, IsNewest, NamingIn
<1> QED
  BY <1>2, <1>5

LEMMA WarningRelieved ==
    ASSUME CoreInv, [ComponentNext]_<<vars, component>>
    PROVE  SettledStep
<1> SUFFICES ASSUME operationWarning, ~operationWarning'
             PROVE  LiveGenerations' = {} /\ pending' = Nothing
  BY DEF SettledStep
<1>1. CASE Setup \/ Update \/ Elapse \/ Resume \/ UNCHANGED <<vars, component>>
  BY <1>1 DEF Setup, Update, Elapse, Resume, component, warnings
<1>2. CASE LoopBegin
  BY <1>2 DEF LoopBegin
<1>3. CASE \E r \in Calls \cup Automations : Call(r)
  BY <1>3 DEF Call, Dismissed, TurnedAway, Taken, Warned, warnings
<1>4. ASSUME NEW before, NEW communication, React(before, communication) PROVE Relieves
  BY <1>4 DEF React
<1>5. Relieves => ~NoSuccess(finished')
  BY DEF Relieves, NoSuccess, Excludes, Success
<1>6. CASE LoopEnd
  <2>1. TickSteps /\ Relieves
    BY <1>4, <1>6 DEF LoopEnd
  <2> QED
    BY <1>5, <2>1, TickNoSuccess DEF CoreInv, EngineInv
<1>7. ASSUME NEW s \in Statuses, Read(s)
      PROVE  LiveGenerations' = {} /\ pending' = Nothing
  <2>1. Receive(s) /\ Relieves /\ pending' = Completed(pending, Ended)
    BY <1>4, <1>7 DEF Read, React
  <2>2. EndsWell
    BY <1>5, <2>1, ReceiveEndsWell DEF CoreInv, EngineInv
  <2>3. current.generation = latest
    BY <2>1, <2>2 DEF Relieves, EndsWell
  <2>4. CoreInv'
    BY CoreStep
  <2>5. Len(Live') = 0
    BY <2>2, <2>3, <2>4, LastEnds DEF CoreInv
  <2>6. LiveGenerations' = {} /\ DOMAIN pending' = {}
    BY <2>4, <2>5, NothingLives
  <2>7. pending' = Nothing
    BY <2>1, <2>6 DEF Completed, Without, Nothing
  <2> QED
    BY <2>6, <2>7
<1> QED
  BY <1>1, <1>2, <1>3, <1>6, <1>7 DEF ComponentNext

(***************************************************************************)
(* The operation warning is taken back only when everything accepted has   *)
(* its outcome and nothing is pending: the confirmation that takes it back *)
(* is that of the newest operation, and operations end in their order.     *)
(***************************************************************************)
THEOREM WarningEndsWhenSettled == ComponentSpec => WarningClearedWhenSettled
<1>1. CoreInv /\ [ComponentNext]_<<vars, component>> => SettledStep
  BY WarningRelieved
<1> QED
  BY <1>1, CoreInvariance, PTL
  DEF ComponentSpec, WarningClearedWhenSettled, SettledStep

(***************************************************************************)
(* The types of the component.                                             *)
(***************************************************************************)
KnownOK ==
    /\ turn \in {"setup", "out", "in"}
    /\ DOMAIN confirmed \subseteq ClimateField \ {"preset"}
    /\ hasStatus \in BOOLEAN /\ operationWarning \in BOOLEAN /\ dirty \in BOOLEAN

DisplayedOK ==
    /\ DOMAIN climate \subseteq ClimateField /\ DOMAIN display \subseteq {"display"}
    /\ publishing = <<>> \/ \E view : publishing = <<view>> /\ DOMAIN view \subseteq ClimateField

NumberOK == number \in {<<>>} \cup {<<n>> : n \in Offset}

KindInv == KnownOK /\ DisplayedOK /\ NumberOK

LEMMA PendingOK ==
    ASSUME CoreInv
    PROVE  /\ DOMAIN pending \subseteq ClimateField
           /\ \A f \in DOMAIN pending :
                 pending[f] \in [value : Int, generation : Generation, age : Elapsed]
<1>1. Live \in Seq(Operation) /\ Overlay(Live, pending, turn = "in")
  BY LiveDistinct DEF CoreInv, OverlayInv
<1>2. ASSUME NEW f \in DOMAIN pending
      PROVE  pending[f] \in [value : Int, generation : Generation, age : Elapsed]
  <2>1. PICK j : IsNewest(Live, f, j) /\ pending[f] = ShownAs(Live[j], f)
    BY <1>1 DEF Overlay
  <2>2. j \in 1 .. Len(Live) /\ f \in DOMAIN Live[j].request
    BY <1>1, <2>1, NewestIsMax DEF IsNewest, NamingIn, Names
  <2>3. /\ Live[j].request \in Accepted /\ Live[j].generation \in Generation
        /\ Live[j].age \in Elapsed
    BY <1>1, <2>2, OpFacts DEF Operation
  <2>4. Live[j].request[f] \in Int
    BY <2>2, <2>3, AcceptedIsIntent DEF IsIntent
  <2> QED
    BY <2>1, <2>3, <2>4 DEF ShownAs
<1> QED
  BY <1>1, <1>2 DEF Overlay

LEMMA KindsAreTypes ==
    ASSUME CoreInv, FeedbackInv, KindInv
    PROVE  ComponentTypeOK
<1>1. latest \in 0 .. (GenerationSize - 1)
  BY DEF CoreInv, LatestInv, EngineInv, IInv, TypeOK, OperationsOK
<1>2. DOMAIN remembered \subseteq {Heat, Cool}
  BY DEF CoreInv, MemoryInv
<1>3. Len(publishing) <= 1 /\ (publishing # <<>> => DOMAIN publishing[1] \subseteq ClimateField)
  <2>1. Len(<<>>) <= 1 /\ \A view : Len(<<view>>) <= 1 /\ <<view>>[1] = view
    OBVIOUS
  <2>2. CASE publishing = <<>>
    BY <2>1, <2>2
  <2>3. ASSUME NEW view, publishing = <<view>>, DOMAIN view \subseteq ClimateField
        PROVE  Len(publishing) <= 1 /\ DOMAIN publishing[1] \subseteq ClimateField
    BY <2>1, <2>3
  <2> QED
    BY <2>2, <2>3 DEF KindInv, DisplayedOK
<1> QED
  BY <1>1, <1>2, <1>3, PendingOK
  DEF FeedbackInv, KindInv, KnownOK, DisplayedOK, NumberOK, ComponentTypeOK

LEMMA ViewFields ==
    ASSUME NEW p, NEW c, DOMAIN p \subseteq ClimateField, DOMAIN c \subseteq ClimateField
    PROVE  DOMAIN Present(p, c) \subseteq ClimateField
BY DEF Present, Context, Over

LEMMA PublishedOK ==
    ASSUME DisplayedOK, NEW view, DOMAIN view \subseteq ClimateField, PublishedClimate(view)
    PROVE  DOMAIN climate' \subseteq ClimateField
<1>1. DOMAIN Climate(view) \subseteq DOMAIN view
  BY DEF Climate
<1> QED
  BY <1>1 DEF PublishedClimate, DisplayedOK

LEMMA PublishOK ==
    ASSUME DisplayedOK, Publish, DOMAIN pending' \subseteq ClimateField,
           DOMAIN confirmed' \subseteq ClimateField
    PROVE  DisplayedOK' /\ dirty' \in BOOLEAN
<1> DEFINE view == Present(pending', confirmed')
<1>1. /\ dirty' = FALSE
      /\ display' = IF Names(view, "display") THEN Only(view, {"display"}) ELSE display
      /\ \/ publishing' = <<view>> /\ climate' = climate
         \/ PublishedClimate(view) /\ publishing' = publishing
  BY DEF Publish
<1>2. DOMAIN view \subseteq ClimateField
  BY ViewFields
<1> HIDE DEF view
<1>3. DOMAIN display' \subseteq {"display"}
  BY <1>1 DEF Only, DisplayedOK
<1>4. DOMAIN climate' \subseteq ClimateField
  BY <1>1, <1>2, PublishedOK DEF DisplayedOK
<1> QED
  BY <1>1, <1>2, <1>3, <1>4 DEF DisplayedOK

LEMMA ReportedFields ==
    ASSUME NEW s, NEW c, DOMAIN c \subseteq ClimateField \ {"preset"}
    PROVE  DOMAIN Applied(c, s) \subseteq ClimateField \ {"preset"}
<1>1. DOMAIN Reported(s) \subseteq {"swing", "display", "mode", "temperature", "fan"}
  BY DEF Reported
<1>2. ASSUME NEW F PROVE DOMAIN Without(c, F) \subseteq DOMAIN c
  BY DEF Without
<1>3. ASSUME NEW p, NEW q PROVE DOMAIN Over(p, q) = DOMAIN p \cup DOMAIN q
  BY DEF Over
<1>4. DOMAIN Applied(c, s) \subseteq DOMAIN Reported(s) \cup DOMAIN c
  BY <1>2, <1>3 DEF Applied
<1> QED
  BY <1>1, <1>4 DEF ClimateField

LEMMA OffsetShown ==
    ASSUME NEW s \in Status, NEW condition, NEW connected, condition \in BOOLEAN
    PROVE  When(condition, NumberShown(s, connected)) \in {<<>>} \cup {<<n>> : n \in Offset}
<1>1. s.compensation \in 0 .. 15
  BY DEF Status
<1>2. s.compensation # UnknownNibble => OffsetOf(s.compensation) \in Offset
  BY <1>1 DEF UnknownNibble, OffsetOf, Offset
<1>3. \/ When(condition, NumberShown(s, connected)) = <<>>
      \/ /\ s.compensation # UnknownNibble
         /\ When(condition, NumberShown(s, connected)) = <<OffsetOf(s.compensation)>>
  BY DEF When, NumberShown
<1> QED
  BY <1>2, <1>3

LEMMA KindStays ==
    ASSUME KindInv, turn' \in {"setup", "out", "in"}, confirmed' = confirmed,
           hasStatus' = hasStatus, operationWarning' \in BOOLEAN, dirty' \in BOOLEAN,
           DisplayedOK', NumberOK'
    PROVE  KindInv'
BY DEF KindInv, KnownOK

LEMMA DisplayStays ==
    ASSUME DisplayedOK, climate' = climate, display' = display, publishing' = publishing
    PROVE  DisplayedOK'
BY DEF DisplayedOK

LEMMA KindStep ==
    ASSUME CoreInv, KindInv, [ComponentNext]_<<vars, component>>
    PROVE  KindInv'
<1> USE DEF KindInv
<1>1. DOMAIN pending' \subseteq ClimateField
  BY CoreStep DEF CoreInv, OverlayInv, Overlay
<1>2. DOMAIN confirmed \subseteq ClimateField
  BY DEF KnownOK
<1>3. CASE Setup \/ Update \/ Elapse \/ UNCHANGED <<vars, component>>
  <2>1. /\ turn' \in {"setup", "out", "in"} /\ confirmed' = confirmed
        /\ hasStatus' = hasStatus /\ operationWarning' = operationWarning
        /\ dirty' = dirty /\ number' = number
        /\ climate' = climate /\ display' = display /\ publishing' = publishing
    BY <1>3 DEF Setup, Update, Elapse, component, heard, warnings, shown, KnownOK
  <2> QED
    BY <2>1, DisplayStays, KindStays DEF KnownOK, NumberOK
<1>4. CASE LoopBegin
  <2>1. /\ turn' = "in" /\ confirmed' = confirmed /\ hasStatus' = hasStatus
        /\ operationWarning' \in BOOLEAN /\ dirty' \in BOOLEAN /\ number' = number
        /\ climate' = climate /\ display' = display /\ publishing' = publishing
    BY <1>4, PresentationAssumption DEF LoopBegin, heard, shown, KnownOK
  <2> QED
    BY <2>1, DisplayStays, KindStays DEF NumberOK
<1>5. CASE Resume
  <2>1. /\ turn' = turn /\ confirmed' = confirmed /\ hasStatus' = hasStatus
        /\ operationWarning' = operationWarning /\ dirty' = dirty /\ number' = number
        /\ display' = display /\ publishing' = <<>> /\ publishing # <<>>
        /\ PublishedClimate(publishing[1])
    BY <1>5 DEF Resume, heard, warnings
  <2>2. PICK view : publishing = <<view>> /\ DOMAIN view \subseteq ClimateField
    BY <2>1 DEF DisplayedOK
  <2>3. publishing[1] = view
    BY <2>2
  <2>4. DOMAIN climate' \subseteq ClimateField
    BY <2>1, <2>2, <2>3, PublishedOK
  <2>5. DisplayedOK'
    BY <2>1, <2>4 DEF DisplayedOK
  <2> QED
    BY <2>1, <2>5, KindStays DEF KnownOK, NumberOK
<1>6. ASSUME NEW before, NEW communication, React(before, communication)
      PROVE  operationWarning' \in BOOLEAN
  <2>1. operationWarning' = (Alarms(Generation) \/ (operationWarning /\ ~Relieves))
    BY <1>6 DEF React
  <2> QED
    BY <2>1
<1>7. CASE LoopEnd
  <2>1. /\ turn' = "out" /\ confirmed' = confirmed /\ hasStatus' = hasStatus
        /\ React(pending, communicationWarning \/ StatusStale)
        /\ IF Dirtied(pending) THEN Publish ELSE UNCHANGED <<dirty, shown>>
        /\ number' = When(DryOffsetEnabled, NumberShown(status, Connected))
    BY <1>7 DEF LoopEnd, heard
  <2>2. DisplayedOK' /\ dirty' \in BOOLEAN
    <3>1. CASE Dirtied(pending)
      BY <1>1, <1>2, <2>1, <3>1, PublishOK
    <3>2. CASE ~Dirtied(pending)
      BY <2>1, <3>2, DisplayStays DEF KnownOK, shown
    <3> QED
      BY <3>1, <3>2
  <2>3. NumberOK'
    <3>1. status \in Status /\ DryOffsetEnabled \in BOOLEAN
      BY UnitAssumption DEF CoreInv, EngineInv, IInv, TypeOK
    <3>2. When(DryOffsetEnabled, NumberShown(status, Connected))
             \in {<<>>} \cup {<<n>> : n \in Offset}
      BY <3>1, OffsetShown
    <3> QED
      BY <2>1, <3>2 DEF NumberOK
  <2>4. operationWarning' \in BOOLEAN
    BY <1>6, <2>1
  <2> QED
    BY <2>1, <2>2, <2>3, <2>4, KindStays
<1>8. ASSUME NEW s \in Statuses, Read(s) PROVE KindInv'
  <2>1. /\ turn' = turn /\ confirmed' = Applied(confirmed, s) /\ hasStatus' = TRUE
        /\ React(pending, FALSE) /\ Publish /\ number' = number
    BY <1>8 DEF Read
  <2>2. DOMAIN confirmed' \subseteq ClimateField \ {"preset"}
    BY <2>1, ReportedFields DEF KnownOK
  <2>3. DisplayedOK' /\ dirty' \in BOOLEAN
    BY <1>1, <2>1, <2>2, PublishOK
  <2>4. operationWarning' \in BOOLEAN
    BY <1>6, <2>1
  <2> QED
    BY <2>1, <2>2, <2>3, <2>4 DEF KnownOK, NumberOK
<1>9. CASE \E r \in Calls \cup Automations : Call(r)
  <2>1. PICK r : Call(r)
    BY <1>9
  <2>2. CASE Dismissed(r) \/ TurnedAway(r)
    <3>1. /\ turn' = turn /\ confirmed' = confirmed /\ hasStatus' = hasStatus
          /\ operationWarning' = TRUE /\ dirty' = dirty /\ number' = number
          /\ climate' = climate /\ display' = display /\ publishing' = publishing
      BY <2>2 DEF Dismissed, TurnedAway, Warned, heard, shown
    <3> QED
      BY <3>1, DisplayStays, KindStays DEF KnownOK, NumberOK
  <2>3. CASE Taken(r)
    <3>1. /\ turn' = turn /\ confirmed' = confirmed /\ hasStatus' = hasStatus
          /\ operationWarning' = operationWarning /\ number' = number
          /\ IF LaysOver(r) /\ Optimistic THEN Publish ELSE UNCHANGED <<dirty, shown>>
      BY <2>3 DEF Taken, heard, warnings
    <3>2. DisplayedOK' /\ dirty' \in BOOLEAN
      <4>1. CASE LaysOver(r) /\ Optimistic
        BY <1>1, <1>2, <3>1, <4>1, PublishOK
      <4>2. CASE ~(LaysOver(r) /\ Optimistic)
        BY <3>1, <4>2, DisplayStays DEF KnownOK, shown
      <4> QED
        BY <4>1, <4>2
    <3> QED
      BY <3>1, <3>2, KindStays DEF KnownOK, NumberOK
  <2> QED
    BY <2>1, <2>2, <2>3 DEF Call
<1> QED
  BY <1>3, <1>4, <1>5, <1>7, <1>8, <1>9 DEF ComponentNext

LEMMA InitKind == ComponentInit => KindInv
BY DEF ComponentInit, KindInv, KnownOK, DisplayedOK, NumberOK, Nothing

\* Every variable of the component always holds a value of its kind.
THEOREM ComponentTypeCorrect == ComponentSpec => []ComponentTypeOK
<1>1. ComponentInit => KindInv
  BY InitKind
<1>2. CoreInv /\ KindInv /\ [ComponentNext]_<<vars, component>> => KindInv'
  BY KindStep
<1>3. CoreInv /\ FeedbackInv /\ KindInv => ComponentTypeOK
  BY KindsAreTypes
<1> QED
  BY <1>1, <1>2, <1>3, CoreInvariance, FeedbackInvariance, PTL DEF ComponentSpec

(***************************************************************************)
(* The engine inside the component.                                        *)
(***************************************************************************)
EngineStep == OutcomeStep /\ ConfirmationStep /\ SwingStep /\ DryStep

LEMMA IdleIsSafe ==
    ASSUME CInv, SInv, EngineIdle
    PROVE  CInv' /\ SInv' /\ EngineStep
<1>1. DOMAIN <<>> = {}
  OBVIOUS
<1>2. finished' = <<>> /\ sent' = <<>> /\ UNCHANGED engine
  BY DEF EngineIdle
<1>3. CInv' /\ SInv'
  BY <1>2 DEF engine, plan, CInv, SInv, Active
<1>4. OutcomeStep
  <2>1. LiveGenerations' = LiveGenerations
    BY <1>2 DEF engine, LiveGenerations, Active
  <2> QED
    BY <1>1, <1>2, <2>1 DEF OutcomeStep
<1>5. ConfirmationStep
  BY <1>2, NothingIsNoSuccess, NoSuccessStep
<1>6. SwingStep /\ DryStep
  BY <1>1, <1>2 DEF SwingStep, DryStep
<1> QED
  BY <1>3, <1>4, <1>5, <1>6 DEF EngineStep

LEMMA EngineStepsSafely ==
    ASSUME CoreInv, CInv, SInv, [ComponentNext]_<<vars, component>>
    PROVE  CInv' /\ SInv' /\ [EngineStep]_vars
<1>1. IInv /\ UInv
  BY DEF CoreInv, EngineInv
<1>2. CASE EngineIdle
  BY <1>2, IdleIsSafe
<1>3. CASE [Next]_vars
  <2>1. CInv' /\ SInv' /\ [OutcomeStep]_vars /\ [ConfirmationStep]_vars
    BY <1>1, <1>3, NextKeepsCInv, NextKeepsSInv, NextReports, NextConfirms
  <2>2. [SwingStep]_vars /\ [DryStep]_vars
    BY <1>1, <1>3, NextSends, SentSwing, SentDry
  <2> QED
    BY <2>1, <2>2 DEF EngineStep
<1>4. EngineIdle \/ [Next]_vars
  BY ActionIsEngineStep DEF CoreInv
<1> QED
  BY <1>2, <1>3, <1>4

LEMMA ServesInComponent ==
    ASSUME CoreInv, [ComponentNext]_<<vars, component>>
    PROVE  [Service!ServiceNext]_(Service!serviceVars)
<1>1. IInv
  BY DEF CoreInv, EngineInv
<1>2. CASE EngineIdle
  <2>1. queue' = queue /\ current' = current /\ finished' = <<>>
    BY <1>2 DEF EngineIdle, engine
  <2>2. Mapped(queue)' = Mapped(queue) /\ Serving' = Serving
    BY <2>1 DEF Serving, Active
  <2>3. queue \in Seq(Operation) /\ Lapsing(0, queue, <<>>)
    BY <1>1, CallLapses DEF IInv, TypeOK, OperationsOK
  <2> QED
    BY <2>1, <2>2, <2>3, KeepMaps
<1>3. CASE [Next]_vars
  BY <1>1, <1>3, NextServes
<1> QED
  BY <1>2, <1>3, ActionIsEngineStep DEF CoreInv

EngineSafe == TypeOK /\ SettersSentOnce /\ RecoveryIsReadOnly /\ BoundedLifetime /\ AcceptanceOrder

(***************************************************************************)
(* What the engine promises when any intent may be offered it at any time  *)
(* it keeps inside the component, whose calls also come out of             *)
(* publications and with targets from its memory: its invariants, one      *)
(* outcome for each operation, a confirmation only by a status that shows  *)
(* it, the safety of the axes and of Dry, and the service it implements.   *)
(***************************************************************************)
THEOREM EngineInComponent ==
    ComponentSpec => /\ []EngineSafe
                     /\ OneOutcome /\ ConfirmedMeansShown
                     /\ SwingSafety /\ DrySafety /\ ImplementsService
<1>1. ComponentInit => CInv /\ SInv
  BY DEF ComponentInit, Init, CInv, SInv, Active
<1>2. CoreInv /\ CInv /\ SInv /\ [ComponentNext]_<<vars, component>>
        => CInv' /\ SInv' /\ [EngineStep]_vars
  BY EngineStepsSafely
<1>3. CoreInv => EngineSafe
  BY DEF CoreInv, EngineInv, IInv, LInv, EngineSafe
<1>4. [EngineStep]_vars =>
          /\ [OutcomeStep]_vars /\ [ConfirmationStep]_vars
          /\ [SwingStep]_vars /\ [DryStep]_vars
  BY DEF EngineStep
<1>5. ComponentSpec => /\ []EngineSafe
                       /\ [][OutcomeStep]_vars /\ [][ConfirmationStep]_vars
                       /\ [][SwingStep]_vars /\ [][DryStep]_vars
  BY <1>1, <1>2, <1>3, <1>4, CoreInvariance, PTL DEF ComponentSpec
<1>6. ComponentSpec => OneOutcome
  BY <1>5, PTL DEF OneOutcome, OutcomeStep
<1>7. ComponentSpec => ConfirmedMeansShown
  BY <1>5 DEF ConfirmedMeansShown, ConfirmationStep
<1>8. ComponentSpec => SwingSafety
  BY <1>5 DEF SwingSafety, SwingStep
<1>9. ComponentSpec => DrySafety
  BY <1>5 DEF DrySafety, DryStep
<1>10. ComponentSpec => ImplementsService
  <2>1. ComponentInit => Service!ServiceInit
    BY InitServes DEF ComponentInit
  <2>2. CoreInv /\ [ComponentNext]_<<vars, component>>
          => [Service!ServiceNext]_(Service!serviceVars)
    BY ServesInComponent
  <2> QED
    BY <2>1, <2>2, CoreInvariance, PTL
    DEF ComponentSpec, ImplementsService, Service!ServiceSpec
<1> QED
  BY <1>5, <1>6, <1>7, <1>8, <1>9, <1>10
=============================================================================
