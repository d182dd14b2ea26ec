--------------------------- MODULE Picking_proofs ---------------------------
(***************************************************************************)
(* Proofs about the ranges of picking ids.                                 *)
(*                                                                         *)
(* The list of actions and the list of unused ones are changed in few      *)
(* ways: an action is updated in place, added at the end, or the last one  *)
(* is removed; a start is removed from the unused ones, or put among them. *)
(* There is one lemma for each; the steps of the calls then follow from    *)
(* what they do to the sets of starts.                                     *)
(***************************************************************************)
EXTENDS PickingMouse, SequenceFacts

\* The ranges of the list a follow one another, from 1 up to n.
LaidOut(a, n) ==
  /\ a \in Seq(Action) /\ n \in Nat
  /\ \A k \in 1 .. Len(a) :
       /\ a[k].size <= a[k].capacity /\ 0 < a[k].capacity /\ 1 <= a[k].start
       /\ a[k].start = IF k = 1 THEN 1 ELSE a[k - 1].start + a[k - 1].capacity
       /\ a[k].start + a[k].capacity <= n
  /\ \A j, k \in 1 .. Len(a) : j < k => a[j].start + a[j].capacity <= a[k].start
  /\ n = IF a = <<>> THEN 1 ELSE a[Len(a)].start + a[Len(a)].capacity

StartsOf(a) == {a[k].start : k \in DOMAIN a}
ArmedOf(a) == {a[k].start : k \in {j \in DOMAIN a : a[j].armed}}
CapacityOf(a, s) == a[CHOOSE k \in {j \in DOMAIN a : a[j].start = s} : TRUE].capacity

Elements(u) == {u[i] : i \in 1 .. Len(u)}

\* The list u of starts has each of them once, in the order of the capacities.
Ordered(u, a) ==
  \A i, j \in 1 .. Len(u) : i < j => u[i] # u[j] /\ CapacityOf(a, u[i]) <= CapacityOf(a, u[j])

-----------------------------------------------------------------------------

\* The indexes of a list, and the fields of its actions.
LEMMA ActionTypes ==
  ASSUME NEW a \in Seq(Action)
  PROVE  /\ Len(a) \in Nat /\ DOMAIN a = 1 .. Len(a)
         /\ \A k \in 1 .. Len(a) :
              /\ a[k] \in Action /\ a[k].start \in Nat /\ a[k].size \in Nat
              /\ a[k].capacity \in Nat /\ a[k].armed \in BOOLEAN
<1>1. Len(a) \in Nat /\ DOMAIN a = 1 .. Len(a)
  BY LenProperties
<1>2. \A k \in 1 .. Len(a) : a[k] \in Action
  BY ElementOfSeq
<1> QED BY <1>1, <1>2 DEF Action

\* Two actions do not have one start, so that a start has one capacity.
LEMMA OneStart ==
  ASSUME NEW a, NEW n, LaidOut(a, n), NEW j \in 1 .. Len(a), NEW k \in 1 .. Len(a),
         a[j].start = a[k].start
  PROVE  j = k
<1>1. a \in Seq(Action)
  BY DEF LaidOut
<1>2. ASSUME NEW i \in 1 .. Len(a), NEW l \in 1 .. Len(a), i < l PROVE a[i].start # a[l].start
  <2>1. a[i].start \in Nat /\ a[l].start \in Nat /\ a[i].capacity \in Nat
    BY <1>1, ActionTypes
  <2>2. 0 < a[i].capacity /\ a[i].start + a[i].capacity <= a[l].start
    BY <1>2 DEF LaidOut
  <2> QED BY <2>1, <2>2
<1>3. j \in Nat /\ k \in Nat
  BY <1>1, ActionTypes
<1>4. ~(j < k) /\ ~(k < j)
  BY <1>2
<1> QED BY <1>3, <1>4

LEMMA CapacityIs ==
  ASSUME NEW a, NEW n, LaidOut(a, n), NEW k \in 1 .. Len(a)
  PROVE  CapacityOf(a, a[k].start) = a[k].capacity
<1>1. DOMAIN a = 1 .. Len(a)
  BY ActionTypes DEF LaidOut
<1>2. {j \in DOMAIN a : a[j].start = a[k].start} = {k}
  BY <1>1, OneStart
<1> QED BY <1>2 DEF CapacityOf

LEMMA CapacityType ==
  ASSUME NEW a, NEW n, LaidOut(a, n), NEW s \in StartsOf(a)
  PROVE  CapacityOf(a, s) \in Nat
<1>1. PICK k \in 1 .. Len(a) : s = a[k].start
  BY ActionTypes DEF LaidOut, StartsOf
<1> QED BY <1>1, CapacityIs, ActionTypes DEF LaidOut

LEMMA ArmedIs ==
  ASSUME NEW a, NEW n, LaidOut(a, n), NEW k \in 1 .. Len(a)
  PROVE  a[k].start \in ArmedOf(a) <=> a[k].armed
<1>1. DOMAIN a = 1 .. Len(a)
  BY ActionTypes DEF LaidOut
<1>2. ASSUME NEW j \in DOMAIN a, a[j].armed, a[k].start = a[j].start PROVE a[k].armed
  BY <1>1, <1>2, OneStart
<1> QED BY <1>1, <1>2 DEF ArmedOf

-----------------------------------------------------------------------------

\* The actions of b are those of a, with other sizes.
Alike(a, b) ==
  /\ b \in Seq(Action) /\ Len(b) = Len(a)
  /\ \A k \in 1 .. Len(a) : /\ b[k].start = a[k].start /\ b[k].capacity = a[k].capacity
                            /\ b[k].size <= b[k].capacity

\* The action that starts at s is armed or not as x says, the others as they were.
Arms(a, b, s, x) ==
  \A k \in 1 .. Len(a) : b[k].armed = IF a[k].start = s THEN x ELSE a[k].armed

\* Actions are changed in place: they keep their start and capacity.
LEMMA Updated ==
  ASSUME NEW a, NEW n, LaidOut(a, n), NEW b, Alike(a, b)
  PROVE  /\ LaidOut(b, n) /\ StartsOf(b) = StartsOf(a)
         /\ \A s \in StartsOf(a) : CapacityOf(b, s) = CapacityOf(a, s)
         /\ (a = <<>> <=> b = <<>>) /\ (a # <<>> => Last(b).start = Last(a).start)
<1>1. /\ a \in Seq(Action) /\ Len(a) \in Nat /\ DOMAIN a = 1 .. Len(a) /\ DOMAIN b = 1 .. Len(a)
      /\ (a = <<>> <=> Len(a) = 0) /\ (b = <<>> <=> Len(a) = 0)
  BY ActionTypes, EmptySeq DEF LaidOut, Alike
<1>2. LaidOut(b, n)
  <2>1. ASSUME NEW k \in 1 .. Len(a)
        PROVE  /\ b[k].size <= b[k].capacity /\ 0 < b[k].capacity /\ 1 <= b[k].start
               /\ b[k].start = IF k = 1 THEN 1 ELSE b[k - 1].start + b[k - 1].capacity
               /\ b[k].start + b[k].capacity <= n
    <3>1. k # 1 => k - 1 \in 1 .. Len(a)
      BY <1>1
    <3> QED BY <3>1 DEF LaidOut, Alike
  <2>2. \A j, k \in 1 .. Len(a) : j < k => b[j].start + b[j].capacity <= b[k].start
    BY DEF LaidOut, Alike
  <2>3. n \in Nat /\ n = IF b = <<>> THEN 1 ELSE b[Len(b)].start + b[Len(b)].capacity
    BY <1>1 DEF LaidOut, Alike
  <2> QED BY <2>1, <2>2, <2>3 DEF LaidOut, Alike
<1>3. StartsOf(b) = StartsOf(a)
  BY <1>1 DEF StartsOf, Alike
<1>4. ASSUME NEW s \in StartsOf(a) PROVE CapacityOf(b, s) = CapacityOf(a, s)
  <2>1. PICK k \in 1 .. Len(a) : s = a[k].start
    BY <1>1 DEF StartsOf
  <2> QED BY <1>2, <2>1, CapacityIs DEF Alike
<1>5. a # <<>> => Last(b).start = Last(a).start
  <2>1. a # <<>> => Len(a) \in 1 .. Len(a)
    BY <1>1
  <2> QED BY <2>1 DEF Last, Alike
<1> QED BY <1>1, <1>2, <1>3, <1>4, <1>5

\* The action with one start is armed or disarmed.
LEMMA Rearmed ==
  ASSUME NEW a, NEW n, LaidOut(a, n), NEW b, Alike(a, b),
         NEW s \in StartsOf(a), NEW x \in BOOLEAN, Arms(a, b, s, x)
  PROVE  ArmedOf(b) = IF x THEN ArmedOf(a) \cup {s} ELSE ArmedOf(a) \ {s}
<1>1. DOMAIN a = 1 .. Len(a) /\ DOMAIN b = 1 .. Len(a)
  BY ActionTypes DEF LaidOut, Alike
<1> QED BY <1>1 DEF ArmedOf, StartsOf, Alike, Arms

\* An action is added at the end.
LEMMA Extended ==
  ASSUME NEW a, NEW n, LaidOut(a, n), NEW c \in Action,
         c.start = n, c.capacity > 0, c.size <= c.capacity
  PROVE  /\ LaidOut(Append(a, c), n + c.capacity)
         /\ StartsOf(Append(a, c)) = StartsOf(a) \cup {n} /\ n \notin StartsOf(a)
         /\ \A s \in StartsOf(a) : CapacityOf(Append(a, c), s) = CapacityOf(a, s)
         /\ ArmedOf(Append(a, c)) = ArmedOf(a) \cup (IF c.armed THEN {n} ELSE {})
<1> DEFINE b == Append(a, c)
<1>1. /\ a \in Seq(Action) /\ Len(a) \in Nat /\ DOMAIN a = 1 .. Len(a)
      /\ (a = <<>> <=> Len(a) = 0)
  BY ActionTypes, EmptySeq DEF LaidOut
<1>2. /\ b \in Seq(Action) /\ Len(b) = Len(a) + 1 /\ b[Len(a) + 1] = c
      /\ \A k \in 1 .. Len(a) : b[k] = a[k]
  BY <1>1, AppendProperties
<1> HIDE DEF b
<1>3. /\ DOMAIN b = 1 .. Len(a) + 1 /\ b # <<>>
      /\ c.start \in Nat /\ c.capacity \in Nat /\ n \in Nat
  BY <1>1, <1>2, ActionTypes, EmptySeq DEF Action, LaidOut
<1>4. \A k \in 1 .. Len(a) : a[k].start \in Nat /\ a[k].capacity \in Nat
  BY <1>1, ActionTypes
<1>5. LaidOut(b, n + c.capacity)
  <2>1. ASSUME NEW k \in 1 .. Len(b)
        PROVE  /\ b[k].size <= b[k].capacity /\ 0 < b[k].capacity /\ 1 <= b[k].start
               /\ b[k].start = IF k = 1 THEN 1 ELSE b[k - 1].start + b[k - 1].capacity
               /\ b[k].start + b[k].capacity <= n + c.capacity
    <3>1. CASE k = Len(a) + 1
      <4>1. k = 1 <=> a = <<>>
        BY <1>1, <3>1
      <4>2. k # 1 => k - 1 = Len(a) /\ Len(a) \in 1 .. Len(a)
        BY <1>1, <3>1
      <4>3. n = IF k = 1 THEN 1 ELSE b[k - 1].start + b[k - 1].capacity
        BY <1>2, <4>1, <4>2 DEF LaidOut
      <4>4. 1 <= n
        <5>1. CASE k = 1
          BY <4>3, <5>1
        <5>2. CASE k # 1
          BY <1>2, <1>4, <4>2, <4>3, <5>2 DEF LaidOut
        <5> QED BY <5>1, <5>2
      <4> QED BY <1>2, <1>3, <3>1, <4>3, <4>4
    <3>2. CASE k # Len(a) + 1
      <4>1. k \in 1 .. Len(a) /\ (k # 1 => k - 1 \in 1 .. Len(a))
        BY <1>1, <1>2, <3>2
      <4>2. a[k].start + a[k].capacity <= n
        BY <4>1 DEF LaidOut
      <4>3. b[k].start + b[k].capacity <= n + c.capacity
        BY <1>2, <1>3, <1>4, <4>1, <4>2
      <4> QED BY <1>2, <4>1, <4>3 DEF LaidOut
    <3> QED BY <3>1, <3>2
  <2>2. ASSUME NEW j \in 1 .. Len(b), NEW k \in 1 .. Len(b), j < k
        PROVE  b[j].start + b[j].capacity <= b[k].start
    <3>1. j \in 1 .. Len(a)
      BY <1>1, <1>2, <2>2
    <3>2. CASE k = Len(a) + 1
      BY <1>2, <3>1, <3>2 DEF LaidOut
    <3>3. CASE k # Len(a) + 1
      <4>1. k \in 1 .. Len(a)
        BY <1>1, <1>2, <3>3
      <4> QED BY <1>2, <2>2, <3>1, <4>1 DEF LaidOut
    <3> QED BY <3>2, <3>3
  <2>3. n + c.capacity = b[Len(b)].start + b[Len(b)].capacity
    BY <1>2
  <2> QED BY <1>2, <1>3, <2>1, <2>2, <2>3 DEF LaidOut
<1>6. ASSUME NEW k \in 1 .. Len(a) PROVE a[k].start # n
  <2>1. 0 < a[k].capacity /\ a[k].start + a[k].capacity <= n
    BY DEF LaidOut
  <2> QED BY <1>4, <2>1
<1>7. 1 .. Len(a) + 1 = 1 .. Len(a) \cup {Len(a) + 1}
  BY <1>1
<1>8. StartsOf(b) = StartsOf(a) \cup {n} /\ n \notin StartsOf(a)
  BY <1>1, <1>2, <1>3, <1>6, <1>7 DEF StartsOf
<1>9. ArmedOf(b) = ArmedOf(a) \cup (IF c.armed THEN {n} ELSE {})
  BY <1>1, <1>2, <1>3, <1>7 DEF ArmedOf
<1>10. ASSUME NEW s \in StartsOf(a) PROVE CapacityOf(b, s) = CapacityOf(a, s)
  <2>1. PICK k \in 1 .. Len(a) : s = a[k].start
    BY <1>1 DEF StartsOf
  <2>2. k \in 1 .. Len(b)
    BY <1>1, <1>2
  <2> QED BY <1>2, <1>5, <2>1, <2>2, CapacityIs
<1> QED BY <1>5, <1>8, <1>9, <1>10 DEF b

\* The last action is removed.
LEMMA Popped ==
  ASSUME NEW a, NEW n, LaidOut(a, n), a # <<>>
  PROVE  /\ LaidOut(Front(a), n - Last(a).capacity)
         /\ StartsOf(Front(a)) = StartsOf(a) \ {Last(a).start} /\ Last(a).start \in StartsOf(a)
         /\ \A s \in StartsOf(Front(a)) : CapacityOf(Front(a), s) = CapacityOf(a, s)
         /\ ArmedOf(Front(a)) = ArmedOf(a) \ {Last(a).start}
<1> DEFINE b == Front(a)
           l == Len(a)
<1>1. /\ a \in Seq(Action) /\ l \in Nat \ {0} /\ DOMAIN a = 1 .. l
      /\ b \in Seq(Action) /\ Len(b) = l - 1 /\ \A k \in 1 .. l - 1 : b[k] = a[k]
  BY ActionTypes, FrontProperties DEF LaidOut
<1>2. Last(a) = a[l]
  BY DEF Last
<1> HIDE DEF b
<1>3. DOMAIN b = 1 .. l - 1
  BY <1>1, ActionTypes
<1>4. /\ \A k \in 1 .. l : a[k].start \in Nat /\ a[k].capacity \in Nat
      /\ l \in 1 .. l /\ 1 .. l - 1 \subseteq 1 .. l
      /\ 1 .. l = 1 .. l - 1 \cup {l}
  <2> HIDE DEF l
  <2> QED BY <1>1, ActionTypes DEF l
<1>5. n - a[l].capacity = a[l].start
  <2>1. n = a[l].start + a[l].capacity
    BY DEF LaidOut
  <2> QED BY <1>4, <2>1
<1>6. LaidOut(b, a[l].start)
  <2>1. ASSUME NEW k \in 1 .. Len(b)
        PROVE  /\ b[k].size <= b[k].capacity /\ 0 < b[k].capacity /\ 1 <= b[k].start
               /\ b[k].start = IF k = 1 THEN 1 ELSE b[k - 1].start + b[k - 1].capacity
               /\ b[k].start + b[k].capacity <= a[l].start
    <3>1. k \in 1 .. l - 1 /\ k < l /\ k \in 1 .. l /\ (k # 1 => k - 1 \in 1 .. l - 1)
      <4> HIDE DEF l
      <4> QED BY <1>1
    <3> QED BY <1>1, <1>4, <3>1 DEF LaidOut
  <2>2. ASSUME NEW j \in 1 .. Len(b), NEW k \in 1 .. Len(b), j < k
        PROVE  b[j].start + b[j].capacity <= b[k].start
    BY <1>1, <1>4, <2>2 DEF LaidOut
  <2>3. a[l].start = IF b = <<>> THEN 1 ELSE b[Len(b)].start + b[Len(b)].capacity
    <3>1. b = <<>> <=> l = 1
      <4> HIDE DEF l
      <4> QED BY <1>1, EmptySeq
    <3>2. l # 1 => l - 1 \in 1 .. l - 1
      <4> HIDE DEF l
      <4> QED BY <1>1
    <3>3. a[l].start = IF l = 1 THEN 1 ELSE a[l - 1].start + a[l - 1].capacity
      BY <1>4 DEF LaidOut
    <3> QED BY <1>1, <3>1, <3>2, <3>3
  <2> QED BY <1>1, <1>4, <2>1, <2>2, <2>3 DEF LaidOut
<1>7. ASSUME NEW k \in 1 .. l - 1 PROVE a[k].start # a[l].start
  <2>1. k \in 1 .. l /\ k # l
    <3> HIDE DEF l
    <3> QED BY <1>1
  <2> QED BY <1>4, <2>1, OneStart
<1>8. StartsOf(b) = StartsOf(a) \ {a[l].start} /\ a[l].start \in StartsOf(a)
  <2> HIDE DEF l
  <2> QED BY <1>1, <1>3, <1>4, <1>7 DEF StartsOf
<1>9. ArmedOf(b) = ArmedOf(a) \ {a[l].start}
  <2> HIDE DEF l
  <2> QED BY <1>1, <1>3, <1>4, <1>7 DEF ArmedOf
<1>10. ASSUME NEW s \in StartsOf(b) PROVE CapacityOf(b, s) = CapacityOf(a, s)
  <2>1. PICK k \in 1 .. Len(b) : s = b[k].start
    BY <1>1, <1>3 DEF StartsOf
  <2>2. k \in 1 .. l /\ b[k] = a[k]
    BY <1>1, <1>4, <2>1
  <2>3. CapacityOf(b, s) = b[k].capacity
    BY <1>6, <2>1, CapacityIs
  <2>4. CapacityOf(a, s) = a[k].capacity
    BY <2>1, <2>2, CapacityIs
  <2> QED BY <2>2, <2>3, <2>4
<1> QED BY <1>2, <1>5, <1>6, <1>8, <1>9, <1>10 DEF b

-----------------------------------------------------------------------------

\* A start is removed from the list of the unused ones.
LEMMA Dropped ==
  ASSUME NEW a, NEW u \in Seq(Nat), Ordered(u, a), NEW i \in 1 .. Len(u)
  PROVE  /\ RemoveAt(u, i) \in Seq(Nat) /\ Ordered(RemoveAt(u, i), a)
         /\ Elements(RemoveAt(u, i)) = Elements(u) \ {u[i]}
<1> DEFINE v == RemoveAt(u, i)
<1>1. /\ Len(u) \in Nat /\ DOMAIN u = 1 .. Len(u)
      /\ v \in Seq(Nat) /\ DOMAIN v = 1 .. Len(v)
  BY RemoveAtProperties, LenProperties
<1>2. /\ \A j, k \in DOMAIN v : j < k =>
           \E a1, b1 \in DOMAIN u : a1 < b1 /\ v[j] = u[a1] /\ v[k] = u[b1]
      /\ \A j \in DOMAIN v : \E k \in DOMAIN u : k # i /\ v[j] = u[k]
      /\ \A k \in DOMAIN u : k # i => \E j \in DOMAIN v : u[k] = v[j]
  BY RemoveAtElements
<1> HIDE DEF v
<1>3. ASSUME NEW j \in 1 .. Len(v), NEW k \in 1 .. Len(v), j < k
      PROVE  v[j] # v[k] /\ CapacityOf(a, v[j]) <= CapacityOf(a, v[k])
  <2>1. j \in DOMAIN v /\ k \in DOMAIN v
    BY <1>1
  <2>2. PICK b \in DOMAIN u, c \in DOMAIN u : b < c /\ v[j] = u[b] /\ v[k] = u[c]
    BY <1>2, <1>3, <2>1
  <2> QED BY <1>1, <2>2 DEF Ordered
<1>4. \A k \in 1 .. Len(u) : k # i => u[k] # u[i]
  <2>1. \A k \in 1 .. Len(u) : k # i => k < i \/ i < k
    BY <1>1
  <2> QED BY <2>1 DEF Ordered
<1>5. Elements(v) = Elements(u) \ {u[i]}
  <2>1. ASSUME NEW j \in 1 .. Len(v) PROVE v[j] \in Elements(u) \ {u[i]}
    <3>1. j \in DOMAIN v
      BY <1>1
    <3>2. PICK k \in DOMAIN u : k # i /\ v[j] = u[k]
      BY <1>2, <3>1
    <3> QED BY <1>1, <1>4, <3>2 DEF Elements
  <2>2. ASSUME NEW k \in 1 .. Len(u), u[k] # u[i] PROVE u[k] \in Elements(v)
    BY <1>1, <1>2, <2>2 DEF Elements
  <2> QED BY <2>1, <2>2 DEF Elements
<1> QED BY <1>1, <1>3, <1>5 DEF v, Ordered

\* A start is put among the unused ones, after those of its capacity or less.
LEMMA Inserted ==
  ASSUME NEW a, NEW u \in Seq(Nat), Ordered(u, a), NEW s \in Nat, s \notin Elements(u),
         CapacityOf(a, s) \in Nat, \A j \in 1 .. Len(u) : CapacityOf(a, u[j]) \in Nat,
         NEW i \in 1 .. Len(u) + 1,
         \A j \in 1 .. Len(u) : j < i <=> CapacityOf(a, u[j]) <= CapacityOf(a, s)
  PROVE  /\ InsertAt(u, i, s) \in Seq(Nat) /\ Ordered(InsertAt(u, i, s), a)
         /\ Elements(InsertAt(u, i, s)) = Elements(u) \cup {s}
<1> DEFINE v == InsertAt(u, i, s)
<1>1. Len(u) \in Nat
  BY LenProperties
<1>2. /\ v \in Seq(Nat) /\ Len(v) = Len(u) + 1
      /\ \A j \in 1 .. Len(u) + 1 : v[j] = IF j < i THEN u[j] ELSE IF j = i THEN s ELSE u[j - 1]
  <2> DEFINE S == Nat
  <2>1. u \in Seq(S) /\ s \in S
    OBVIOUS
  <2> HIDE DEF S
  <2>2. /\ InsertAt(u, i, s) \in Seq(S) /\ Len(InsertAt(u, i, s)) = Len(u) + 1
        /\ \A j \in 1 .. Len(u) + 1 :
             InsertAt(u, i, s)[j] = IF j < i THEN u[j] ELSE IF j = i THEN s ELSE u[j - 1]
    BY <2>1, InsertAtProperties
  <2> QED BY <2>2 DEF S
<1> HIDE DEF v
<1>3. \A j \in 1 .. Len(u) + 1 : j < i => j \in 1 .. Len(u) /\ v[j] = u[j]
  BY <1>1, <1>2
<1>4. \A j \in 1 .. Len(u) + 1 :
        ~(j < i) /\ j # i => j - 1 \in 1 .. Len(u) /\ v[j] = u[j - 1] /\ ~(j - 1 < i)
  BY <1>1, <1>2
<1>5. v[i] = s
  BY <1>1, <1>2
<1>6. ASSUME NEW j \in 1 .. Len(v), NEW k \in 1 .. Len(v), j < k
      PROVE  v[j] # v[k] /\ CapacityOf(a, v[j]) <= CapacityOf(a, v[k])
  <2>1. CASE k < i
    <3>1. j < i
      BY <1>1, <1>2, <1>6, <2>1
    <3> QED BY <1>2, <1>3, <1>6, <2>1, <3>1 DEF Ordered
  <2>2. CASE k = i
    <3>1. j < i
      BY <1>6, <2>2
    <3> QED BY <1>2, <1>3, <1>5, <2>2, <3>1 DEF Elements
  <2>3. CASE ~(k < i) /\ k # i
    <3>1. k - 1 \in 1 .. Len(u) /\ v[k] = u[k - 1] /\ ~(CapacityOf(a, u[k - 1]) <= CapacityOf(a, s))
      BY <1>2, <1>4, <2>3
    <3>2. CASE j < i
      <4>1. j < k - 1
        BY <1>1, <1>2, <2>3, <3>2
      <4> QED BY <1>2, <1>3, <3>1, <3>2, <4>1 DEF Ordered
    <3>3. CASE j = i
      <4>1. u[k - 1] # s
        BY <3>1 DEF Elements
      <4> QED BY <1>5, <3>1, <3>3, <4>1
    <3>4. CASE ~(j < i) /\ j # i
      <4>1. j - 1 < k - 1
        BY <1>1, <1>2, <1>6
      <4>2. j - 1 \in 1 .. Len(u) /\ v[j] = u[j - 1]
        BY <1>2, <1>4, <3>4
      <4> QED BY <3>1, <4>1, <4>2 DEF Ordered
    <3> QED BY <3>2, <3>3, <3>4
  <2> QED BY <2>1, <2>2, <2>3
<1>7. Elements(v) = Elements(u) \cup {s}
  <2>1. ASSUME NEW j \in 1 .. Len(v) PROVE v[j] \in Elements(u) \cup {s}
    BY <1>2, <1>3, <1>4, <1>5 DEF Elements
  <2>2. ASSUME NEW k \in 1 .. Len(u) PROVE u[k] \in Elements(v)
    <3>1. CASE k < i
      <4>1. k \in 1 .. Len(u) + 1
        BY <1>1
      <4> QED BY <1>2, <1>3, <3>1, <4>1 DEF Elements
    <3>2. CASE ~(k < i)
      <4>1. k + 1 \in 1 .. Len(u) + 1 /\ ~(k + 1 < i) /\ k + 1 # i /\ (k + 1) - 1 = k
        BY <1>1, <3>2
      <4>2. v[k + 1] = u[k]
        BY <1>4, <4>1
      <4> QED BY <1>2, <4>1, <4>2 DEF Elements
    <3> QED BY <3>1, <3>2
  <2>3. s \in Elements(v)
    BY <1>2, <1>5 DEF Elements
  <2> QED BY <2>1, <2>2, <2>3 DEF Elements
<1> QED BY <1>2, <1>6, <1>7 DEF v, Ordered

\* An order does not change with the list of actions, while the capacities do not.
LEMMA SameOrder ==
  ASSUME NEW a, NEW b, NEW u, Ordered(u, a),
         \A s \in Elements(u) : CapacityOf(b, s) = CapacityOf(a, s)
  PROVE  Ordered(u, b)
<1>1. \A i \in 1 .. Len(u) : CapacityOf(b, u[i]) = CapacityOf(a, u[i])
  BY DEF Elements
<1> QED BY <1>1 DEF Ordered

-----------------------------------------------------------------------------

Calls == [op : {"nothing", "register", "enable", "destroy"}, mapper : Mapper \cup {NoMapper},
          size : Nat, enabled : BOOLEAN]

\* The temporary of a move assignment owns nothing any more.
Users == IF after.op = "destroy" THEN alive \ {after.mapper} ELSE alive
Holds(s) == \E m \in Users : held[m] = s

Typed ==
  /\ lastIndex <= MaxIndex /\ held \in [Mapper -> Nat] /\ alive \subseteq Mapper
  /\ trimming \in BOOLEAN /\ after \in Calls
  /\ after.op # "nothing" => after.mapper \in alive
  /\ after.op = "register" => /\ 0 < after.size /\ lastIndex + after.size <= MaxIndex
                              /\ held[after.mapper] = 0

\* The ranges, and which of them are unused.
Ranges ==
  /\ LaidOut(actions, lastIndex) /\ unused \in Seq(Nat) /\ Ordered(unused, actions)
  /\ Elements(unused) \subseteq StartsOf(actions)
  /\ ArmedOf(actions) = StartsOf(actions) \ Elements(unused)
  /\ ~ trimming /\ actions # <<>> => Last(actions).start \notin Elements(unused)

\* A range is unused or held.
Owned ==
  /\ \A s \in StartsOf(actions) : s \in Elements(unused) <=> ~ Holds(s)
  /\ \A m \in Users : held[m] = 0 \/ held[m] \in StartsOf(actions)

\* No two mappers hold the same range, and a temporary has nothing to give back.
Apart ==
  /\ \A m \in Mapper \ alive : held[m] = 0
  /\ \A m, n \in Users : held[m] = held[n] => held[m] = 0 \/ m = n
  /\ after.op = "destroy" =>
       held[after.mapper] \notin StartsOf(actions) \/ held[after.mapper] \in Elements(unused)

IInv == Typed /\ Ranges /\ Owned /\ Apart

-----------------------------------------------------------------------------

\* The terms of Picking in those of the lemmas.
LEMMA Terms ==
  /\ \A s : Capacity(s) = CapacityOf(actions, s)
  /\ \A s : Contains(unused, s) <=> s \in Elements(unused)
  /\ Starts = StartsOf(actions)
<1>1. \A s : Capacity(s) = CapacityOf(actions, s)
  BY DEF Capacity, At, CapacityOf
<1>2. \A s : Contains(unused, s) <=> s \in Elements(unused)
  BY DEF Contains, Elements
<1>3. Starts = StartsOf(actions)
  BY DEF Starts, StartsOf
<1> QED BY <1>1, <1>2, <1>3

\* A start is positive, so that a mapper which holds 0 holds no range.
LEMMA StartsArePositive ==
  ASSUME NEW a, NEW n, LaidOut(a, n)
  PROVE  StartsOf(a) \subseteq Nat \ {0}
<1>1. ASSUME NEW k \in 1 .. Len(a) PROVE a[k].start \in Nat \ {0}
  <2>1. a[k].start \in Nat /\ 1 <= a[k].start
    BY ActionTypes DEF LaidOut
  <2> QED BY <2>1
<1> QED BY <1>1, ActionTypes DEF LaidOut, StartsOf

\* An unused action is used again for the mapper m.
LEMMA ReuseKeeps ==
  ASSUME Ranges, Owned, ~ trimming, trimming' = trimming, held \in [Mapper -> Nat],
         NEW m \in Mapper, held[m] = 0, NEW size \in Nat, NEW k \in Fits(size), Reuse(m, size, k),
         Users \subseteq Mapper, Users' = Users \cup {m}
  PROVE  Ranges' /\ Owned' /\ ~ Holds(held'[m])
<1> DEFINE s == unused[k]
<1>1. /\ actions \in Seq(Action) /\ Len(actions) \in Nat /\ DOMAIN actions = 1 .. Len(actions)
      /\ \A j \in 1 .. Len(actions) :
           /\ actions[j] \in Action /\ actions[j].start \in Nat /\ actions[j].size \in Nat
           /\ actions[j].capacity \in Nat /\ actions[j].armed \in BOOLEAN
  BY ActionTypes DEF Ranges, LaidOut
<1>2. DOMAIN unused = 1 .. Len(unused) /\ k \in 1 .. Len(unused)
  BY LenProperties DEF Ranges, Fits
<1>3. s \in Elements(unused) /\ s \in StartsOf(actions) /\ s \in Nat \ {0}
  <2>1. s \in Elements(unused)
    BY <1>2 DEF Elements
  <2>2. StartsOf(actions) \subseteq Nat \ {0}
    BY StartsArePositive DEF Ranges
  <2> QED BY <2>1, <2>2 DEF Ranges
<1>4. size <= CapacityOf(actions, s)
  <2>1. Capacity(s) >= size
    BY DEF Fits
  <2>2. Capacity(s) = CapacityOf(actions, s) /\ CapacityOf(actions, s) \in Nat
    BY <1>3, Terms, CapacityType DEF Ranges
  <2> QED BY <2>1, <2>2
<1> HIDE DEF s
<1>5. Alike(actions, actions') /\ Arms(actions, actions', s, TRUE)
  <2> DEFINE f(j) == IF actions[j].start = s
                     THEN [actions[j] EXCEPT !.size = size, !.armed = TRUE] ELSE actions[j]
  <2>1. actions' = [j \in 1 .. Len(actions) |-> f(j)]
    BY <1>1 DEF Reuse, s
  <2>2. ASSUME NEW j \in 1 .. Len(actions)
        PROVE  /\ f(j) \in Action /\ f(j).start = actions[j].start
               /\ f(j).capacity = actions[j].capacity /\ f(j).size <= f(j).capacity
               /\ f(j).armed = IF actions[j].start = s THEN TRUE ELSE actions[j].armed
    <3>1. actions[j].size <= actions[j].capacity
      BY DEF Ranges, LaidOut
    <3>2. actions[j].start = s => size <= actions[j].capacity
      BY <1>4, CapacityIs DEF Ranges
    <3> QED BY <1>1, <3>1, <3>2 DEF Action
  <2> HIDE DEF f
  <2>3. actions' \in [1 .. Len(actions) -> Action]
    BY <2>1, <2>2
  <2>4. actions' \in Seq(Action) /\ Len(actions') = Len(actions)
    BY <1>1, <2>3, SeqDef, LenProperties
  <2> QED BY <2>1, <2>2, <2>4 DEF Alike, Arms
<1>6. /\ LaidOut(actions', lastIndex) /\ StartsOf(actions') = StartsOf(actions)
      /\ \A t \in StartsOf(actions) : CapacityOf(actions', t) = CapacityOf(actions, t)
      /\ (actions = <<>> <=> actions' = <<>>)
      /\ (actions # <<>> => Last(actions').start = Last(actions).start)
  BY <1>5, Updated DEF Ranges
<1>7. ArmedOf(actions') = ArmedOf(actions) \cup {s}
  BY <1>3, <1>5, Rearmed DEF Ranges
<1>8. /\ unused' \in Seq(Nat) /\ Ordered(unused', actions)
      /\ Elements(unused') = Elements(unused) \ {s}
  <2>1. unused' = RemoveAt(unused, k)
    BY DEF Reuse
  <2> QED BY <1>2, <2>1, Dropped DEF Ranges, s
<1>9. Ordered(unused', actions')
  BY <1>6, <1>8, SameOrder DEF Ranges
<1>10. lastIndex' = lastIndex /\ held' = [held EXCEPT ![m] = s]
  BY DEF Reuse, s
<1>11. Ranges'
  BY <1>3, <1>6, <1>7, <1>8, <1>9, <1>10 DEF Ranges
<1>12. ~ Holds(s) /\ held'[m] = s
  BY <1>3, <1>10 DEF Owned
<1>13. Owned'
  <2>1. \A t : t # 0 => (Holds(t)' <=> Holds(t) \/ t = s)
    BY <1>10 DEF Holds
  <2>2. \A t \in StartsOf(actions') : t \in Elements(unused') <=> ~ Holds(t)'
    BY <1>3, <1>6, <1>8, <1>12, <2>1, StartsArePositive DEF Owned
  <2>3. \A n \in Users' : held'[n] = 0 \/ held'[n] \in StartsOf(actions')
    BY <1>3, <1>6, <1>10 DEF Owned
  <2> QED BY <2>2, <2>3 DEF Owned
<1> QED BY <1>11, <1>12, <1>13

\* A new action is made for the mapper m.
LEMMA ExtendKeeps ==
  ASSUME Ranges, Owned, ~ trimming, trimming' = trimming, held \in [Mapper -> Nat],
         NEW m \in Mapper, held[m] = 0, NEW size \in Nat \ {0}, Extend(m, size),
         Users \subseteq Mapper, Users' = Users \cup {m}
  PROVE  Ranges' /\ Owned' /\ ~ Holds(held'[m])
<1> DEFINE c == [start |-> lastIndex, size |-> size, capacity |-> size,
                 armed |-> TRUE, enabled |-> TRUE]
<1>1. lastIndex \in Nat /\ actions \in Seq(Action)
  BY DEF Ranges, LaidOut
<1>2. /\ c \in Action /\ c.start = lastIndex /\ c.capacity = size /\ c.size = size /\ c.armed
      /\ c.size <= c.capacity /\ c.capacity > 0
  BY <1>1 DEF Action
<1>3. actions' = Append(actions, c) /\ lastIndex' = lastIndex + c.capacity
  BY <1>2 DEF Extend
<1>4. unused' = unused /\ held' = [held EXCEPT ![m] = lastIndex]
  BY DEF Extend
<1> HIDE DEF c
<1>5. /\ LaidOut(actions', lastIndex') /\ StartsOf(actions') = StartsOf(actions) \cup {lastIndex}
      /\ lastIndex \notin StartsOf(actions)
      /\ \A s \in StartsOf(actions) : CapacityOf(actions', s) = CapacityOf(actions, s)
      /\ ArmedOf(actions') = ArmedOf(actions) \cup {lastIndex}
  BY <1>2, <1>3, Extended DEF Ranges
<1>6. Ordered(unused', actions')
  BY <1>4, <1>5, SameOrder DEF Ranges
<1>7. Last(actions').start = lastIndex
  <2>1. Len(actions') = Len(actions) + 1 /\ actions'[Len(actions) + 1] = c
    BY <1>1, <1>2, <1>3, AppendProperties
  <2> QED BY <1>2, <2>1 DEF Last
<1>8. Ranges'
  BY <1>4, <1>5, <1>6, <1>7 DEF Ranges
<1>9. StartsOf(actions') \subseteq Nat \ {0}
  BY <1>5, StartsArePositive
<1>10. ~ Holds(lastIndex) /\ held'[m] = lastIndex
  <2>1. lastIndex # 0 /\ \A n \in Users : held[n] # lastIndex
    BY <1>5, <1>9 DEF Owned
  <2> QED BY <1>4, <2>1 DEF Holds
<1>11. Owned'
  <2>1. \A t : t # 0 => (Holds(t)' <=> Holds(t) \/ t = lastIndex)
    BY <1>4 DEF Holds
  <2>2. \A t \in StartsOf(actions') : t \in Elements(unused') <=> ~ Holds(t)'
    BY <1>4, <1>5, <1>9, <2>1 DEF Owned, Ranges
  <2>3. \A n \in Users' : held'[n] = 0 \/ held'[n] \in StartsOf(actions')
    BY <1>4, <1>5 DEF Owned
  <2> QED BY <2>2, <2>3 DEF Owned
<1> QED BY <1>8, <1>10, <1>11

LEMMA RegisterKeeps ==
  ASSUME Ranges, Owned, ~ trimming, trimming' = trimming, held \in [Mapper -> Nat],
         NEW m \in Mapper, held[m] = 0, NEW size \in Nat \ {0}, Register(m, size),
         Users \subseteq Mapper, Users' = Users \cup {m}
  PROVE  /\ Ranges' /\ Owned' /\ ~ Holds(held'[m])
         /\ held' \in [Mapper -> Nat] /\ \A n \in Mapper : n # m => held'[n] = held[n]
         /\ lastIndex' <= lastIndex + size
<1>1. size \in Nat /\ lastIndex \in Nat
  BY DEF Ranges, LaidOut
<1>2. Ranges' /\ Owned' /\ ~ Holds(held'[m])
  <2>1. CASE Extend(m, size)
    BY <2>1, ExtendKeeps
  <2>2. CASE \E k \in Fits(size) : Reuse(m, size, k)
    BY <1>1, <2>2, ReuseKeeps
  <2> QED BY <2>1, <2>2 DEF Register
<1>3. \E s \in Nat : held' = [held EXCEPT ![m] = s]
  <2>1. CASE Extend(m, size)
    BY <1>1, <2>1 DEF Extend
  <2>2. ASSUME NEW k \in Fits(size), Reuse(m, size, k)
        PROVE  \E s \in Nat : held' = [held EXCEPT ![m] = s]
    <3>1. unused[k] \in Nat
      BY ElementOfSeq, LenProperties DEF Ranges, Fits
    <3> QED BY <2>2, <3>1 DEF Reuse
  <2> QED BY <2>1, <2>2 DEF Register
<1>4. lastIndex' <= lastIndex + size
  <2>1. lastIndex' = lastIndex + size \/ lastIndex' = lastIndex
    BY DEF Register, Extend, Reuse
  <2> QED BY <1>1, <2>1
<1> QED BY <1>2, <1>3, <1>4

\* What the mappers of a call keep, when the range s is given back.
GivesBack(s) ==
  /\ \A t : t # 0 => (Holds(t)' <=> Holds(t) /\ t # s)
  /\ \A m \in Users' : held'[m] # 0 => Holds(held'[m]) /\ held'[m] # s

\* The last action is removed, and lastIndex_ goes back to its start.
LEMMA PopBackKeeps ==
  ASSUME LaidOut(actions, lastIndex), actions # <<>>, PopBack
  PROVE  /\ LaidOut(actions', lastIndex') /\ lastIndex' <= lastIndex
         /\ Last(actions).start \in StartsOf(actions)
         /\ StartsOf(actions') = StartsOf(actions) \ {Last(actions).start}
         /\ ArmedOf(actions') = ArmedOf(actions) \ {Last(actions).start}
         /\ \A s \in StartsOf(actions') : CapacityOf(actions', s) = CapacityOf(actions, s)
<1>1. actions' = Front(actions) /\ lastIndex' = lastIndex - Last(actions).capacity
  BY DEF PopBack
<1>2. lastIndex' <= lastIndex
  <2>1. lastIndex \in Nat /\ Len(actions) \in Nat \ {0}
    BY ActionTypes, EmptySeq DEF LaidOut
  <2>2. Len(actions) \in 1 .. Len(actions)
    BY <2>1
  <2>3. Last(actions).capacity \in Nat
    BY <2>2, ActionTypes DEF LaidOut, Last
  <2> QED BY <1>1, <2>1, <2>3
<1> QED BY <1>1, <1>2, Popped

LEMMA KeepKeeps ==
  ASSUME Ranges, Owned, NEW s \in StartsOf(actions), s \notin Elements(unused), Keep(s),
         lastIndex' = lastIndex, trimming' = trimming, Last(actions).start # s, GivesBack(s)
  PROVE  Ranges' /\ Owned'
<1>1. /\ actions \in Seq(Action) /\ Len(actions) \in Nat /\ DOMAIN actions = 1 .. Len(actions)
      /\ \A j \in 1 .. Len(actions) :
           /\ actions[j] \in Action /\ actions[j].start \in Nat /\ actions[j].size \in Nat
           /\ actions[j].capacity \in Nat /\ actions[j].armed \in BOOLEAN
  BY ActionTypes DEF Ranges, LaidOut
<1>2. StartsOf(actions) \subseteq Nat \ {0}
  BY StartsArePositive DEF Ranges
<1>3. Alike(actions, actions') /\ Arms(actions, actions', s, FALSE)
  <2> DEFINE f(j) == IF actions[j].start = s
                     THEN [actions[j] EXCEPT !.armed = FALSE] ELSE actions[j]
  <2>1. actions' = [j \in 1 .. Len(actions) |-> f(j)]
    BY <1>1 DEF Keep
  <2>2. ASSUME NEW j \in 1 .. Len(actions)
        PROVE  /\ f(j) \in Action /\ f(j).start = actions[j].start
               /\ f(j).capacity = actions[j].capacity /\ f(j).size <= f(j).capacity
               /\ f(j).armed = IF actions[j].start = s THEN FALSE ELSE actions[j].armed
    <3>1. actions[j].size <= actions[j].capacity
      BY DEF Ranges, LaidOut
    <3> QED BY <1>1, <3>1 DEF Action
  <2> HIDE DEF f
  <2>3. actions' \in [1 .. Len(actions) -> Action]
    BY <2>1, <2>2
  <2>4. actions' \in Seq(Action) /\ Len(actions') = Len(actions)
    BY <1>1, <2>3, SeqDef, LenProperties
  <2> QED BY <2>1, <2>2, <2>4 DEF Alike, Arms
<1>4. /\ LaidOut(actions', lastIndex) /\ StartsOf(actions') = StartsOf(actions)
      /\ \A t \in StartsOf(actions) : CapacityOf(actions', t) = CapacityOf(actions, t)
      /\ (actions = <<>> <=> actions' = <<>>)
      /\ (actions # <<>> => Last(actions').start = Last(actions).start)
  BY <1>3, Updated DEF Ranges
<1>5. ArmedOf(actions') = ArmedOf(actions) \ {s}
  BY <1>3, Rearmed DEF Ranges
<1>6. /\ unused' \in Seq(Nat) /\ Ordered(unused', actions)
      /\ Elements(unused') = Elements(unused) \cup {s}
  <2>1. Len(unused) \in Nat /\ DOMAIN unused = 1 .. Len(unused)
    BY LenProperties DEF Ranges
  <2>2. /\ CapacityOf(actions, s) \in Nat /\ s \in Nat
        /\ \A j \in 1 .. Len(unused) : CapacityOf(actions, unused[j]) \in Nat
    BY <1>2, CapacityType DEF Ranges, Elements
  <2>3. PICK k \in 1 .. Len(unused) + 1 :
          /\ \A j \in 1 .. Len(unused) :
               j < k <=> CapacityOf(actions, unused[j]) <= CapacityOf(actions, s)
          /\ unused' = InsertAt(unused, k, s)
    BY <2>1, Terms DEF Keep
  <2> QED BY <2>2, <2>3, Inserted DEF Ranges
<1>7. Ordered(unused', actions')
  BY <1>4, <1>6, SameOrder DEF Ranges
<1>8. Ranges'
  BY <1>4, <1>5, <1>6, <1>7 DEF Ranges
<1>9. Owned'
  <2>1. \A t \in StartsOf(actions') : t \in Elements(unused') <=> ~ Holds(t)'
    BY <1>2, <1>4, <1>6 DEF Owned, GivesBack
  <2>2. \A n \in Users' : held'[n] = 0 \/ held'[n] \in StartsOf(actions')
    BY <1>4 DEF Owned, GivesBack, Holds
  <2> QED BY <2>1, <2>2 DEF Owned
<1> QED BY <1>8, <1>9

LEMMA UnregisterKeeps ==
  ASSUME Ranges, Owned, NEW s, Unregister(s), GivesBack(s),
         trimming \in BOOLEAN, ~ trimming,
         s \in StartsOf(actions) => s \notin Elements(unused)
  PROVE  /\ Ranges' /\ Owned' /\ lastIndex' <= lastIndex /\ trimming' \in BOOLEAN
         /\ s \notin StartsOf(actions') \/ s \in Elements(unused')
<1>1. lastIndex \in Nat /\ StartsOf(actions) \subseteq Nat \ {0}
  <2>1. LaidOut(actions, lastIndex)
    BY DEF Ranges
  <2>2. lastIndex \in Nat
    BY <2>1 DEF LaidOut
  <2> QED BY <2>1, <2>2, StartsArePositive
<1>2. CASE s \notin StartsOf(actions)
  <2>1. UNCHANGED <<actions, unused, lastIndex, trimming>>
    BY <1>2, Terms DEF Unregister
  <2>2. Ranges'
    BY <2>1 DEF Ranges
  <2>3. Owned'
    <3>1. \A t \in StartsOf(actions') : t \in Elements(unused') <=> ~ Holds(t)'
      BY <1>1, <1>2, <2>1 DEF Owned, GivesBack
    <3>2. \A n \in Users' : held'[n] = 0 \/ held'[n] \in StartsOf(actions')
      BY <2>1 DEF Owned, GivesBack, Holds
    <3> QED BY <3>1, <3>2 DEF Owned
  <2> QED BY <1>1, <1>2, <2>1, <2>2, <2>3
<1>3. CASE s \in StartsOf(actions) /\ Last(actions).start = s
  <2>1. s \notin Elements(unused) /\ actions # <<>>
    BY <1>3 DEF StartsOf
  <2>2. PopBack /\ trimming' = TRUE /\ unused' = unused
    BY <1>3, <2>1, Terms DEF Unregister
  <2>3. /\ LaidOut(actions', lastIndex') /\ lastIndex' <= lastIndex
        /\ StartsOf(actions') = StartsOf(actions) \ {s}
        /\ ArmedOf(actions') = ArmedOf(actions) \ {s}
        /\ \A t \in StartsOf(actions') : CapacityOf(actions', t) = CapacityOf(actions, t)
    BY <1>3, <2>1, <2>2, PopBackKeeps DEF Ranges
  <2>4. Ordered(unused', actions')
    BY <2>1, <2>2, <2>3, SameOrder DEF Ranges
  <2>5. Ranges'
    BY <2>1, <2>2, <2>3, <2>4 DEF Ranges
  <2>6. Owned'
    <3>1. \A t \in StartsOf(actions') : t \in Elements(unused') <=> ~ Holds(t)'
      BY <1>1, <2>2, <2>3 DEF Owned, GivesBack
    <3>2. \A n \in Users' : held'[n] = 0 \/ held'[n] \in StartsOf(actions')
      BY <2>3 DEF Owned, GivesBack, Holds
    <3> QED BY <3>1, <3>2 DEF Owned
  <2> QED BY <2>2, <2>3, <2>5, <2>6
<1>4. CASE s \in StartsOf(actions) /\ Last(actions).start # s
  <2>1. s \notin Elements(unused)
    BY <1>4
  <2>2. Keep(s) /\ lastIndex' = lastIndex /\ trimming' = trimming
    BY <1>4, <2>1, Terms DEF Unregister
  <2>3. Ranges' /\ Owned'
    BY <1>4, <2>1, <2>2, KeepKeeps
  <2>4. s \in Elements(unused')
    <3>1. s \in StartsOf(actions')
      <4>1. DOMAIN actions' = DOMAIN actions
        BY <2>2 DEF Keep
      <4> QED BY <1>4, <2>2, <4>1 DEF Keep, StartsOf
    <3>2. s # 0 /\ ~ Holds(s)'
      BY <1>1, <1>4 DEF GivesBack
    <3> QED BY <2>3, <3>1, <3>2 DEF Owned
  <2> QED BY <1>1, <2>2, <2>3, <2>4
<1> QED BY <1>2, <1>3, <1>4

-----------------------------------------------------------------------------

\* Room that was there is there when less is used.
LEMMA StillBelow ==
  ASSUME NEW used \in Nat, NEW now \in Nat, NEW size \in Nat, NEW bound \in Nat,
         now <= used, used + size <= bound
  PROVE  now <= bound /\ now + size <= bound
OBVIOUS

LEMMA InitIInv == Init => IInv
<1> SUFFICES ASSUME Init PROVE IInv
  OBVIOUS
<1>1. /\ actions = <<>> /\ unused = <<>> /\ lastIndex = 1 /\ alive = {}
      /\ held = [m \in Mapper |-> 0] /\ trimming = FALSE /\ after = Nothing
  BY DEF Init
<1>2. after \in Calls /\ after.op = "nothing"
  BY <1>1 DEF Nothing, Calls
<1>3. Typed
  <2>1. 1 <= MaxIndex
    BY SizeAssumption
  <2>2. held \in [Mapper -> Nat]
    BY <1>1
  <2> QED BY <1>1, <1>2, <2>1, <2>2 DEF Typed
<1>4. Len(actions) = 0 /\ Len(unused) = 0 /\ DOMAIN actions = {}
  BY <1>1
<1>5. StartsOf(actions) = {} /\ ArmedOf(actions) = {} /\ Elements(unused) = {}
  BY <1>4 DEF StartsOf, ArmedOf, Elements
<1>6. Ranges
  <2>1. LaidOut(actions, lastIndex)
    BY <1>1, <1>4 DEF LaidOut
  <2> QED BY <1>1, <1>4, <1>5, <2>1 DEF Ranges, Ordered
<1>7. Owned /\ Apart
  BY <1>1, <1>2, <1>5 DEF Owned, Apart, Users
<1> QED BY <1>3, <1>6, <1>7 DEF IInv

\* The constructor, of a mapper with no action and of one with some.
LEMMA CreateStep ==
  ASSUME IInv, NEW m \in Mapper, NEW size \in Size, Create(m, size)
  PROVE  IInv'
<1>1. /\ ~ trimming /\ after = Nothing /\ m \notin alive /\ lastIndex + size <= MaxIndex
      /\ alive' = alive \cup {m} /\ trimming' = trimming /\ after' = Nothing
  BY DEF Create, Returned
<1>2. Users = alive /\ Users' = alive \cup {m} /\ after'.op = "nothing" /\ held[m] = 0
  BY <1>1 DEF Users, Nothing, IInv, Apart
<1>3. lastIndex \in Nat /\ MaxIndex \in Nat /\ size \in Nat /\ held \in [Mapper -> Nat]
  BY SizeAssumption DEF IInv, Ranges, LaidOut, Typed
<1>4. /\ Ranges' /\ Owned' /\ (~ Holds(held'[m]) \/ held'[m] = 0) /\ held' \in [Mapper -> Nat]
      /\ \A n \in Mapper : n # m => held'[n] = held[n]
      /\ lastIndex' <= MaxIndex
  <2>1. CASE size = 0
    <3>1. UNCHANGED <<actions, unused, lastIndex, held>>
      BY <2>1 DEF Create
    <3>2. StartsOf(actions) \subseteq Nat \ {0}
      BY StartsArePositive DEF IInv, Ranges
    <3>3. \A s : s # 0 => (Holds(s)' <=> Holds(s))
      BY <1>2, <3>1 DEF Holds
    <3>4. Ranges'
      BY <1>1, <3>1 DEF IInv, Ranges
    <3>5. Owned'
      BY <1>2, <3>1, <3>2, <3>3 DEF IInv, Owned
    <3> QED BY <1>2, <1>3, <3>1, <3>4, <3>5 DEF IInv, Typed
  <2>2. CASE size # 0
    <3>1. Register(m, size) /\ size \in Nat \ {0} /\ Users \subseteq Mapper
      BY <1>2, <1>3, <2>2 DEF Create, IInv, Typed
    <3>2. /\ Ranges' /\ Owned' /\ ~ Holds(held'[m])
          /\ held' \in [Mapper -> Nat] /\ \A n \in Mapper : n # m => held'[n] = held[n]
          /\ lastIndex' <= lastIndex + size
      BY <1>1, <1>2, <1>3, <3>1, RegisterKeeps DEF IInv
    <3>3. lastIndex' \in Nat
      BY <3>2 DEF Ranges, LaidOut
    <3> QED BY <1>1, <1>3, <3>2, <3>3
  <2> QED BY <2>1, <2>2
<1>5. Typed'
  BY <1>1, <1>2, <1>4 DEF IInv, Typed, Calls, Nothing
<1>6. Apart'
  <2>1. \A n \in Mapper \ alive' : held'[n] = 0
    BY <1>1, <1>4 DEF IInv, Apart
  <2>2. \A n \in alive : held'[n] = held[n] /\ (held[n] = held'[m] => held'[m] = 0)
    BY <1>1, <1>2, <1>4 DEF IInv, Typed, Holds
  <2>3. ASSUME NEW i \in Users', NEW n \in Users', held'[i] = held'[n]
        PROVE  held'[i] = 0 \/ i = n
    BY <1>2, <2>2, <2>3 DEF IInv, Apart
  <2> QED BY <1>2, <2>1, <2>3 DEF Apart
<1> QED BY <1>4, <1>5, <1>6 DEF IInv

\* The destructor.
LEMMA DestroyMapperStep ==
  ASSUME IInv, NEW m \in Mapper, DestroyMapper(m)
  PROVE  IInv'
<1>1. /\ ~ trimming /\ after = Nothing /\ m \in alive /\ after' = Nothing
      /\ alive' = alive \ {m} /\ held' = [held EXCEPT ![m] = 0] /\ Unregister(held[m])
  BY DEF DestroyMapper, Destroy, Returned
<1>2. Users = alive /\ Users' = alive \ {m} /\ after'.op = "nothing"
  BY <1>1 DEF Users, Nothing
<1>3. held \in [Mapper -> Nat] /\ trimming \in BOOLEAN /\ alive \subseteq Mapper
  BY DEF IInv, Typed
<1>4. \A n \in alive \ {m} : held'[n] = held[n] /\ (held[n] = held[m] => held[n] = 0)
  BY <1>1, <1>2, <1>3 DEF IInv, Apart
<1>5. GivesBack(held[m])
  <2>1. ASSUME NEW t, t # 0 PROVE Holds(t)' <=> Holds(t) /\ t # held[m]
    <3>1. ASSUME NEW n \in Users', held'[n] = t PROVE Holds(t) /\ t # held[m]
      BY <1>1, <1>2, <1>4, <2>1, <3>1 DEF Holds
    <3>2. ASSUME NEW n \in Users, held[n] = t, t # held[m] PROVE Holds(t)'
      BY <1>1, <1>2, <1>4, <3>2 DEF Holds
    <3> QED BY <3>1, <3>2 DEF Holds
  <2>2. ASSUME NEW n \in Users', held'[n] # 0 PROVE Holds(held'[n]) /\ held'[n] # held[m]
    <3>1. n \in Users /\ held'[n] = held[n] /\ held[n] # held[m]
      BY <1>2, <1>4, <2>2
    <3>2. Holds(held[n])
      BY <3>1 DEF Holds
    <3> QED BY <3>1, <3>2
  <2> QED BY <2>1, <2>2 DEF GivesBack
<1>6. held[m] \in StartsOf(actions) => held[m] \notin Elements(unused)
  BY <1>1, <1>2 DEF IInv, Owned, Holds
<1>7. Ranges' /\ Owned' /\ lastIndex' <= lastIndex /\ trimming' \in BOOLEAN
  BY <1>1, <1>3, <1>5, <1>6, UnregisterKeeps DEF IInv
<1>8. Typed'
  <2>1. lastIndex \in Nat /\ lastIndex' \in Nat /\ lastIndex <= MaxIndex /\ MaxIndex \in Nat
    BY <1>7, SizeAssumption DEF IInv, Ranges, LaidOut, Typed
  <2>2. lastIndex' <= MaxIndex
    BY <1>7, <2>1
  <2> QED BY <1>1, <1>2, <1>3, <1>7, <2>2 DEF Typed, Calls, Nothing
<1>9. Apart'
  <2>1. \A n \in Mapper \ alive' : held'[n] = 0
    BY <1>1, <1>3 DEF IInv, Apart
  <2>2. \A i, n \in Users' : held'[i] = held'[n] => held'[i] = 0 \/ i = n
    BY <1>2, <1>4 DEF IInv, Apart
  <2> QED BY <1>2, <2>1, <2>2 DEF Apart
<1> QED BY <1>7, <1>8, <1>9 DEF IInv

\* resize: the old range is given back.
LEMMA ResizeStep ==
  ASSUME IInv, NEW m \in Mapper, NEW size \in Size, Resize(m, size)
  PROVE  IInv'
<1>1. /\ ~ trimming /\ after = Nothing /\ m \in alive /\ lastIndex + size <= MaxIndex
      /\ alive' = alive /\ held' = [held EXCEPT ![m] = 0] /\ Unregister(held[m])
      /\ after' = IF size = 0 THEN Nothing
                  ELSE [op |-> "register", mapper |-> m, size |-> size,
                        enabled |-> \A k \in At(held[m]) : actions[k].enabled]
  BY DEF Resize, Returned
<1>2. Users = alive /\ Users' = alive /\ after'.op # "destroy"
  BY <1>1 DEF Users, Nothing
<1>3. held \in [Mapper -> Nat] /\ trimming \in BOOLEAN /\ alive \subseteq Mapper /\ size \in Nat
  BY SizeAssumption DEF IInv, Typed
<1>4. /\ held'[m] = 0
      /\ \A n \in alive \ {m} : held'[n] = held[n] /\ (held[n] = held[m] => held[n] = 0)
  BY <1>1, <1>2, <1>3 DEF IInv, Apart
<1>5. GivesBack(held[m])
  <2>1. ASSUME NEW t, t # 0 PROVE Holds(t)' <=> Holds(t) /\ t # held[m]
    <3>1. ASSUME NEW n \in Users', held'[n] = t PROVE Holds(t) /\ t # held[m]
      BY <1>1, <1>2, <1>4, <2>1, <3>1 DEF Holds
    <3>2. ASSUME NEW n \in Users, held[n] = t, t # held[m] PROVE Holds(t)'
      BY <1>1, <1>2, <1>4, <3>2 DEF Holds
    <3> QED BY <3>1, <3>2 DEF Holds
  <2>2. ASSUME NEW n \in Users', held'[n] # 0 PROVE Holds(held'[n]) /\ held'[n] # held[m]
    <3>1. n \in Users /\ held'[n] = held[n] /\ held[n] # held[m]
      BY <1>2, <1>4, <2>2
    <3>2. Holds(held[n])
      BY <3>1 DEF Holds
    <3> QED BY <3>1, <3>2
  <2> QED BY <2>1, <2>2 DEF GivesBack
<1>6. held[m] \in StartsOf(actions) => held[m] \notin Elements(unused)
  BY <1>1, <1>2 DEF IInv, Owned, Holds
<1>7. Ranges' /\ Owned' /\ lastIndex' <= lastIndex /\ trimming' \in BOOLEAN
  BY <1>1, <1>3, <1>5, <1>6, UnregisterKeeps DEF IInv
<1>8. Typed'
  <2>1. lastIndex \in Nat /\ lastIndex' \in Nat /\ lastIndex <= MaxIndex /\ MaxIndex \in Nat
    BY <1>7, SizeAssumption DEF IInv, Ranges, LaidOut, Typed
  <2>2. lastIndex' <= MaxIndex /\ lastIndex' + size <= MaxIndex
    <3>1. lastIndex + size <= MaxIndex /\ size \in Nat /\ lastIndex' <= lastIndex
      BY <1>1, <1>3, <1>7
    <3> QED BY <2>1, <3>1, StillBelow
  <2>3. (\A k \in At(held[m]) : actions[k].enabled) \in BOOLEAN
    OBVIOUS
  <2>4. CASE size = 0
    <3>1. after' \in Calls /\ after'.op = "nothing"
      BY <1>1, <2>4 DEF Nothing, Calls
    <3> QED BY <1>1, <1>3, <1>7, <2>2, <3>1 DEF Typed
  <2>5. CASE size # 0
    <3>1. /\ after' \in Calls /\ after'.op = "register" /\ after'.mapper = m
          /\ after'.size = size /\ 0 < size
      BY <1>1, <1>3, <2>3, <2>5 DEF Calls
    <3> QED BY <1>1, <1>3, <1>4, <1>7, <2>2, <3>1 DEF Typed
  <2> QED BY <2>4, <2>5
<1>9. Apart'
  <2>1. \A n \in Mapper \ alive' : held'[n] = 0
    BY <1>1, <1>3 DEF IInv, Apart
  <2>2. \A i, n \in Users' : held'[i] = held'[n] => held'[i] = 0 \/ i = n
    BY <1>2, <1>4 DEF IInv, Apart
  <2> QED BY <1>2, <2>1, <2>2 DEF Apart
<1> QED BY <1>7, <1>8, <1>9 DEF IInv

\* resize: the new one is registered.
LEMMA ResizedStep ==
  ASSUME IInv, Resized
  PROVE  IInv'
<1> DEFINE m == after.mapper
           size == after.size
<1>1. /\ ~ trimming /\ after.op = "register" /\ Register(m, size) /\ alive' = alive
      /\ trimming' = trimming
      /\ after' = [Nothing EXCEPT !.op = "enable", !.mapper = m, !.enabled = after.enabled]
  BY DEF Resized
<1>2. /\ after \in Calls /\ m \in alive /\ alive \subseteq Mapper /\ held \in [Mapper -> Nat]
      /\ size \in Nat \ {0} /\ lastIndex + size <= MaxIndex /\ held[m] = 0 /\ m \in Mapper
  BY <1>1 DEF IInv, Typed, Calls
<1>3. after' \in Calls /\ after'.op = "enable" /\ after'.mapper = m
  BY <1>1, <1>2 DEF Calls, Nothing
<1> HIDE DEF m, size
<1>4. Users = alive /\ Users' = alive
  BY <1>1, <1>3 DEF Users
<1>5. /\ Ranges' /\ Owned' /\ ~ Holds(held'[m])
      /\ held' \in [Mapper -> Nat] /\ \A n \in Mapper : n # m => held'[n] = held[n]
      /\ lastIndex' <= lastIndex + size
  BY <1>1, <1>2, <1>4, RegisterKeeps DEF IInv
<1>6. Typed'
  <2>1. lastIndex \in Nat /\ lastIndex' \in Nat /\ MaxIndex \in Nat
    BY <1>5, SizeAssumption DEF IInv, Ranges, LaidOut
  <2>2. lastIndex' <= MaxIndex
    BY <1>2, <1>5, <2>1
  <2> QED BY <1>1, <1>2, <1>3, <1>5, <2>2 DEF IInv, Typed
<1>7. Apart'
  <2>1. \A n \in Mapper \ alive' : held'[n] = 0
    BY <1>1, <1>2, <1>5 DEF IInv, Apart
  <2>2. \A n \in alive : n # m => held'[n] = held[n] /\ held[n] # held'[m]
    BY <1>2, <1>4, <1>5 DEF Holds
  <2>3. \A i, n \in Users' : held'[i] = held'[n] => held'[i] = 0 \/ i = n
    BY <1>4, <2>2 DEF IInv, Apart
  <2> QED BY <1>3, <2>1, <2>3 DEF Apart
<1> QED BY <1>5, <1>6, <1>7 DEF IInv

\* setEnabled.
LEMMA EnableKeeps ==
  ASSUME Ranges, NEW m, NEW enabled \in BOOLEAN, Enable(m, enabled),
         UNCHANGED <<unused, lastIndex, trimming>>
  PROVE  Ranges' /\ StartsOf(actions') = StartsOf(actions)
<1>1. /\ actions \in Seq(Action) /\ Len(actions) \in Nat /\ DOMAIN actions = 1 .. Len(actions)
      /\ \A j \in 1 .. Len(actions) : actions[j] \in Action
  BY ActionTypes DEF Ranges, LaidOut
<1>2. /\ Alike(actions, actions') /\ DOMAIN actions' = 1 .. Len(actions)
      /\ \A j \in 1 .. Len(actions) : actions'[j].armed = actions[j].armed
  <2> DEFINE f(j) == IF actions[j].start = held[m]
                     THEN [actions[j] EXCEPT !.enabled = enabled] ELSE actions[j]
  <2>1. actions' = [j \in 1 .. Len(actions) |-> f(j)]
    BY <1>1 DEF Enable
  <2>2. ASSUME NEW j \in 1 .. Len(actions)
        PROVE  /\ f(j) \in Action /\ f(j).start = actions[j].start
               /\ f(j).capacity = actions[j].capacity /\ f(j).size <= f(j).capacity
               /\ f(j).armed = actions[j].armed
    <3>1. actions[j].size <= actions[j].capacity
      BY DEF Ranges, LaidOut
    <3> QED BY <1>1, <3>1 DEF Action
  <2> HIDE DEF f
  <2>3. actions' \in [1 .. Len(actions) -> Action]
    BY <2>1, <2>2
  <2>4. actions' \in Seq(Action) /\ Len(actions') = Len(actions)
    BY <1>1, <2>3, SeqDef, LenProperties
  <2> QED BY <2>1, <2>2, <2>4 DEF Alike
<1>3. /\ LaidOut(actions', lastIndex) /\ StartsOf(actions') = StartsOf(actions)
      /\ \A t \in StartsOf(actions) : CapacityOf(actions', t) = CapacityOf(actions, t)
      /\ (actions = <<>> <=> actions' = <<>>)
      /\ (actions # <<>> => Last(actions').start = Last(actions).start)
  BY <1>2, Updated DEF Ranges
<1>4. ArmedOf(actions') = ArmedOf(actions)
  BY <1>1, <1>2 DEF ArmedOf, Alike
<1>5. Ordered(unused, actions')
  BY <1>3, SameOrder DEF Ranges
<1> QED BY <1>3, <1>4, <1>5 DEF Ranges

\* setEnabled, and the same as the end of resize.
LEMMA EnableStep ==
  ASSUME IInv, NEW m, NEW enabled \in BOOLEAN, Enable(m, enabled), after.op # "destroy",
         after' = after \/ after' = Nothing,
         UNCHANGED <<unused, lastIndex, held, alive, trimming>>
  PROVE  IInv'
<1>1. Ranges' /\ StartsOf(actions') = StartsOf(actions)
  BY EnableKeeps DEF IInv
<1>2. Users = alive /\ Users' = alive /\ after'.op # "destroy"
  BY DEF Users, Nothing
<1>3. \A s : Holds(s)' <=> Holds(s)
  BY <1>2 DEF Holds
<1>4. Owned'
  BY <1>1, <1>2, <1>3 DEF IInv, Owned
<1>5. Nothing \in Calls /\ Nothing.op = "nothing"
  BY DEF Nothing, Calls
<1>6. Typed'
  BY <1>5 DEF IInv, Typed
<1>7. Apart'
  BY <1>2 DEF IInv, Apart
<1> QED BY <1>1, <1>4, <1>6, <1>7 DEF IInv

\* The move assignment: the temporary gets the action of m, which is given back.
LEMMA MoveAssignStep ==
  ASSUME IInv, NEW m \in Mapper, NEW t \in Mapper, MoveAssign(m, t)
  PROVE  IInv'
<1>1. /\ ~ trimming /\ after = Nothing /\ m \in alive /\ t \in alive /\ m # t
      /\ held' = [held EXCEPT ![m] = held[t], ![t] = held[m]] /\ Unregister(held[m])
      /\ after' = [Nothing EXCEPT !.op = "destroy", !.mapper = t] /\ alive' = alive
  BY DEF MoveAssign, Returned
<1>2. after' \in Calls /\ after'.op = "destroy" /\ after'.mapper = t
  BY <1>1 DEF Nothing, Calls
<1>3. Users = alive /\ Users' = alive \ {t}
  BY <1>1, <1>2 DEF Users, Nothing
<1>4. held \in [Mapper -> Nat] /\ trimming \in BOOLEAN /\ alive \subseteq Mapper
  BY DEF IInv, Typed
<1>5. /\ held'[m] = held[t] /\ held'[t] = held[m]
      /\ \A n \in alive \ {m, t} : held'[n] = held[n]
      /\ \A n \in Mapper \ {m, t} : held'[n] = held[n]
      /\ \A n \in alive \ {m} : held[n] = held[m] => held[n] = 0
      /\ held' \in [Mapper -> Nat]
  BY <1>1, <1>3, <1>4 DEF IInv, Apart
<1>6. GivesBack(held[m])
  <2>1. ASSUME NEW s, s # 0 PROVE Holds(s)' <=> Holds(s) /\ s # held[m]
    <3>1. ASSUME NEW n \in Users', held'[n] = s PROVE Holds(s) /\ s # held[m]
      <4>1. CASE n = m
        BY <1>1, <1>3, <1>5, <2>1, <3>1, <4>1 DEF Holds
      <4>2. CASE n # m
        BY <1>1, <1>3, <1>5, <2>1, <3>1, <4>2 DEF Holds
      <4> QED BY <4>1, <4>2
    <3>2. ASSUME NEW n \in Users, held[n] = s, s # held[m] PROVE Holds(s)'
      <4>1. CASE n = t
        BY <1>1, <1>3, <1>5, <3>2, <4>1 DEF Holds
      <4>2. CASE n # t
        BY <1>1, <1>3, <1>5, <3>2, <4>2 DEF Holds
      <4> QED BY <4>1, <4>2
    <3> QED BY <3>1, <3>2 DEF Holds
  <2>2. ASSUME NEW n \in Users', held'[n] # 0 PROVE Holds(held'[n]) /\ held'[n] # held[m]
    <3>1. PICK k \in {n, t} : k \in Users /\ k # m /\ held'[n] = held[k]
      BY <1>1, <1>3, <1>5
    <3>2. Holds(held[k])
      BY <3>1 DEF Holds
    <3>3. held[k] # held[m]
      BY <1>3, <1>5, <2>2, <3>1
    <3> QED BY <3>1, <3>2, <3>3
  <2> QED BY <2>1, <2>2 DEF GivesBack
<1>7. held[m] \in StartsOf(actions) => held[m] \notin Elements(unused)
  BY <1>1, <1>3 DEF IInv, Owned, Holds
<1>8. /\ Ranges' /\ Owned' /\ lastIndex' <= lastIndex /\ trimming' \in BOOLEAN
      /\ held[m] \notin StartsOf(actions') \/ held[m] \in Elements(unused')
  BY <1>1, <1>4, <1>6, <1>7, UnregisterKeeps DEF IInv
<1>9. Typed'
  <2>1. lastIndex \in Nat /\ lastIndex' \in Nat /\ lastIndex <= MaxIndex /\ MaxIndex \in Nat
    BY <1>8, SizeAssumption DEF IInv, Ranges, LaidOut, Typed
  <2>2. lastIndex' <= MaxIndex
    BY <1>8, <2>1
  <2> QED BY <1>1, <1>2, <1>4, <1>5, <1>8, <2>2 DEF Typed
<1>10. Apart'
  <2>1. \A n \in Mapper \ alive' : held'[n] = 0
    BY <1>1, <1>5 DEF IInv, Apart
  <2>2. ASSUME NEW i \in Users', NEW n \in Users', held'[i] = held'[n]
        PROVE  held'[i] = 0 \/ i = n
    <3> DEFINE from(k) == IF k = m THEN t ELSE k
    <3>1. \A k \in Users' : from(k) \in Users /\ held'[k] = held[from(k)]
      BY <1>1, <1>3, <1>5
    <3>2. from(i) = from(n) => i = n
      BY <1>3
    <3> HIDE DEF from
    <3>3. held[from(i)] = 0 \/ from(i) = from(n)
      BY <2>2, <3>1 DEF IInv, Apart
    <3> QED BY <3>1, <3>2, <3>3
  <2> QED BY <1>2, <1>5, <1>8, <2>1, <2>2 DEF Apart
<1> QED BY <1>8, <1>9, <1>10 DEF IInv

\* The destructor of the temporary, which has nothing to give back.
LEMMA DestroyTemporaryStep ==
  ASSUME IInv, DestroyTemporary
  PROVE  IInv'
<1> DEFINE t == after.mapper
<1>1. /\ ~ trimming /\ after.op = "destroy" /\ t \in alive /\ after' = Nothing
      /\ alive' = alive \ {t} /\ held' = [held EXCEPT ![t] = 0] /\ Unregister(held[t])
  BY DEF DestroyTemporary, Destroy
<1>2. Users = alive \ {t} /\ Users' = alive \ {t} /\ Nothing \in Calls /\ Nothing.op = "nothing"
  BY <1>1 DEF Users, Nothing, Calls
<1>3. held \in [Mapper -> Nat] /\ alive \subseteq Mapper
  BY DEF IInv, Typed
<1>4. UNCHANGED <<actions, unused, lastIndex, trimming>>
  <2>1. held[t] \notin StartsOf(actions) \/ held[t] \in Elements(unused)
    BY <1>1 DEF IInv, Apart
  <2> QED BY <1>1, <2>1, Terms DEF Unregister
<1> HIDE DEF t
<1>5. /\ \A n \in Mapper \ {t} : held'[n] = held[n]
      /\ held' \in [Mapper -> Nat] /\ held'[t] = 0
  BY <1>1, <1>3
<1>6. Ranges'
  BY <1>4 DEF IInv, Ranges
<1>7. Owned'
  <2>1. \A s : Holds(s)' <=> Holds(s)
    BY <1>2, <1>3, <1>5 DEF Holds
  <2> QED BY <1>2, <1>3, <1>4, <1>5, <2>1 DEF IInv, Owned
<1>8. Typed'
  BY <1>1, <1>2, <1>3, <1>4, <1>5 DEF IInv, Typed
<1>9. Apart'
  BY <1>1, <1>2, <1>3, <1>5 DEF IInv, Apart
<1> QED BY <1>6, <1>7, <1>8, <1>9 DEF IInv

\* One step of the clean-up loop: an unused action at the end is removed.
LEMMA TrimStep ==
  ASSUME IInv, Trim
  PROVE  IInv'
<1>1. trimming /\ UNCHANGED <<held, alive, after>>
  BY DEF Trim
<1>2. Users' = Users /\ \A s : Holds(s)' <=> Holds(s)
  BY <1>1 DEF Users, Holds
<1>3. CASE ~ (actions # <<>> /\ Contains(unused, Last(actions).start))
  <2>1. trimming' = FALSE /\ UNCHANGED <<actions, unused, lastIndex>>
    BY <1>3 DEF Trim
  <2>2. actions # <<>> => Last(actions).start \notin Elements(unused)
    BY <1>3, Terms
  <2>3. Ranges'
    BY <2>1, <2>2 DEF IInv, Ranges
  <2> QED BY <1>1, <1>2, <2>1, <2>3 DEF IInv, Typed, Owned, Apart
<1>4. CASE actions # <<>> /\ Contains(unused, Last(actions).start)
  <2> DEFINE s == Last(actions).start
  <2>1. PopBack /\ trimming' = trimming /\ s \in Elements(unused)
    BY <1>4, Terms DEF Trim
  <2>2. PICK k \in DOMAIN unused : unused[k] = s /\ unused' = RemoveAt(unused, k)
    BY <1>4 DEF Trim
  <2> HIDE DEF s
  <2>3. /\ LaidOut(actions', lastIndex') /\ lastIndex' <= lastIndex
        /\ StartsOf(actions') = StartsOf(actions) \ {s}
        /\ ArmedOf(actions') = ArmedOf(actions) \ {s}
        /\ \A t \in StartsOf(actions') : CapacityOf(actions', t) = CapacityOf(actions, t)
    BY <1>4, <2>1, PopBackKeeps DEF IInv, Ranges, s
  <2>4. k \in 1 .. Len(unused)
    BY LenProperties DEF IInv, Ranges
  <2>5. /\ unused' \in Seq(Nat) /\ Ordered(unused', actions)
        /\ Elements(unused') = Elements(unused) \ {s}
    BY <2>2, <2>4, Dropped DEF IInv, Ranges
  <2>6. Ordered(unused', actions') /\ Elements(unused') \subseteq StartsOf(actions')
    <3>1. Elements(unused') \subseteq StartsOf(actions')
      BY <2>3, <2>5 DEF IInv, Ranges
    <3> QED BY <2>3, <2>5, <3>1, SameOrder
  <2>7. Ranges'
    BY <1>1, <2>1, <2>3, <2>5, <2>6 DEF IInv, Ranges
  <2>8. Owned'
    <3>1. s \in StartsOf(actions) /\ ~ Holds(s)
      BY <2>1 DEF IInv, Ranges, Owned
    <3>2. \A n \in Users' : held'[n] = 0 \/ held'[n] \in StartsOf(actions')
      BY <1>1, <1>2, <2>3, <3>1 DEF IInv, Owned, Holds
    <3>3. \A t \in StartsOf(actions') : t \in Elements(unused') <=> ~ Holds(t)'
      BY <1>2, <2>3, <2>5 DEF IInv, Owned
    <3> QED BY <3>2, <3>3 DEF Owned
  <2>9. Typed'
    <3>1. lastIndex \in Nat /\ lastIndex' \in Nat /\ MaxIndex \in Nat /\ lastIndex <= MaxIndex
      BY <2>3, SizeAssumption DEF IInv, Ranges, LaidOut, Typed
    <3>2. lastIndex' <= MaxIndex
      BY <2>3, <3>1
    <3>3. after.op = "register" => lastIndex' + after.size <= MaxIndex
      <4>1. after.size \in Nat
        BY DEF IInv, Typed, Calls
      <4>2. after.op = "register" => lastIndex + after.size <= MaxIndex
        BY DEF IInv, Typed
      <4> QED BY <2>3, <3>1, <4>1, <4>2, StillBelow
    <3> QED BY <1>1, <2>1, <3>2, <3>3 DEF IInv, Typed
  <2>10. Apart'
    BY <1>1, <1>2, <2>3, <2>5 DEF IInv, Apart
  <2> QED BY <2>7, <2>8, <2>9, <2>10 DEF IInv
<1> QED BY <1>3, <1>4

LEMMA StepIInv == IInv /\ [Next]_vars => IInv'
<1> SUFFICES ASSUME IInv, [Next]_vars PROVE IInv'
  OBVIOUS
<1>1. ASSUME NEW m \in Mapper, NEW size \in Size, Create(m, size) \/ Resize(m, size)
      PROVE  IInv'
  BY <1>1, CreateStep, ResizeStep
<1>2. ASSUME NEW m \in Mapper, NEW enabled \in BOOLEAN, SetEnabled(m, enabled)
      PROVE  IInv'
  <2>1. after.op # "destroy"
    BY <1>2 DEF SetEnabled, Returned, Nothing
  <2> QED BY <1>2, <2>1, EnableStep DEF SetEnabled
<1>3. ASSUME NEW m \in Mapper, DestroyMapper(m) PROVE IInv'
  BY <1>3, DestroyMapperStep
<1>4. ASSUME NEW m \in Mapper, NEW t \in Mapper, MoveAssign(m, t) PROVE IInv'
  BY <1>4, MoveAssignStep
<1>5. CASE Trim
  BY <1>5, TrimStep
<1>6. CASE Resized
  BY <1>6, ResizedStep
<1>7. CASE EnableResized
  <2>1. after.enabled \in BOOLEAN /\ after.op # "destroy"
    BY <1>7 DEF EnableResized, IInv, Typed, Calls
  <2> QED BY <1>7, <2>1, EnableStep DEF EnableResized
<1>8. CASE DestroyTemporary
  BY <1>8, DestroyTemporaryStep
<1>9. CASE UNCHANGED vars
  <2>1. Users' = Users /\ \A s : Holds(s)' <=> Holds(s)
    BY <1>9 DEF vars, Users, Holds
  <2> QED BY <1>9, <2>1 DEF vars, IInv, Typed, Ranges, Owned, Apart
<1> QED BY <1>1, <1>2, <1>3, <1>4, <1>5, <1>6, <1>7, <1>8, <1>9 DEF Next

LEMMA Inductive == Spec => []IInv
<1>1. IInv /\ [Next]_vars => IInv'
  BY StepIInv
<1> QED BY <1>1, InitIInv, PTL DEF Spec

-----------------------------------------------------------------------------

\* The state of the picking manager is always of its type.
THEOREM TypeCorrect == Spec => []TypeOK
<1>1. IInv => TypeOK
  <2> SUFFICES ASSUME IInv PROVE TypeOK
    OBVIOUS
  <2>1. /\ actions \in Seq(Action) /\ unused \in Seq(Nat) /\ held \in [Mapper -> Nat]
        /\ alive \subseteq Mapper /\ trimming \in BOOLEAN
    BY DEF IInv, Typed, Ranges, LaidOut
  <2>2. lastIndex \in Nat /\ lastIndex <= MaxIndex /\ MaxIndex \in Nat
    BY SizeAssumption DEF IInv, Typed, Ranges, LaidOut
  <2>3. 1 <= lastIndex
    <3>1. CASE actions = <<>>
      BY <3>1 DEF IInv, Ranges, LaidOut
    <3>2. CASE actions # <<>>
      <4>1. Len(actions) \in 1 .. Len(actions)
        BY <2>1, <3>2, ActionTypes, EmptySeq
      <4>2. /\ actions[Len(actions)].start \in Nat /\ actions[Len(actions)].capacity \in Nat
            /\ 1 <= actions[Len(actions)].start
            /\ lastIndex = actions[Len(actions)].start + actions[Len(actions)].capacity
        BY <2>1, <3>2, <4>1, ActionTypes DEF IInv, Ranges, LaidOut
      <4> QED BY <4>2
    <3> QED BY <3>1, <3>2
  <2>4. lastIndex \in 1 .. MaxIndex
    BY <2>2, <2>3
  <2> QED BY <2>1, <2>4 DEF TypeOK
<1> QED BY <1>1, Inductive, PTL

\* registerPickingAction and unregisterPickingAction leave no gap between the ranges
\* and no overlap, and no unused range at the end.
THEOREM NoGaps == Spec => []RangesFollow
<1>1. IInv => RangesFollow
  <2> SUFFICES ASSUME IInv PROVE RangesFollow
    OBVIOUS
  <2>1. DOMAIN actions = 1 .. Len(actions)
    BY ActionTypes DEF IInv, Ranges, LaidOut
  <2>2. \A k \in DOMAIN actions :
          /\ actions[k].size <= actions[k].capacity
          /\ actions[k].start = IF k = 1 THEN 1 ELSE actions[k - 1].start + actions[k - 1].capacity
    BY <2>1 DEF IInv, Ranges, LaidOut
  <2>3. lastIndex = IF actions = <<>> THEN 1 ELSE Last(actions).start + Last(actions).capacity
    BY DEF IInv, Ranges, LaidOut, Last
  <2>4. Returned /\ actions # <<>> => ~ Contains(unused, Last(actions).start)
    BY Terms DEF IInv, Ranges, Returned
  <2> QED BY <2>2, <2>3, <2>4 DEF RangesFollow
<1> QED BY <1>1, Inductive, PTL

\* Whatever mappers are made, resized, moved and destroyed, a range belongs to one of
\* them or waits among the unused ones.
THEOREM OneOwner == Spec => []RangesOwned
<1>1. IInv => RangesOwned
  <2> SUFFICES ASSUME IInv, Returned PROVE RangesOwned
    BY DEF RangesOwned
  <2>1. after.op # "destroy" /\ Users = alive
    BY DEF Returned, Nothing, Users
  <2>2. DOMAIN actions = 1 .. Len(actions) /\ DOMAIN unused = 1 .. Len(unused)
    BY ActionTypes, LenProperties DEF IInv, Ranges, LaidOut
  <2>3. ASSUME NEW k \in DOMAIN actions
        PROVE  LET unheld == \A m \in alive : held[m] # actions[k].start
               IN (Contains(unused, actions[k].start) <=> unheld) /\ (unheld <=> ~ actions[k].armed)
    <3>1. actions[k].start \in StartsOf(actions)
      BY DEF StartsOf
    <3>2. actions[k].start \in Elements(unused) <=> ~ Holds(actions[k].start)
      BY <3>1 DEF IInv, Owned
    <3>3. Holds(actions[k].start) <=> \E m \in alive : held[m] = actions[k].start
      BY <2>1 DEF Holds
    <3>4. actions[k].start \in ArmedOf(actions) <=> actions[k].armed
      BY <2>2, ArmedIs DEF IInv, Ranges
    <3> QED BY <3>1, <3>2, <3>3, <3>4, Terms DEF IInv, Ranges
  <2>4. \A m \in alive : held[m] = 0 \/ held[m] \in Starts
    BY <2>1, Terms DEF IInv, Owned
  <2>5. \A m \in Mapper \ alive : held[m] = 0
    BY DEF IInv, Apart
  <2>6. \A m, n \in Mapper : held[m] = held[n] => held[m] = 0 \/ m = n
    BY <2>1, <2>5 DEF IInv, Apart
  <2>7. ASSUME NEW j \in DOMAIN unused, NEW k \in DOMAIN unused, j < k
        PROVE  unused[j] # unused[k] /\ Capacity(unused[j]) <= Capacity(unused[k])
    <3>1. /\ Capacity(unused[j]) = CapacityOf(actions, unused[j])
          /\ Capacity(unused[k]) = CapacityOf(actions, unused[k])
      BY Terms
    <3> QED BY <2>2, <2>7, <3>1 DEF IInv, Ranges, Ordered
  <2> QED BY <2>3, <2>4, <2>5, <2>6, <2>7 DEF RangesOwned
<1> QED BY <1>1, Inductive, PTL

\* An id below the number of colours is the colour of a pixel.
LEMMA PixelIs ==
  ASSUME NEW id \in Nat, id < Colours
  PROVE  Pixel(id) = id
BY SizeAssumption DEF Pixel

\* getPickingActionFromIndex finds, from the colour of a pixel, the action of the mapper
\* that drew it.
THEOREM PixelsFound == Spec => []PixelFindsMapper
<1>1. IInv => PixelFindsMapper
  <2> SUFFICES ASSUME IInv, NEW m \in alive, NEW id \in Ids(m), id < Colours
               PROVE  Lookup(Pixel(id)) = At(held[m])
    BY DEF PixelFindsMapper
  <2>1. /\ actions \in Seq(Action) /\ DOMAIN actions = 1 .. Len(actions) /\ Len(actions) \in Nat
        /\ lastIndex \in Nat /\ Colours \in Nat
        /\ \A k \in 1 .. Len(actions) :
             actions[k].start \in Nat /\ actions[k].size \in Nat /\ actions[k].capacity \in Nat
    BY ActionTypes, SizeAssumption DEF IInv, Ranges, LaidOut
  <2>2. PICK k \in At(held[m]) :
          id >= actions[k].start /\ id < actions[k].start + actions[k].size
    BY DEF Ids
  <2>3. id \in Nat \ {0} /\ k \in 1 .. Len(actions) /\ actions[k].start = held[m]
    BY <2>1, <2>2 DEF Ids, At
  <2>4. At(held[m]) = {k}
    <3>1. ASSUME NEW j \in At(held[m]) PROVE j = k
      <4>1. j \in 1 .. Len(actions) /\ actions[j].start = actions[k].start
        BY <2>1, <2>3 DEF At
      <4>2. LaidOut(actions, lastIndex)
        BY DEF IInv, Ranges
      <4> QED BY <2>3, <4>1, <4>2, OneStart
    <3> QED BY <2>2, <3>1
  <2>5. id < actions[k].start + actions[k].capacity
    <3>1. actions[k].size <= actions[k].capacity
      BY <2>3 DEF IInv, Ranges, LaidOut
    <3> QED BY <2>1, <2>2, <2>3, <3>1
  <2>6. Pixel(id) = id
    BY <2>3, PixelIs
  <2>7. \A i, j \in 1 .. Len(actions) :
          i < j => actions[i].start + actions[i].capacity <= actions[j].start
    BY DEF IInv, Ranges, LaidOut
  <2>8. ASSUME NEW j \in 1 .. Len(actions), j > k PROVE actions[j].start > id
    <3>1. actions[k].start + actions[k].capacity <= actions[j].start
      BY <2>3, <2>7, <2>8
    <3> QED BY <2>1, <2>3, <2>5, <3>1
  <2>9. ASSUME NEW j \in 1 .. Len(actions), j < k PROVE ~ (id < actions[j].start + actions[j].size)
    <3>1. actions[j].start + actions[j].capacity <= actions[k].start
      BY <2>3, <2>7, <2>9
    <3>2. actions[j].size <= actions[j].capacity
      BY DEF IInv, Ranges, LaidOut
    <3>3. /\ actions[j].start \in Nat /\ actions[j].size \in Nat /\ actions[j].capacity \in Nat
          /\ actions[k].start \in Nat
      BY <2>1, <2>3
    <3>4. actions[j].start + actions[j].size <= actions[k].start
      BY <3>1, <3>2, <3>3
    <3> QED BY <2>2, <2>3, <3>3, <3>4
  <2>10. k \in Lookup(id)
    BY <2>1, <2>2, <2>3, <2>8 DEF Lookup
  <2>11. ASSUME NEW j \in Lookup(id) PROVE j = k
    <3>1. j \in 1 .. Len(actions) /\ actions[j].start <= id /\ id < actions[j].start + actions[j].size
      BY <2>1 DEF Lookup
    <3>2. ~ (j < k)
      BY <2>9, <3>1
    <3>3. ~ (j > k)
      BY <2>1, <2>3, <2>8, <3>1
    <3> QED BY <2>1, <2>3, <3>1, <3>2, <3>3
  <2> QED BY <2>4, <2>6, <2>10, <2>11
<1> QED BY <1>1, Inductive, PTL

-----------------------------------------------------------------------------
(* Who else is touched when a mapper changes.                              *)

\* The action that starts at s.
RangeAt(a, s) == {a[k] : k \in {j \in DOMAIN a : a[j].start = s}}

LEMMA UpdatedElsewhere ==
  ASSUME NEW a, NEW b, NEW s, DOMAIN b = DOMAIN a,
         \A j \in DOMAIN a : IF a[j].start = s THEN b[j].start = s ELSE b[j] = a[j],
         NEW t, t # s
  PROVE  RangeAt(b, t) = RangeAt(a, t)
BY DEF RangeAt

LEMMA AppendedElsewhere ==
  ASSUME NEW a \in Seq(Action), NEW c \in Action, NEW t, t # c.start
  PROVE  RangeAt(Append(a, c), t) = RangeAt(a, t)
<1>1. /\ Len(a) \in Nat /\ DOMAIN a = 1 .. Len(a) /\ DOMAIN Append(a, c) = 1 .. Len(a) + 1
      /\ Append(a, c)[Len(a) + 1] = c /\ \A k \in 1 .. Len(a) : Append(a, c)[k] = a[k]
  BY AppendProperties, LenProperties
<1> QED BY <1>1 DEF RangeAt

LEMMA PoppedElsewhere ==
  ASSUME NEW a \in Seq(Action), a # <<>>, NEW t, t # Last(a).start
  PROVE  RangeAt(Front(a), t) = RangeAt(a, t)
<1>1. /\ Len(a) \in Nat \ {0} /\ DOMAIN a = 1 .. Len(a) /\ DOMAIN Front(a) = 1 .. Len(a) - 1
      /\ \A k \in 1 .. Len(a) - 1 : Front(a)[k] = a[k]
  BY FrontProperties, LenProperties
<1>2. \A k \in 1 .. Len(a) : a[k].start = t => k \in 1 .. Len(a) - 1
  BY <1>1 DEF Last
<1> HIDE DEF Front
<1>3. {k \in DOMAIN Front(a) : Front(a)[k].start = t} = {k \in DOMAIN a : a[k].start = t}
  BY <1>1, <1>2
<1> QED BY <1>1, <1>2, <1>3 DEF RangeAt

\* Registering and unregistering a range leaves the others alone that are in use.
LEMMA RegisterElsewhere ==
  ASSUME Ranges, NEW m, NEW size \in Nat, Register(m, size),
         NEW t \in StartsOf(actions) \ Elements(unused)
  PROVE  RangeAt(actions', t) = RangeAt(actions, t)
<1>1. CASE Extend(m, size)
  <2> DEFINE c == [start |-> lastIndex, size |-> size, capacity |-> size,
                   armed |-> TRUE, enabled |-> TRUE]
  <2>1. /\ actions \in Seq(Action) /\ lastIndex \in Nat /\ Len(actions) \in Nat
        /\ DOMAIN actions = 1 .. Len(actions)
    BY ActionTypes DEF Ranges, LaidOut
  <2>2. c \in Action /\ c.start = lastIndex
    BY <2>1 DEF Action
  <2>3. actions' = Append(actions, c)
    BY <1>1 DEF Extend
  <2> HIDE DEF c
  <2>4. t # lastIndex
    <3>1. PICK k \in 1 .. Len(actions) : t = actions[k].start
      BY <2>1 DEF StartsOf
    <3>2. t \in Nat /\ actions[k].capacity \in Nat /\ 0 < actions[k].capacity
          /\ t + actions[k].capacity <= lastIndex
      BY <3>1, ActionTypes DEF Ranges, LaidOut
    <3> QED BY <2>1, <3>2
  <2> QED BY <2>1, <2>2, <2>3, <2>4, AppendedElsewhere
<1>2. ASSUME NEW k \in Fits(size), Reuse(m, size, k) PROVE RangeAt(actions', t) = RangeAt(actions, t)
  <2>1. /\ actions \in Seq(Action) /\ DOMAIN actions = 1 .. Len(actions)
        /\ \A j \in 1 .. Len(actions) : actions[j] \in Action
    BY ActionTypes DEF Ranges, LaidOut
  <2>2. DOMAIN unused = 1 .. Len(unused) /\ k \in DOMAIN unused
    BY LenProperties DEF Ranges, Fits
  <2> DEFINE s == unused[k]
  <2>3. s # t
    BY <2>2 DEF Elements
  <2>4. DOMAIN actions' = DOMAIN actions
        /\ \A j \in DOMAIN actions : IF actions[j].start = s THEN actions'[j].start = s
                                                             ELSE actions'[j] = actions[j]
    BY <1>2, <2>1 DEF Reuse, Action
  <2> DEFINE a == actions
             b == actions'
  <2>5. DOMAIN b = DOMAIN a
        /\ \A j \in DOMAIN a : IF a[j].start = s THEN b[j].start = s ELSE b[j] = a[j]
    BY <2>4
  <2> HIDE DEF s, a, b
  <2>6. RangeAt(b, t) = RangeAt(a, t)
    BY <2>3, <2>5, UpdatedElsewhere
  <2> QED BY <2>6 DEF a, b
<1> QED BY <1>1, <1>2 DEF Register

LEMMA PopElsewhere ==
  ASSUME Ranges, actions # <<>>, PopBack, NEW t, t # Last(actions).start
  PROVE  RangeAt(actions', t) = RangeAt(actions, t)
BY PoppedElsewhere DEF PopBack, Ranges, LaidOut

LEMMA UnregisterElsewhere ==
  ASSUME Ranges, NEW s, Unregister(s), NEW t, t # s
  PROVE  RangeAt(actions', t) = RangeAt(actions, t)
<1>1. CASE UNCHANGED actions
  BY <1>1
<1>2. CASE s \in Starts /\ Last(actions).start = s /\ PopBack
  <2>1. actions # <<>>
    BY <1>2 DEF Starts
  <2> QED BY <1>2, <2>1, PopElsewhere
<1>3. CASE Keep(s)
  <2>1. /\ DOMAIN actions = 1 .. Len(actions)
        /\ \A j \in 1 .. Len(actions) : actions[j] \in Action
    BY ActionTypes DEF Ranges, LaidOut
  <2>2. DOMAIN actions' = DOMAIN actions
        /\ \A j \in DOMAIN actions : IF actions[j].start = s THEN actions'[j].start = s
                                                             ELSE actions'[j] = actions[j]
    BY <1>3, <2>1 DEF Keep, Action
  <2> QED BY <2>2, UpdatedElsewhere
<1> QED BY <1>1, <1>2, <1>3 DEF Unregister

LEMMA EnableElsewhere ==
  ASSUME Ranges, NEW m, NEW enabled, Enable(m, enabled), NEW t, t # held[m]
  PROVE  RangeAt(actions', t) = RangeAt(actions, t)
<1>1. /\ DOMAIN actions = 1 .. Len(actions)
      /\ \A j \in 1 .. Len(actions) : actions[j] \in Action
  BY ActionTypes DEF Ranges, LaidOut
<1>2. DOMAIN actions' = DOMAIN actions
      /\ \A j \in DOMAIN actions : IF actions[j].start = held[m] THEN actions'[j].start = held[m]
                                                                 ELSE actions'[j] = actions[j]
  BY <1>1 DEF Enable, Action
<1> QED BY <1>2, UpdatedElsewhere

\* The mappers outside of ms have what they had.
Unaffected(ms) ==
  \A n \in Mapper \ ms :
    /\ n \in alive' <=> n \in alive
    /\ held'[n] = held[n]
    /\ n \in alive /\ held[n] # 0 => RangeAt(actions', held[n]) = RangeAt(actions, held[n])

\* The range of a mapper is in use.
LEMMA HeldApart ==
  ASSUME IInv, NEW n \in Users, held[n] # 0
  PROVE  held[n] \in StartsOf(actions) \ Elements(unused)
BY DEF IInv, Owned, Holds

\* The one that is in the middle of a call.
Callee == IF after.op = "nothing" THEN {} ELSE {after.mapper}

LEMMA MapperElsewhere ==
  ASSUME IInv, NEW m \in Mapper, NEW size \in Nat, NEW enabled \in BOOLEAN,
         Create(m, size) \/ Resize(m, size) \/ SetEnabled(m, enabled) \/ DestroyMapper(m)
  PROVE  Unaffected({m}) /\ Callee' \subseteq {m}
<1>1. Returned /\ after.op = "nothing" /\ Users = alive
  BY DEF Create, Resize, SetEnabled, DestroyMapper, Returned, Nothing, Users
<1>2. held \in [Mapper -> Nat] /\ alive \subseteq Mapper
  BY DEF IInv, Typed
<1> SUFFICES ASSUME NEW n \in Mapper \ {m}
             PROVE  /\ n \in alive' <=> n \in alive
                    /\ held'[n] = held[n]
                    /\ n \in alive /\ held[n] # 0 => RangeAt(actions', held[n]) = RangeAt(actions, held[n])
                    /\ Callee' \subseteq {m}
  <2>1. CASE \E n \in Mapper : n # m
    BY <2>1 DEF Unaffected
  <2>2. Callee' \subseteq {m}
    BY <1>1 DEF Create, Resize, SetEnabled, DestroyMapper, Callee, Nothing
  <2> QED BY <2>2 DEF Unaffected
<1>3. /\ n \in alive /\ held[n] # 0 => held[n] \in StartsOf(actions) \ Elements(unused)
      /\ n \in alive /\ held[n] # 0 => held[n] # held[m]
  BY <1>1, HeldApart DEF IInv, Apart
<1>4. CASE Create(m, size)
  <2>1. held' = held \/ \E s : held' = [held EXCEPT ![m] = s]
    BY <1>4 DEF Create, Register, Extend, Reuse
  <2>2. n \in alive /\ held[n] # 0 => RangeAt(actions', held[n]) = RangeAt(actions, held[n])
    BY <1>3, <1>4, RegisterElsewhere DEF Create, IInv
  <2> QED BY <1>1, <1>2, <1>4, <2>1, <2>2 DEF Create, Callee
<1>5. CASE Resize(m, size)
  <2>1. n \in alive /\ held[n] # 0 => RangeAt(actions', held[n]) = RangeAt(actions, held[n])
    BY <1>3, <1>5, UnregisterElsewhere DEF Resize, IInv
  <2> QED BY <1>2, <1>5, <2>1 DEF Resize, Callee, Nothing
<1>6. CASE SetEnabled(m, enabled)
  <2>1. n \in alive /\ held[n] # 0 => RangeAt(actions', held[n]) = RangeAt(actions, held[n])
    BY <1>3, <1>6, EnableElsewhere DEF SetEnabled, IInv
  <2> QED BY <1>1, <1>6, <2>1 DEF SetEnabled, Callee
<1>7. CASE DestroyMapper(m)
  <2>1. n \in alive /\ held[n] # 0 => RangeAt(actions', held[n]) = RangeAt(actions, held[n])
    BY <1>3, <1>7, UnregisterElsewhere DEF DestroyMapper, Destroy, IInv
  <2> QED BY <1>1, <1>2, <1>7, <2>1 DEF DestroyMapper, Destroy, Callee
<1> QED BY <1>4, <1>5, <1>6, <1>7

LEMMA MoveElsewhere ==
  ASSUME IInv, NEW m \in Mapper, NEW t \in Mapper, MoveAssign(m, t)
  PROVE  Unaffected({m, t}) /\ Callee' = {t}
<1>1. Returned /\ after.op = "nothing" /\ Users = alive
  BY DEF MoveAssign, Returned, Nothing, Users
<1>2. held \in [Mapper -> Nat]
  BY DEF IInv, Typed
<1>3. Callee' = {t}
  BY DEF MoveAssign, Nothing, Callee
<1>4. ASSUME NEW n \in Mapper \ {m, t}
      PROVE  /\ n \in alive' <=> n \in alive
             /\ held'[n] = held[n]
             /\ n \in alive /\ held[n] # 0 => RangeAt(actions', held[n]) = RangeAt(actions, held[n])
  <2>1. m \in alive /\ (n \in alive /\ held[n] # 0 => held[n] # held[m])
    BY <1>1 DEF IInv, Apart, MoveAssign
  <2>2. n \in alive /\ held[n] # 0 => RangeAt(actions', held[n]) = RangeAt(actions, held[n])
    BY <2>1, UnregisterElsewhere DEF MoveAssign, IInv
  <2> QED BY <1>2, <2>2 DEF MoveAssign
<1> QED BY <1>3, <1>4 DEF Unaffected

LEMMA CallElsewhere ==
  ASSUME IInv, Trim \/ Resized \/ EnableResized \/ DestroyTemporary
  PROVE  Unaffected(Callee) /\ Callee' \subseteq Callee
<1>1. /\ held \in [Mapper -> Nat] /\ alive \subseteq Mapper /\ after \in Calls
      /\ after.op = "register" => after.size \in Nat
      /\ Users = alive \ (IF after.op = "destroy" THEN {after.mapper} ELSE {})
  BY DEF IInv, Typed, Users, Calls
<1>2. Callee' \subseteq Callee
  <2>1. CASE Trim
    BY <2>1 DEF Trim, Callee
  <2>2. CASE Resized
    BY <2>2 DEF Resized, Nothing, Callee
  <2>3. CASE EnableResized \/ DestroyTemporary
    BY <2>3 DEF EnableResized, DestroyTemporary, Nothing, Callee
  <2> QED BY <2>1, <2>2, <2>3
<1>3. ASSUME NEW n \in Mapper \ Callee
      PROVE  /\ n \in alive' <=> n \in alive
             /\ held'[n] = held[n]
             /\ n \in alive /\ held[n] # 0 => RangeAt(actions', held[n]) = RangeAt(actions, held[n])
  <2>1. n \in alive /\ held[n] # 0 => held[n] \in StartsOf(actions) \ Elements(unused)
    <3>1. n \in alive => n \in Users
      BY <1>1 DEF Callee
    <3> QED BY <3>1, HeldApart
  <2>2. CASE Trim
    <3>1. CASE UNCHANGED actions
      BY <2>2, <3>1 DEF Trim
    <3>2. CASE actions # <<>> /\ Contains(unused, Last(actions).start) /\ PopBack
      <4>1. Last(actions).start \in Elements(unused)
        BY <3>2, Terms
      <4>2. n \in alive /\ held[n] # 0 => RangeAt(actions', held[n]) = RangeAt(actions, held[n])
        BY <2>1, <3>2, <4>1, PopElsewhere DEF IInv
      <4> QED BY <2>2, <4>2 DEF Trim
    <3> QED BY <2>2, <3>1, <3>2 DEF Trim
  <2>3. CASE Resized
    <3>1. n # after.mapper /\ Register(after.mapper, after.size) /\ after.size \in Nat /\ alive' = alive
      BY <1>1, <2>3 DEF Resized, Callee
    <3>2. \E s : held' = [held EXCEPT ![after.mapper] = s]
      BY <3>1 DEF Register, Extend, Reuse
    <3>3. n \in alive /\ held[n] # 0 => RangeAt(actions', held[n]) = RangeAt(actions, held[n])
      BY <2>1, <3>1, RegisterElsewhere DEF IInv
    <3> QED BY <1>1, <3>1, <3>2, <3>3
  <2>4. CASE EnableResized
    <3>1. n # after.mapper /\ Enable(after.mapper, after.enabled) /\ UNCHANGED <<held, alive>>
          /\ after.op = "enable" /\ after.mapper \in alive
      BY <1>1, <2>4 DEF EnableResized, Callee, IInv, Typed
    <3>2. n \in alive /\ held[n] # 0 => held[n] # held[after.mapper]
      BY <1>1, <3>1 DEF IInv, Apart
    <3>3. n \in alive /\ held[n] # 0 => RangeAt(actions', held[n]) = RangeAt(actions, held[n])
      BY <3>1, <3>2, EnableElsewhere DEF IInv
    <3> QED BY <3>1, <3>3
  <2>5. CASE DestroyTemporary
    <3> DEFINE t == after.mapper
    <3>1. n # t /\ Unregister(held[t]) /\ held' = [held EXCEPT ![t] = 0] /\ alive' = alive \ {t}
          /\ after.op = "destroy"
      BY <1>1, <2>5 DEF DestroyTemporary, Destroy, Callee
    <3>2. held[t] \notin StartsOf(actions) \/ held[t] \in Elements(unused)
      BY <3>1 DEF IInv, Apart
    <3>3. n \in alive /\ held[n] # 0 => RangeAt(actions', held[n]) = RangeAt(actions, held[n])
      BY <2>1, <3>1, <3>2, UnregisterElsewhere DEF IInv
    <3> QED BY <1>1, <3>1, <3>3
  <2> QED BY <2>2, <2>3, <2>4, <2>5
<1> QED BY <1>2, <1>3 DEF Unaffected

-----------------------------------------------------------------------------
(* Who gets the events for an id.                                          *)

LookupOf(a, id) ==
  {k \in DOMAIN a :
     /\ id # 0 /\ a[k].start <= id /\ id < a[k].start + a[k].size
     /\ \A j \in DOMAIN a : j > k => a[j].start > id}

\* The range that starts at s has the id, and is enabled.
Reaches(a, s, id) == \E r \in RangeAt(a, s) : s <= id /\ id < s + r.size /\ r.enabled

\* As ranges do not overlap, an id that lies in one is found there.
LEMMA LookupFinds ==
  ASSUME NEW a, NEW n, LaidOut(a, n), NEW s, NEW id \in Nat
  PROVE  (\E k \in LookupOf(a, id) : a[k].start = s /\ a[k].enabled) <=> Reaches(a, s, id)
<1>1. /\ DOMAIN a = 1 .. Len(a) /\ Len(a) \in Nat
      /\ \A k \in 1 .. Len(a) : a[k].start \in Nat /\ a[k].size \in Nat /\ a[k].capacity \in Nat
  BY ActionTypes DEF LaidOut
<1>2. ASSUME NEW k \in LookupOf(a, id), a[k].start = s, a[k].enabled PROVE Reaches(a, s, id)
  BY <1>2 DEF LookupOf, Reaches, RangeAt
<1>3. ASSUME NEW k \in DOMAIN a, a[k].start = s, s <= id, id < s + a[k].size, a[k].enabled
      PROVE  k \in LookupOf(a, id)
  <2>1. 1 <= s /\ a[k].size <= a[k].capacity /\ s \in Nat
    BY <1>1, <1>3 DEF LaidOut
  <2>2. ASSUME NEW j \in DOMAIN a, j > k PROVE a[j].start > id
    <3>1. a[k].start + a[k].capacity <= a[j].start
      BY <1>1, <2>2 DEF LaidOut
    <3> QED BY <1>1, <1>3, <2>1, <3>1
  <2> QED BY <1>1, <1>3, <2>1, <2>2 DEF LookupOf
<1> QED BY <1>2, <1>3 DEF Reaches, RangeAt

\* A mapper that nothing happens to gets the same events as before.
LEMMA ReceiverStays ==
  ASSUME IInv, IInv', NEW ms, Unaffected(ms), NEW n \in Mapper \ ms,
         active \in Nat, active' = active
  PROVE  n \in Receiver(active)' <=> n \in Receiver(active)
<1>1. n \in Receiver(active) <=> n \in alive /\ Reaches(actions, held[n], active)
  <2>1. n \in Receiver(active) <=>
          n \in alive /\ \E k \in LookupOf(actions, active) : actions[k].start = held[n] /\ actions[k].enabled
    BY DEF Receiver, Lookup, LookupOf
  <2> QED BY <2>1, LookupFinds DEF IInv, Ranges
<1>2. n \in Receiver(active)' <=> n \in alive' /\ Reaches(actions', held'[n], active)
  <2>1. n \in Receiver(active)' <=>
          n \in alive' /\ \E k \in LookupOf(actions', active) : actions'[k].start = held'[n] /\ actions'[k].enabled
    BY DEF Receiver, Lookup, LookupOf
  <2> QED BY <2>1, LookupFinds DEF IInv, Ranges
<1>3. CASE held[n] = 0
  <2>1. StartsOf(actions) \subseteq Nat \ {0} /\ StartsOf(actions') \subseteq Nat \ {0}
    BY StartsArePositive DEF IInv, Ranges
  <2>2. RangeAt(actions, 0) = {} /\ RangeAt(actions', 0) = {}
    BY <2>1 DEF RangeAt, StartsOf
  <2> QED BY <1>1, <1>2, <1>3, <2>2 DEF Reaches, Unaffected
<1>4. CASE held[n] # 0
  BY <1>1, <1>2, <1>4 DEF Reaches, Unaffected
<1> QED BY <1>3, <1>4

-----------------------------------------------------------------------------
(* What the mappers were told.                                             *)

\* These mappers were told that the pointer is over them, and of these buttons at most,
\* if it is inside and they are at the receiving end, and else of neither.
Told(e, d, known, to, inside, pressed) ==
  \A m \in known : /\ e[m] = IF inside /\ m \in to THEN 1 ELSE 0
                   /\ d[m] \subseteq IF inside /\ m \in to THEN pressed ELSE {}

Knows(inside, pressed) == Told(entered, down, Mapper \ stale, Receiver(active), inside, pressed)

\* The button that is about to be released.
Released(press) == IF press = "Release" THEN {item} ELSE {}

\* The pointer comes to an id with a press or without.
Enters(press) ==
  \/ press = "None" /\ fsm = "hasId"
  \/ press = "Press" /\ fsm = "pressing" /\ item \in buttons

\* The transition has been run.
Done ==
  \/ fsm = "idle" /\ Knows(FALSE, {})
  \/ fsm = "hasId" /\ Knows(TRUE, {})
  \/ fsm = "pressing" /\ Knows(TRUE, buttons)

\* The pointer has left, or was nowhere.
Outside ==
  \/ sends = <<Uid(0)>> /\ fsm = "idle"
  \/ \E press \in {"None", "Press"} :
       /\ Enters(press)
       /\ \/ sends = <<Send(press, "Enter")>>
          \/ \E id \in Nat : sends = <<Uid(id), Send(press, "Enter")>>

\* It is about to leave.
Leaves(press) ==
  \/ sends = <<Send(press, "Exit"), Uid(0)>> /\ fsm = "idle"
  \/ \E next \in {"None", "Press"} : \E id \in Nat :
       Enters(next) /\ sends = <<Send(press, "Exit"), Uid(id), Send(next, "Enter")>>

\* It stays where it is.
Stays(press) ==
  /\ \E hover : hover \notin {"Enter", "Exit"} /\ sends = <<Send(press, hover)>>
  /\ \/ fsm = "hasId" /\ press # "Press" /\ Knows(TRUE, Released(press))
     \/ fsm = "pressing" /\ (press = "Press" => item \in buttons)
        /\ Knows(TRUE, buttons \cup Released(press))

MouseInv ==
  /\ active \in Nat /\ Callee \subseteq stale
  /\ \/ sends = <<>> /\ Done
     \/ Outside /\ Knows(FALSE, {})
     \/ \E press \in {"None", "Release"} : Leaves(press) /\ Knows(TRUE, Released(press))
     \/ \E press : Stays(press)

\* The four forms of the actions that are still to be run differ in the first of them.
LEMMA FirstSend ==
  /\ Outside => sends # <<>> /\ (sends[1].op = "send" => sends[1].hover = "Enter")
  /\ \A press : Leaves(press) => sends # <<>> /\ sends[1] = Send(press, "Exit")
  /\ \A press : Stays(press) => /\ sends # <<>> /\ sends[1].op = "send" /\ sends[1].press = press
                                /\ sends[1].hover \notin {"Enter", "Exit"}
<1>1. \A press, hover : LET s == Send(press, hover)
                        IN s.op = "send" /\ s.press = press /\ s.hover = hover
  BY DEF Send
<1>2. \A id : Uid(id).op = "uid" /\ Uid(id).id = id
  BY DEF Uid
<1>3. \A a, b, c : <<a>> # <<>> /\ <<a>>[1] = a /\ <<a, b>> # <<>> /\ <<a, b>>[1] = a
                  /\ <<a, b, c>> # <<>> /\ <<a, b, c>>[1] = a
  OBVIOUS
<1>4. Outside => sends # <<>> /\ (sends[1].op = "send" => sends[1].hover = "Enter")
  BY <1>1, <1>2, <1>3 DEF Outside
<1>5. \A press : Leaves(press) => sends # <<>> /\ sends[1] = Send(press, "Exit")
  BY <1>3 DEF Leaves
<1>6. \A press : Stays(press) => /\ sends # <<>> /\ sends[1].op = "send" /\ sends[1].press = press
                                /\ sends[1].hover \notin {"Enter", "Exit"}
  BY <1>1, <1>3 DEF Stays
<1> QED BY <1>4, <1>5, <1>6

\* When everything is run, what the mappers know is settled.
LEMMA DoneWhenQuiet ==
  ASSUME MouseInv, sends = <<>>
  PROVE  Done
BY FirstSend DEF MouseInv

\* What the rows of the table do, by the state they are for.
Pressed(press) == IF press = "Press" THEN "pressing" ELSE "hasId"

Entering(r, press) == r.to = Pressed(press) /\ (press = "Press" => r.event = "Press")

IdleRow(r, id) ==
  \E press \in {"None", "Press"} : r.do = Enter(press, id) /\ Entering(r, press)

HasIdRow(r, id) ==
  \/ \E press, hover :
       /\ r.do = Stay(press, hover) /\ hover \notin {"Enter", "Exit"}
       /\ press # "Release" /\ Entering(r, press)
  \/ r.do = Leave("None") \o <<Uid(0)>> /\ r.to = "idle"
  \/ \E press \in {"None", "Press"} : r.do = Leave("None") \o Enter(press, id) /\ Entering(r, press)

PressingRow(r, id, up) ==
  \/ \E press, hover :
       /\ r.do = Stay(press, hover) /\ hover \notin {"Enter", "Exit"}
       /\ press = "Release" <=> r.event = "Release"
       /\ press = "Press" => r.event = "Press"
       /\ r.to = "pressing" \/ (r.to = "hasId" /\ press = "Release" /\ up)
  \/ up /\ r.event = "Release" /\ r.do = Leave("Release") \o <<Uid(0)>> /\ r.to = "idle"
  \/ up /\ r.event = "Release" /\ r.do = Leave("Release") \o Enter("None", id) /\ r.to = "hasId"

LEMMA RowsOf ==
  ASSUME NEW id \in Nat, NEW up \in BOOLEAN, NEW r \in Table(id, up), r.guard
  PROVE  \/ r.from = "idle" /\ IdleRow(r, id)
         \/ r.from = "hasId" /\ HasIdRow(r, id)
         \/ r.from = "pressing" /\ PressingRow(r, id, up)
<1> DEFINE cat(s, t) == s \o t
           row(from, event, guard, do, to) ==
             [from |-> from, event |-> event, guard |-> guard, do |-> do, to |-> to]
           is(from, event, do, to) ==
             r.from = from /\ r.event = event /\ r.do = do /\ r.to = to
<1>1. \/ id # 0 /\ up /\ is("idle", "Move", Enter("None", id), "hasId")
      \/ id # 0 /\ is("idle", "Press", Enter("Press", id), "pressing")
      \/ id # 0 /\ is("idle", "Release", Enter("None", id), "hasId")
      \/ is("hasId", "Move", Stay("None", "Move"), "hasId")
      \/ id = 0 /\ is("hasId", "Move", cat(Leave("None"), <<Uid(id)>>), "idle")
      \/ is("hasId", "Move", cat(Leave("None"), Enter("None", id)), "hasId")
      \/ is("hasId", "Press", Stay("Press", "None"), "pressing")
      \/ is("hasId", "Press", cat(Leave("None"), Enter("Press", id)), "pressing")
      \/ is("pressing", "Move", Stay("Move", "Move"), "pressing")
      \/ up /\ is("pressing", "Release", Stay("Release", "None"), "hasId")
      \/ id = 0 /\ up /\ is("pressing", "Release", cat(Leave("Release"), <<Uid(id)>>), "idle")
      \/ up /\ is("pressing", "Release", cat(Leave("Release"), Enter("None", id)), "hasId")
      \/ is("pressing", "Release", Stay("Release", "None"), "pressing")
      \/ is("pressing", "Press", Stay("Press", "None"), "pressing")
      \/ is("hasId", "DblClk", Stay("DoubleClick", "None"), "hasId")
      \/ is("pressing", "DblClk", Stay("DoubleClick", "None"), "pressing")
      \/ is("hasId", "Wheel", Stay("None", "None"), "hasId")
      \/ is("pressing", "Wheel", Stay("None", "None"), "pressing")
  <2>1. \/ r = row("idle", "Move", ~ id = 0 /\ up, Enter("None", id), "hasId")
        \/ r = row("idle", "Press", ~ id = 0, Enter("Press", id), "pressing")
        \/ r = row("idle", "Release", ~ id = 0, Enter("None", id), "hasId")
        \/ r = row("hasId", "Move", id = active, Stay("None", "Move"), "hasId")
        \/ r = row("hasId", "Move", id = 0, cat(Leave("None"), <<Uid(id)>>), "idle")
        \/ r = row("hasId", "Move", id # active /\ id # 0, cat(Leave("None"), Enter("None", id)), "hasId")
        \/ r = row("hasId", "Press", id = active, Stay("Press", "None"), "pressing")
        \/ r = row("hasId", "Press", id # active /\ id # 0, cat(Leave("None"), Enter("Press", id)), "pressing")
        \/ r = row("pressing", "Move", TRUE, Stay("Move", "Move"), "pressing")
        \/ r = row("pressing", "Release", id = active /\ up, Stay("Release", "None"), "hasId")
        \/ r = row("pressing", "Release", id = 0 /\ up, cat(Leave("Release"), <<Uid(id)>>), "idle")
        \/ r = row("pressing", "Release", (id # active /\ id # 0) /\ up, cat(Leave("Release"), Enter("None", id)), "hasId")
        \/ r = row("pressing", "Release", ~ up, Stay("Release", "None"), "pressing")
        \/ r = row("pressing", "Press", TRUE, Stay("Press", "None"), "pressing")
        \/ r = row("hasId", "DblClk", id = active, Stay("DoubleClick", "None"), "hasId")
        \/ r = row("pressing", "DblClk", TRUE, Stay("DoubleClick", "None"), "pressing")
        \/ r = row("hasId", "Wheel", id = active, Stay("None", "None"), "hasId")
        \/ r = row("pressing", "Wheel", TRUE, Stay("None", "None"), "pressing")
    BY DEF Table
  <2> HIDE DEF cat
  <2>2. CASE r = row("idle", "Move", ~ id = 0 /\ up, Enter("None", id), "hasId")
    <3>1. id # 0 /\ up /\ is("idle", "Move", Enter("None", id), "hasId")
      BY <2>2, Zenon
    <3> QED BY <3>1
  <2>3. CASE r = row("idle", "Press", ~ id = 0, Enter("Press", id), "pressing")
    <3>1. id # 0 /\ is("idle", "Press", Enter("Press", id), "pressing")
      BY <2>3, Zenon
    <3> QED BY <3>1
  <2>4. CASE r = row("idle", "Release", ~ id = 0, Enter("None", id), "hasId")
    <3>1. id # 0 /\ is("idle", "Release", Enter("None", id), "hasId")
      BY <2>4, Zenon
    <3> QED BY <3>1
  <2>5. CASE r = row("hasId", "Move", id = active, Stay("None", "Move"), "hasId")
    <3>1. is("hasId", "Move", Stay("None", "Move"), "hasId")
      BY <2>5, Zenon
    <3> QED BY <3>1
  <2>6. CASE r = row("hasId", "Move", id = 0, cat(Leave("None"), <<Uid(id)>>), "idle")
    <3>1. id = 0 /\ is("hasId", "Move", cat(Leave("None"), <<Uid(id)>>), "idle")
      BY <2>6, Zenon
    <3> QED BY <3>1
  <2>7. CASE r = row("hasId", "Move", id # active /\ id # 0, cat(Leave("None"), Enter("None", id)), "hasId")
    <3>1. is("hasId", "Move", cat(Leave("None"), Enter("None", id)), "hasId")
      BY <2>7, Zenon
    <3> QED BY <3>1
  <2>8. CASE r = row("hasId", "Press", id = active, Stay("Press", "None"), "pressing")
    <3>1. is("hasId", "Press", Stay("Press", "None"), "pressing")
      BY <2>8, Zenon
    <3> QED BY <3>1
  <2>9. CASE r = row("hasId", "Press", id # active /\ id # 0, cat(Leave("None"), Enter("Press", id)), "pressing")
    <3>1. is("hasId", "Press", cat(Leave("None"), Enter("Press", id)), "pressing")
      BY <2>9, Zenon
    <3> QED BY <3>1
  <2>10. CASE r = row("pressing", "Move", TRUE, Stay("Move", "Move"), "pressing")
    <3>1. is("pressing", "Move", Stay("Move", "Move"), "pressing")
      BY <2>10, Zenon
    <3> QED BY <3>1
  <2>11. CASE r = row("pressing", "Release", id = active /\ up, Stay("Release", "None"), "hasId")
    <3>1. up /\ is("pressing", "Release", Stay("Release", "None"), "hasId")
      BY <2>11, Zenon
    <3> QED BY <3>1
  <2>12. CASE r = row("pressing", "Release", id = 0 /\ up, cat(Leave("Release"), <<Uid(id)>>), "idle")
    <3>1. id = 0 /\ up /\ is("pressing", "Release", cat(Leave("Release"), <<Uid(id)>>), "idle")
      BY <2>12, Zenon
    <3> QED BY <3>1
  <2>13. CASE r = row("pressing", "Release", (id # active /\ id # 0) /\ up, cat(Leave("Release"), Enter("None", id)), "hasId")
    <3>1. up /\ is("pressing", "Release", cat(Leave("Release"), Enter("None", id)), "hasId")
      BY <2>13, Zenon
    <3> QED BY <3>1
  <2>14. CASE r = row("pressing", "Release", ~ up, Stay("Release", "None"), "pressing")
    <3>1. is("pressing", "Release", Stay("Release", "None"), "pressing")
      BY <2>14, Zenon
    <3> QED BY <3>1
  <2>15. CASE r = row("pressing", "Press", TRUE, Stay("Press", "None"), "pressing")
    <3>1. is("pressing", "Press", Stay("Press", "None"), "pressing")
      BY <2>15, Zenon
    <3> QED BY <3>1
  <2>16. CASE r = row("hasId", "DblClk", id = active, Stay("DoubleClick", "None"), "hasId")
    <3>1. is("hasId", "DblClk", Stay("DoubleClick", "None"), "hasId")
      BY <2>16, Zenon
    <3> QED BY <3>1
  <2>17. CASE r = row("pressing", "DblClk", TRUE, Stay("DoubleClick", "None"), "pressing")
    <3>1. is("pressing", "DblClk", Stay("DoubleClick", "None"), "pressing")
      BY <2>17, Zenon
    <3> QED BY <3>1
  <2>18. CASE r = row("hasId", "Wheel", id = active, Stay("None", "None"), "hasId")
    <3>1. is("hasId", "Wheel", Stay("None", "None"), "hasId")
      BY <2>18, Zenon
    <3> QED BY <3>1
  <2>19. CASE r = row("pressing", "Wheel", TRUE, Stay("None", "None"), "pressing")
    <3>1. is("pressing", "Wheel", Stay("None", "None"), "pressing")
      BY <2>19, Zenon
    <3> QED BY <3>1
  <2> QED BY <2>1, <2>2, <2>3, <2>4, <2>5, <2>6, <2>7, <2>8, <2>9, <2>10,
             <2>11, <2>12, <2>13, <2>14, <2>15, <2>16, <2>17, <2>18, <2>19
<1> HIDE DEF cat
<1>2. CASE id # 0 /\ up /\ is("idle", "Move", Enter("None", id), "hasId")
  BY <1>2 DEF IdleRow, Entering, Pressed
<1>3. CASE id # 0 /\ is("idle", "Press", Enter("Press", id), "pressing")
  BY <1>3 DEF IdleRow, Entering, Pressed
<1>4. CASE id # 0 /\ is("idle", "Release", Enter("None", id), "hasId")
  BY <1>4 DEF IdleRow, Entering, Pressed
<1>5. CASE is("hasId", "Move", Stay("None", "Move"), "hasId")
  BY <1>5 DEF HasIdRow, Entering, Pressed
<1>6. CASE id = 0 /\ is("hasId", "Move", cat(Leave("None"), <<Uid(id)>>), "idle")
  BY <1>6 DEF HasIdRow, Entering, Pressed, cat
<1>7. CASE is("hasId", "Move", cat(Leave("None"), Enter("None", id)), "hasId")
  BY <1>7 DEF HasIdRow, Entering, Pressed, cat
<1>8. CASE is("hasId", "Press", Stay("Press", "None"), "pressing")
  BY <1>8 DEF HasIdRow, Entering, Pressed
<1>9. CASE is("hasId", "Press", cat(Leave("None"), Enter("Press", id)), "pressing")
  BY <1>9 DEF HasIdRow, Entering, Pressed, cat
<1>10. CASE is("pressing", "Move", Stay("Move", "Move"), "pressing")
  BY <1>10 DEF PressingRow
<1>11. CASE up /\ is("pressing", "Release", Stay("Release", "None"), "hasId")
  BY <1>11 DEF PressingRow
<1>12. CASE id = 0 /\ up /\ is("pressing", "Release", cat(Leave("Release"), <<Uid(id)>>), "idle")
  BY <1>12 DEF PressingRow, cat
<1>13. CASE up /\ is("pressing", "Release", cat(Leave("Release"), Enter("None", id)), "hasId")
  BY <1>13 DEF PressingRow, cat
<1>14. CASE is("pressing", "Release", Stay("Release", "None"), "pressing")
  BY <1>14 DEF PressingRow
<1>15. CASE is("pressing", "Press", Stay("Press", "None"), "pressing")
  BY <1>15 DEF PressingRow
<1>16. CASE is("hasId", "DblClk", Stay("DoubleClick", "None"), "hasId")
  BY <1>16 DEF HasIdRow, Entering, Pressed
<1>17. CASE is("pressing", "DblClk", Stay("DoubleClick", "None"), "pressing")
  BY <1>17 DEF PressingRow
<1>18. CASE is("hasId", "Wheel", Stay("None", "None"), "hasId")
  BY <1>18 DEF HasIdRow, Entering, Pressed
<1>19. CASE is("pressing", "Wheel", Stay("None", "None"), "pressing")
  BY <1>19 DEF PressingRow
<1> QED BY <1>1, <1>2, <1>3, <1>4, <1>5, <1>6, <1>7, <1>8, <1>9, <1>10,
           <1>11, <1>12, <1>13, <1>14, <1>15, <1>16, <1>17, <1>18, <1>19

\* While a button is down every event has a row.
LEMMA PressingHasRow ==
  ASSUME NEW id, NEW up \in BOOLEAN, NEW event \in {"Move", "Press", "Release", "DblClk", "Wheel"}
  PROVE  \E r \in Table(id, up) : r.from = "pressing" /\ r.event = event /\ r.guard
<1> DEFINE row(e, guard, do, to) ==
             [from |-> "pressing", event |-> e, guard |-> guard, do |-> do, to |-> to]
           diff == id # active /\ id # 0
<1>1. CASE event = "Move"
  <2> DEFINE r == row("Move", TRUE, Stay("Move", "Move"), "pressing")
  <2>1. r \in Table(id, up)
    BY DEF Table
  <2> QED BY <1>1, <2>1, Zenon
<1>2. CASE event = "Press"
  <2> DEFINE r == row("Press", TRUE, Stay("Press", "None"), "pressing")
  <2>1. r \in Table(id, up)
    BY DEF Table
  <2> QED BY <1>2, <2>1, Zenon
<1>3. CASE event = "DblClk"
  <2> DEFINE r == row("DblClk", TRUE, Stay("DoubleClick", "None"), "pressing")
  <2>1. r \in Table(id, up)
    BY DEF Table
  <2> QED BY <1>3, <2>1, Zenon
<1>4. CASE event = "Wheel"
  <2> DEFINE r == row("Wheel", TRUE, Stay("None", "None"), "pressing")
  <2>1. r \in Table(id, up)
    BY DEF Table
  <2> QED BY <1>4, <2>1, Zenon
<1>5. CASE event = "Release" /\ ~ up
  <2> DEFINE r == row("Release", ~ up, Stay("Release", "None"), "pressing")
  <2>1. r \in Table(id, up)
    BY DEF Table
  <2> QED BY <1>5, <2>1, Zenon
<1>6. CASE event = "Release" /\ up /\ id = active
  <2> DEFINE r == row("Release", id = active /\ up, Stay("Release", "None"), "hasId")
  <2>1. r \in Table(id, up)
    BY DEF Table
  <2> QED BY <1>6, <2>1, Zenon
<1>7. CASE event = "Release" /\ up /\ id = 0
  <2> DEFINE r == row("Release", id = 0 /\ up, Leave("Release") \o <<Uid(id)>>, "idle")
  <2>1. r \in Table(id, up)
    BY Zenon DEF Table
  <2> QED BY <1>7, <2>1, Zenon
<1>8. CASE event = "Release" /\ up /\ diff
  <2> DEFINE r == row("Release", diff /\ up, Leave("Release") \o Enter("None", id), "hasId")
  <2>1. r \in Table(id, up)
    BY Zenon DEF Table
  <2> QED BY <1>8, <2>1, Zenon
<1> QED BY <1>1, <1>2, <1>3, <1>4, <1>5, <1>6, <1>7, <1>8

LEMMA ToldMore ==
  ASSUME NEW e, NEW d, NEW known, NEW to, NEW inside, NEW pressed, NEW more,
         pressed \subseteq more, Told(e, d, known, to, inside, pressed)
  PROVE  Told(e, d, known, to, inside, more)
BY DEF Told

\* What happens to the mappers in ms changes nothing for the others.
LEMMA KnowsElsewhere ==
  ASSUME IInv, IInv', MouseInv, NEW ms, Unaffected(ms),
         stale \cup ms \subseteq stale', Callee' \subseteq stale',
         \A m \in Mapper \ stale' : entered'[m] = entered[m] /\ down'[m] = down[m],
         UNCHANGED <<fsm, active, sends, item, buttons>>
  PROVE  MouseInv'
<1>1. active \in Nat /\ active' = active
  BY DEF MouseInv
<1>2. \A m \in Mapper \ stale' : m \in Receiver(active)' <=> m \in Receiver(active)
  <2>1. Mapper \ stale' \subseteq Mapper \ ms
    OBVIOUS
  <2> QED BY <1>1, <2>1, ReceiverStays
<1>3. ASSUME NEW inside, NEW pressed, Knows(inside, pressed)
      PROVE  Told(entered', down', Mapper \ stale', Receiver(active)', inside, pressed)
  BY <1>2, <1>3 DEF Knows, Told
<1>4. Done => Done'
  BY <1>3 DEF Done, Knows
<1>5. Outside /\ Knows(FALSE, {}) => Outside' /\ Knows(FALSE, {})'
  BY <1>3 DEF Outside, Enters, Knows
<1>6. ASSUME NEW press, Leaves(press), Knows(TRUE, Released(press))
      PROVE  Leaves(press)' /\ Knows(TRUE, Released(press))'
  BY <1>3, <1>6 DEF Leaves, Enters, Released, Knows
<1>7. ASSUME NEW press, Stays(press) PROVE Stays(press)'
  BY <1>3, <1>7 DEF Stays, Released, Knows
<1> QED BY <1>1, <1>4, <1>5, <1>6, <1>7 DEF MouseInv

LEMMA MapperMouse ==
  ASSUME IInv, IInv', MouseInv, NEW m \in Mapper, MapperStep(m)
  PROVE  MouseInv'
<1>1. Unaffected({m}) /\ Callee' \subseteq {m}
  BY MapperElsewhere, SizeAssumption DEF MapperStep
<1>2. /\ stale' = stale \cup {m} /\ UNCHANGED <<fsm, active, sends, item, buttons>>
      /\ \A n \in Mapper \ stale' : entered'[n] = entered[n] /\ down'[n] = down[n]
  BY DEF MapperStep, Disturbs
<1> QED BY <1>1, <1>2, KnowsElsewhere

LEMMA MoveMouse ==
  ASSUME IInv, IInv', MouseInv, NEW m \in Mapper, NEW t \in Mapper, MappersMove(m, t)
  PROVE  MouseInv'
<1>1. Unaffected({m, t}) /\ Callee' = {t}
  BY MoveElsewhere DEF MappersMove
<1>2. /\ stale' = stale \cup {m, t} /\ UNCHANGED <<fsm, active, sends, item, buttons>>
      /\ \A n \in Mapper \ stale' : entered'[n] = entered[n] /\ down'[n] = down[n]
  BY DEF MappersMove, Disturbs
<1> QED BY <1>1, <1>2, KnowsElsewhere

LEMMA CallMouse ==
  ASSUME IInv, IInv', MouseInv, CallGoesOn
  PROVE  MouseInv'
<1>1. Unaffected(Callee) /\ Callee' \subseteq Callee
  BY CallElsewhere DEF CallGoesOn
<1>2. Callee \subseteq stale /\ UNCHANGED mouseVars
  BY DEF CallGoesOn, MouseInv
<1> QED BY <1>1, <1>2, KnowsElsewhere DEF mouseVars

\* The mappers stay when the machine runs.
LEMMA SameReceiver ==
  ASSUME UNCHANGED vars
  PROVE  /\ \A id : Receiver(id)' = Receiver(id)
         /\ Callee' = Callee
BY DEF vars, Receiver, Lookup, Callee

LEMMA UpdateIdMouse ==
  ASSUME MouseInv, UpdateId
  PROVE  MouseInv'
<1>1. /\ sends # <<>> /\ sends[1].op = "uid" /\ active' = sends[1].id /\ sends' = Tail(sends)
      /\ UNCHANGED <<vars, fsm, item, buttons, entered, down, stale>>
  BY DEF UpdateId
<1>2. \A press, hover : Send(press, hover).op = "send"
  BY DEF Send
<1>3. Outside /\ Knows(FALSE, {})
  BY <1>1, <1>2, FirstSend DEF MouseInv
<1>4. Told(entered', down', Mapper \ stale', Receiver(active)', FALSE, {})
  BY <1>1, <1>3 DEF Knows, Told
<1>5. Callee' \subseteq stale'
  BY <1>1, SameReceiver DEF MouseInv
<1>6. \A id : Uid(id).id = id
  BY DEF Uid
<1>7. CASE sends = <<Uid(0)>> /\ fsm = "idle"
  <2>1. sends' = <<>> /\ active' = 0
    BY <1>1, <1>6, <1>7
  <2>2. Done'
    BY <1>1, <1>4, <1>7 DEF Done, Knows
  <2> QED BY <1>5, <2>1, <2>2 DEF MouseInv
<1>8. ASSUME NEW press \in {"None", "Press"}, NEW id \in Nat, Enters(press),
             sends = <<Uid(id), Send(press, "Enter")>>
      PROVE  MouseInv'
  <2>1. sends' = <<Send(press, "Enter")>> /\ active' \in Nat
    BY <1>1, <1>6, <1>8
  <2>2. Enters(press)'
    BY <1>1, <1>8 DEF Enters
  <2> QED BY <1>4, <1>5, <2>1, <2>2 DEF MouseInv, Outside, Knows
<1>9. \A press : sends # <<Send(press, "Enter")>>
  BY <1>1, <1>2
<1> QED BY <1>3, <1>7, <1>8, <1>9 DEF Outside

LEMMA SendEventMouse ==
  ASSUME IInv, MouseInv, SendEvent
  PROVE  MouseInv'
<1> DEFINE press == sends[1].press
           hover == sends[1].hover
           to == Receiver(active)
           known == Mapper \ stale
<1>1. /\ sends # <<>> /\ sends[1].op = "send" /\ sends' = Tail(sends)
      /\ UNCHANGED <<vars, fsm, active, item, buttons, stale>>
  BY DEF SendEvent
<1>2. \A m \in known :
        /\ entered'[m] = IF m \notin to THEN entered[m]
                         ELSE IF hover = "Enter" THEN entered[m] + 1
                         ELSE IF hover = "Exit" THEN entered[m] - 1 ELSE entered[m]
        /\ down'[m] = IF m \notin to THEN down[m]
                      ELSE IF press = "Press" THEN down[m] \cup {item}
                      ELSE IF press = "Release" THEN down[m] \ {item} ELSE down[m]
  BY DEF SendEvent
<1>3. \A inside, pressed : Told(entered', down', known, to, inside, pressed) => Knows(inside, pressed)'
  BY <1>1, SameReceiver DEF Knows
<1>4. active' \in Nat /\ Callee' \subseteq stale'
  BY <1>1, SameReceiver DEF MouseInv
<1>5. \A p, h : LET e == Send(p, h) IN e.press = p /\ e.hover = h /\ e.op = "send"
  BY DEF Send
<1>6. \A id : Uid(id).op = "uid"
  BY DEF Uid
<1>7. CASE Outside /\ Knows(FALSE, {})
  <2>1. PICK p \in {"None", "Press"} : Enters(p) /\ sends = <<Send(p, "Enter")>>
    BY <1>1, <1>6, <1>7 DEF Outside
  <2>2. sends' = <<>> /\ press = p /\ hover = "Enter"
    BY <1>1, <1>5, <2>1
  <2>3. Told(entered', down', known, to, TRUE, IF p = "Press" THEN buttons ELSE {})
    <3> SUFFICES ASSUME NEW m \in known
                 PROVE  /\ entered'[m] = IF m \in to THEN 1 ELSE 0
                        /\ down'[m] \subseteq IF m \in to THEN IF p = "Press" THEN buttons ELSE {} ELSE {}
      BY DEF Told
    <3>1. entered[m] = 0 /\ down[m] \subseteq {}
      BY <1>7 DEF Knows, Told
    <3>2. entered'[m] = IF m \in to THEN 1 ELSE 0
      <4>1. entered'[m] = IF m \in to THEN entered[m] + 1 ELSE entered[m]
        BY <1>2, <2>2
      <4> QED BY <3>1, <4>1
    <3>3. down'[m] \subseteq IF m \in to /\ p = "Press" THEN {item} ELSE {}
      BY <1>2, <2>1, <2>2, <3>1
    <3>4. p = "Press" => item \in buttons
      BY <2>1 DEF Enters
    <3> QED BY <3>2, <3>3, <3>4
  <2>4. Done'
    <3>1. CASE p = "None"
      <4>1. Knows(TRUE, {})'
        BY <1>3, <2>3, <3>1
      <4> QED BY <1>1, <2>1, <3>1, <4>1 DEF Done, Enters
    <3>2. CASE p = "Press"
      <4>1. Told(entered', down', Mapper \ stale', Receiver(active)', TRUE, buttons')
        BY <1>1, <2>3, <3>2, SameReceiver
      <4> QED BY <1>1, <2>1, <3>2, <4>1 DEF Done, Enters, Knows
    <3> QED BY <3>1, <3>2
  <2> QED BY <1>4, <2>2, <2>4 DEF MouseInv
<1>8. ASSUME NEW p \in {"None", "Release"}, Leaves(p), Knows(TRUE, Released(p))
      PROVE  MouseInv'
  <2>1. press = p /\ hover = "Exit"
    BY <1>5, <1>8, FirstSend
  <2>2. Told(entered', down', known, to, FALSE, {})
    <3> SUFFICES ASSUME NEW m \in known PROVE entered'[m] = 0 /\ down'[m] \subseteq {}
      BY DEF Told
    <3>1. /\ entered[m] = IF m \in to THEN 1 ELSE 0
          /\ down[m] \subseteq IF m \in to THEN Released(p) ELSE {}
      BY <1>8 DEF Knows, Told
    <3>2. entered'[m] = 0
      <4>1. entered'[m] = IF m \in to THEN entered[m] - 1 ELSE entered[m]
        BY <1>2, <2>1
      <4> QED BY <3>1, <4>1
    <3>3. down'[m] \subseteq {}
      BY <1>2, <2>1, <3>1 DEF Released
    <3> QED BY <3>2, <3>3
  <2>3. Knows(FALSE, {})'
    BY <1>3, <2>2
  <2>4. Outside'
    <3>1. CASE sends = <<Send(p, "Exit"), Uid(0)>> /\ fsm = "idle"
      BY <1>1, <3>1 DEF Outside
    <3>2. ASSUME NEW next \in {"None", "Press"}, NEW id \in Nat, Enters(next),
                 sends = <<Send(p, "Exit"), Uid(id), Send(next, "Enter")>>
          PROVE  Outside'
      <4>1. Enters(next)'
        BY <1>1, <3>2 DEF Enters
      <4>2. sends' = <<Uid(id), Send(next, "Enter")>>
        BY <1>1, <3>2
      <4> QED BY <4>1, <4>2 DEF Outside
    <3> QED BY <1>8, <3>1, <3>2 DEF Leaves
  <2> QED BY <1>4, <2>3, <2>4 DEF MouseInv
<1>9. ASSUME NEW p, Stays(p) PROVE MouseInv'
  <2>1. press = p /\ hover \notin {"Enter", "Exit"}
    BY <1>9, FirstSend
  <2>2. sends' = <<>>
    BY <1>1, <1>9 DEF Stays
  <2>3. CASE fsm = "hasId" /\ p # "Press" /\ Knows(TRUE, Released(p))
    <3>1. Told(entered', down', known, to, TRUE, {})
      BY <1>2, <2>1, <2>3 DEF Knows, Told, Released
    <3>2. Knows(TRUE, {})'
      BY <1>3, <3>1
    <3> QED BY <1>1, <1>4, <2>2, <2>3, <3>2 DEF MouseInv, Done
  <2>4. CASE fsm = "pressing" /\ (p = "Press" => item \in buttons) /\ Knows(TRUE, buttons \cup Released(p))
    <3>1. Told(entered', down', known, to, TRUE, buttons)
      BY <1>2, <2>1, <2>4 DEF Knows, Told, Released
    <3>2. Told(entered', down', Mapper \ stale', Receiver(active)', TRUE, buttons')
      BY <1>1, <3>1, SameReceiver
    <3>3. Done'
      BY <1>1, <2>4, <3>2 DEF Done, Knows
    <3> QED BY <1>4, <2>2, <3>3 DEF MouseInv
  <2> QED BY <1>9, <2>3, <2>4 DEF Stays
<1> QED BY <1>1, <1>7, <1>8, <1>9 DEF MouseInv

\* Between two events the machine forgets what the mappers that changed were told.
LEMMA ForgetKeeps ==
  ASSUME Done, Forget, UNCHANGED <<vars, active>>
  PROVE  Told(entered', down', Mapper \ stale', Receiver(active)', fsm # "idle",
              IF fsm = "pressing" THEN buttons ELSE {})
<1>1. Receiver(active)' = Receiver(active)
  BY SameReceiver
<1>2. CASE fsm = "idle"
  <2>1. Knows(FALSE, {})
    BY <1>2 DEF Done
  <2>2. \A m \in Mapper : entered'[m] = (IF m \in stale THEN 0 ELSE entered[m])
                       /\ down'[m] = (IF m \in stale THEN {} ELSE down[m])
    BY <1>2 DEF Forget
  <2> QED BY <1>2, <2>1, <2>2 DEF Knows, Told
<1>3. CASE fsm # "idle"
  <2>1. Knows(TRUE, IF fsm = "pressing" THEN buttons ELSE {})
    BY <1>3 DEF Done
  <2>2. stale' = stale /\ \A m \in Mapper : entered'[m] = entered[m] /\ down'[m] = down[m]
    BY <1>3 DEF Forget
  <2> QED BY <1>1, <1>3, <2>1, <2>2 DEF Knows, Told
<1> QED BY <1>2, <1>3

Events == {"Move", "Press", "Release", "DblClk", "Wheel"}

LEMMA ButtonsAfter ==
  ASSUME NEW event \in Events, NEW b, Input(event, b)
  PROVE  /\ event = "Press" => b \in buttons'
         /\ event # "Release" => buttons \subseteq buttons'
         /\ buttons \subseteq buttons' \cup {b}
BY DEF Input, Events

\* An event after which the pointer comes to an id.
LEMMA EnterMouse ==
  ASSUME NEW b, NEW id \in Nat, NEW event \in Events, Input(event, b), item' = b,
         NEW r, Entering(r, "Press") \/ Entering(r, "None"), r.event = event, fsm' = r.to
  PROVE  \A press \in {"None", "Press"} : Entering(r, press) => Enters(press)'
BY ButtonsAfter DEF Entering, Enters, Pressed

LEMMA MouseEventMouse ==
  ASSUME IInv, MouseInv, NEW b, NEW id \in Nat, NEW event \in Events, MouseEvent(event, b, id)
  PROVE  MouseInv'
<1> DEFINE up == buttons' = {}
           rows == {r \in Table(id, up) : r.from = fsm /\ r.event = event /\ r.guard}
           told(inside, pressed) == Told(entered', down', Mapper \ stale', Receiver(active)', inside, pressed)
<1>1. /\ Returned /\ sends = <<>> /\ Input(event, b) /\ Forget /\ item' = b /\ UNCHANGED <<vars, active>>
      /\ IF rows = {} THEN UNCHANGED <<fsm, sends>> ELSE \E r \in rows : fsm' = r.to /\ sends' = r.do
  BY DEF MouseEvent, Quiet
<1>2. Done
  BY <1>1, DoneWhenQuiet
<1>3. active' \in Nat /\ Callee' \subseteq stale'
  <2>1. Callee' = {}
    BY <1>1, SameReceiver DEF Callee, Returned, Nothing
  <2> QED BY <1>1, <2>1 DEF MouseInv
<1>4. told(fsm # "idle", IF fsm = "pressing" THEN buttons ELSE {})
  BY <1>1, <1>2, ForgetKeeps
<1>5. \A inside, pressed : told(inside, pressed) => Knows(inside, pressed)'
  BY DEF Knows
<1> HIDE DEF told
<1>6. \A inside, pressed, more : pressed \subseteq more /\ told(inside, pressed) => told(inside, more)
  BY ToldMore DEF told
<1>7. up \in BOOLEAN
  OBVIOUS
<1> HIDE DEF up
<1>8. CASE rows = {}
  <2>1. fsm' = fsm /\ sends' = <<>>
    BY <1>1, <1>8
  <2>2. fsm # "pressing"
    BY <1>7, <1>8, PressingHasRow DEF Events
  <2>3. Done'
    BY <1>2, <1>4, <1>5, <2>1, <2>2 DEF Done
  <2> QED BY <1>3, <2>1, <2>3 DEF MouseInv
<1>9. ASSUME NEW r \in rows, fsm' = r.to, sends' = r.do
      PROVE  MouseInv'
  <2>1. r \in Table(id, up) /\ r.guard /\ r.from = fsm /\ r.event = event
    BY <1>9
  <2>2. \/ fsm = "idle" /\ IdleRow(r, id)
        \/ fsm = "hasId" /\ HasIdRow(r, id)
        \/ fsm = "pressing" /\ PressingRow(r, id, up)
    BY <1>7, <2>1, RowsOf
  <2>3. \A press : Entering(r, press) /\ press \in {"None", "Press"} => Enters(press)'
    BY <1>1, <1>9, <2>1, EnterMouse
  <2>4. CASE fsm = "idle" /\ IdleRow(r, id)
    <3>1. PICK press \in {"None", "Press"} : r.do = Enter(press, id) /\ Entering(r, press)
      BY <2>4 DEF IdleRow
    <3>2. Outside'
      BY <1>9, <2>3, <3>1 DEF Outside, Enter
    <3>3. Knows(FALSE, {})'
      BY <1>4, <1>5, <2>4
    <3> QED BY <1>3, <3>2, <3>3 DEF MouseInv
  <2>5. CASE fsm = "hasId" /\ HasIdRow(r, id)
    <3>1. told(TRUE, {})
      BY <1>4, <2>5
    <3>2. Knows(TRUE, Released("None"))'
      BY <1>5, <3>1 DEF Released
    <3>3. ASSUME NEW press, NEW hover, r.do = Stay(press, hover), hover \notin {"Enter", "Exit"},
                 press # "Release", Entering(r, press)
          PROVE  MouseInv'
      <4>1. sends' = <<Send(press, hover)>>
        BY <1>9, <3>3 DEF Stay
      <4>2. Released(press)' = {}
        BY <3>3 DEF Released
      <4>3. CASE press = "Press"
        <5>1. fsm' = "pressing" /\ item' \in buttons'
          BY <1>1, <1>9, <2>1, <3>3, <4>3, ButtonsAfter DEF Entering, Pressed
        <5>2. told(TRUE, buttons' \cup Released(press)')
          BY <1>6, <3>1
        <5>3. Stays(press)'
          BY <3>3, <4>1, <5>1, <5>2 DEF Stays, Knows, told
        <5> QED BY <1>3, <5>3 DEF MouseInv
      <4>4. CASE press # "Press"
        <5>1. fsm' = "hasId"
          BY <1>9, <3>3, <4>4 DEF Entering, Pressed
        <5>2. told(TRUE, Released(press)')
          BY <3>1, <4>2
        <5>3. Stays(press)'
          BY <3>3, <4>1, <4>4, <5>1, <5>2 DEF Stays, Knows, told
        <5> QED BY <1>3, <5>3 DEF MouseInv
      <4> QED BY <4>3, <4>4
    <3>4. CASE r.do = Leave("None") \o <<Uid(0)>> /\ r.to = "idle"
      <4>1. sends' = <<Send("None", "Exit"), Uid(0)>> /\ fsm' = "idle"
        BY <1>9, <3>4, OneAndOthers DEF Leave
      <4>2. Leaves("None")'
        BY <4>1 DEF Leaves
      <4> QED BY <1>3, <3>2, <4>2 DEF MouseInv
    <3>5. ASSUME NEW press \in {"None", "Press"}, r.do = Leave("None") \o Enter(press, id), Entering(r, press)
          PROVE  MouseInv'
      <4>1. sends' = <<Send("None", "Exit"), Uid(id), Send(press, "Enter")>>
        BY <1>9, <3>5, OneAndOthers DEF Leave, Enter
      <4>2. Leaves("None")'
        BY <2>3, <3>5, <4>1 DEF Leaves
      <4> QED BY <1>3, <3>2, <4>2 DEF MouseInv
    <3> QED BY <2>5, <3>3, <3>4, <3>5 DEF HasIdRow
  <2>6. CASE fsm = "pressing" /\ PressingRow(r, id, up)
    <3>1. told(TRUE, buttons)
      BY <1>4, <2>6
    <3>2. up => Knows(TRUE, Released("Release"))'
      <4>1. up => buttons \subseteq Released("Release")'
        BY <1>1, ButtonsAfter DEF Released, up
      <4> QED BY <1>6, <3>1, <4>1 DEF Knows, told
    <3>3. ASSUME NEW press, NEW hover, r.do = Stay(press, hover), hover \notin {"Enter", "Exit"},
                 press = "Release" <=> r.event = "Release", press = "Press" => r.event = "Press",
                 r.to = "pressing" \/ (r.to = "hasId" /\ press = "Release" /\ up)
          PROVE  MouseInv'
      <4>1. sends' = <<Send(press, hover)>>
        BY <1>9, <3>3 DEF Stay
      <4>2. CASE r.to = "pressing"
        <5>1. fsm' = "pressing" /\ (press = "Press" => item' \in buttons')
          BY <1>1, <1>9, <2>1, <3>3, <4>2, ButtonsAfter
        <5>2. buttons \subseteq buttons' \cup Released(press)'
          BY <1>1, <2>1, <3>3, ButtonsAfter DEF Released
        <5>3. told(TRUE, buttons' \cup Released(press)')
          BY <1>6, <3>1, <5>2
        <5>4. Stays(press)'
          BY <3>3, <4>1, <5>1, <5>3 DEF Stays, Knows, told
        <5> QED BY <1>3, <5>4 DEF MouseInv
      <4>3. CASE r.to = "hasId" /\ press = "Release" /\ up
        <5>1. Stays(press)'
          BY <1>9, <3>2, <3>3, <4>1, <4>3 DEF Stays
        <5> QED BY <1>3, <5>1 DEF MouseInv
      <4> QED BY <3>3, <4>2, <4>3
    <3>4. CASE up /\ r.event = "Release" /\ r.do = Leave("Release") \o <<Uid(0)>> /\ r.to = "idle"
      <4>1. sends' = <<Send("Release", "Exit"), Uid(0)>> /\ fsm' = "idle"
        BY <1>9, <3>4, OneAndOthers DEF Leave
      <4>2. Leaves("Release")'
        BY <4>1 DEF Leaves
      <4> QED BY <1>3, <3>2, <3>4, <4>2 DEF MouseInv
    <3>5. CASE up /\ r.event = "Release" /\ r.do = Leave("Release") \o Enter("None", id) /\ r.to = "hasId"
      <4>1. sends' = <<Send("Release", "Exit"), Uid(id), Send("None", "Enter")>>
        BY <1>9, <3>5, OneAndOthers DEF Leave, Enter
      <4>2. Leaves("Release")'
        BY <1>9, <3>5, <4>1 DEF Leaves, Enters
      <4> QED BY <1>3, <3>2, <3>5, <4>2 DEF MouseInv
    <3> QED BY <2>6, <3>3, <3>4, <3>5 DEF PressingRow
  <2> QED BY <2>2, <2>4, <2>5, <2>6
<1> QED BY <1>1, <1>8, <1>9

\* After an event that the machine does not see nothing is known of any mapper.
LEMMA DroppedMouse ==
  ASSUME MouseInv, NEW b, NEW event, MouseEventDropped(event, b)
  PROVE  MouseInv'
<1>1. Done /\ Mapper \ stale' = {} /\ UNCHANGED <<vars, fsm, active, sends>> /\ Returned /\ sends = <<>>
  BY DoneWhenQuiet DEF MouseEventDropped, Quiet
<1>2. active' \in Nat /\ Callee' \subseteq stale'
  <2>1. Callee' = {}
    BY <1>1, SameReceiver DEF Callee, Returned, Nothing
  <2> QED BY <1>1, <2>1 DEF MouseInv
<1>3. Done'
  BY <1>1 DEF Done, Knows, Told
<1> QED BY <1>1, <1>2, <1>3 DEF MouseInv

\* The mappers under the mouse do nothing that they would not do without it.
LEMMA MouseStep == [MouseNext]_allVars => [Next]_vars
<1>1. ASSUME NEW b \in Button, NEW event \in Events, NEW id, MouseEvent(event, b, id) \/ MouseEventDropped(event, b)
      PROVE  UNCHANGED vars
  BY <1>1 DEF MouseEvent, MouseEventDropped
<1>2. UpdateId \/ SendEvent => UNCHANGED vars
  BY DEF UpdateId, SendEvent
<1>3. ASSUME NEW m \in Mapper, MapperStep(m) PROVE Next
  BY <1>3 DEF MapperStep, Next
<1>4. ASSUME NEW m \in Mapper, NEW t \in Mapper, MappersMove(m, t) PROVE Next
  BY <1>4 DEF MappersMove, Next
<1>5. CallGoesOn => Next
  BY DEF CallGoesOn, Next
<1> QED BY <1>1, <1>2, <1>3, <1>4, <1>5 DEF MouseNext, allVars, Events

LEMMA MouseInvStep == IInv /\ MouseInv /\ [MouseNext]_allVars => MouseInv'
<1> SUFFICES ASSUME IInv, MouseInv, [MouseNext]_allVars PROVE MouseInv'
  OBVIOUS
<1>1. IInv'
  BY MouseStep, StepIInv
<1>2. ASSUME NEW b \in Button, NEW event \in Events, NEW id \in PixelId, MouseEvent(event, b, id)
      PROVE  MouseInv'
  <2>1. id \in Nat
    BY PixelAssumption
  <2> QED BY <1>2, <2>1, MouseEventMouse
<1>3. ASSUME NEW b \in Button, NEW event \in Events, MouseEventDropped(event, b) PROVE MouseInv'
  BY <1>3, DroppedMouse
<1>4. CASE UpdateId
  BY <1>4, UpdateIdMouse
<1>5. CASE SendEvent
  BY <1>5, SendEventMouse
<1>6. ASSUME NEW m \in Mapper, MapperStep(m) PROVE MouseInv'
  BY <1>1, <1>6, MapperMouse
<1>7. ASSUME NEW m \in Mapper, NEW t \in Mapper, MappersMove(m, t) PROVE MouseInv'
  BY <1>1, <1>7, MoveMouse
<1>8. CASE CallGoesOn
  BY <1>1, <1>8, CallMouse
<1>9. CASE UNCHANGED allVars
  <2>1. UNCHANGED vars /\ UNCHANGED mouseVars
    BY <1>9 DEF allVars
  <2>2. Receiver(active)' = Receiver(active) /\ Callee' = Callee
    BY <2>1, SameReceiver DEF mouseVars
  <2>3. \A inside, pressed : Knows(inside, pressed)' <=> Told(entered, down, Mapper \ stale, Receiver(active), inside, pressed')
    BY <2>1, <2>2 DEF Knows, mouseVars
  <2>4. UNCHANGED <<fsm, active, sends, item, buttons, stale>>
    BY <2>1 DEF mouseVars
  <2>5. (Done => Done') /\ (Outside /\ Knows(FALSE, {}) => Outside' /\ Knows(FALSE, {})')
    BY <2>1, <2>2, <2>4 DEF Done, Outside, Enters, Knows, mouseVars
  <2>6. \A press : Leaves(press) /\ Knows(TRUE, Released(press)) => Leaves(press)' /\ Knows(TRUE, Released(press))'
    BY <2>1, <2>2, <2>4 DEF Leaves, Enters, Released, Knows, mouseVars
  <2>7. \A press : Stays(press) => Stays(press)'
    BY <2>1, <2>2, <2>4 DEF Stays, Released, Knows, mouseVars
  <2> QED BY <2>2, <2>4, <2>5, <2>6, <2>7 DEF MouseInv
<1> QED BY <1>2, <1>3, <1>4, <1>5, <1>6, <1>7, <1>8, <1>9 DEF MouseNext, Events

LEMMA MouseInit0 == MouseInit => IInv /\ MouseInv
<1> SUFFICES ASSUME MouseInit PROVE IInv /\ MouseInv
  OBVIOUS
<1>1. IInv
  BY InitIInv DEF MouseInit
<1>2. Callee = {}
  BY DEF MouseInit, Init, Callee, Nothing
<1>3. Done
  BY DEF MouseInit, MachineInit, Done, Knows, Told
<1> QED BY <1>1, <1>2, <1>3 DEF MouseInit, MachineInit, MouseInv

LEMMA MouseInductive == MouseSpec => [](IInv /\ MouseInv)
<1>1. IInv /\ MouseInv /\ [MouseNext]_allVars => (IInv /\ MouseInv)'
  BY MouseStep, StepIInv, MouseInvStep
<1> QED BY <1>1, MouseInit0, PTL DEF MouseSpec

\* What the mouse makes the manager and the mappers do is what they may do: the theorems
\* about the ranges hold under the mouse too.
THEOREM MouseMovesMappers == MouseSpec => Spec
<1>1. MouseInit => Init
  BY DEF MouseInit
<1> QED BY <1>1, MouseStep, PTL DEF MouseSpec, Spec

\* processEvent: whatever ids the pointer comes to and whatever buttons are used, and whatever
\* happens to the mappers meanwhile, between two events a mapper that was left alone has had
\* one Enter more than Exits if it is under the pointer, and else as many.
THEOREM HoverIsRight == MouseSpec => []HoverFollowsPointer
<1>1. MouseInv => HoverFollowsPointer
  <2> SUFFICES ASSUME MouseInv, Quiet, NEW m \in Mapper \ stale
               PROVE  entered[m] = IF m \in Under THEN 1 ELSE 0
    BY DEF HoverFollowsPointer
  <2>1. Done
    BY DoneWhenQuiet DEF Quiet
  <2> QED BY <2>1 DEF Done, Knows, Told, Under
<1> QED BY <1>1, MouseInductive, PTL

\* The same for the buttons: between two events a mapper knows of no button as pressed,
\* except the one under the pointer while buttons are down, of those.
THEOREM ReleasesAreTold == MouseSpec => []NoButtonSticks
<1>1. MouseInv => NoButtonSticks
  <2> SUFFICES ASSUME MouseInv, Quiet, NEW m \in Mapper \ stale
               PROVE  down[m] \subseteq IF fsm = "pressing" /\ m \in Under THEN buttons ELSE {}
    BY DEF NoButtonSticks
  <2>1. Done
    BY DoneWhenQuiet DEF Quiet
  <2> QED BY <2>1 DEF Done, Knows, Told, Under
<1> QED BY <1>1, MouseInductive, PTL
=============================================================================
