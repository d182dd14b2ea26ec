------------------------ MODULE PoolProcessor_proofs ------------------------
(***************************************************************************)
(* Proofs about the background jobs of a processor: in whatever order its  *)
(* tasks end, its callbacks run and the user dispatches, stops or destroys.*)
(***************************************************************************)
EXTENDS PoolProcessor, SequenceFacts, FiniteSetTheorems

\* The submissions whose callback is on its way to the front thread, by a list of
\* functions that has each of them once.
Called(f) == {f[i].s : i \in {j \in DOMAIN f : f[j].for = "done"}}
Once(f) == \A i, j \in DOMAIN f :
             f[i].for = "done" /\ f[j].for = "done" /\ f[i].s = f[j].s => i = j

Rising(q) == \A i, j \in DOMAIN q : i < j => q[i] < q[j]

\* Nothing has happened to s yet.
Fresh(s) == /\ count[s] = 0 /\ s \notin Called(front) /\ s \notin delivered
            /\ s \notin ToSet(states)

Typed ==
  /\ latest \in 0 .. MaxDispatch /\ nJobs \in [Submission -> Nat] /\ states \in Seq(Submission)
  /\ queue \in Submission \cup {None} /\ stop \in [Submission -> BOOLEAN]
  /\ waiting \in [Submission -> Nat] /\ running \in [Submission -> Nat]
  /\ count \in [Submission -> Nat] /\ front \in Seq(FrontCall)
  /\ skipped \subseteq Submission /\ delivered \subseteq Submission
  /\ alive \in BOOLEAN /\ reset \in BOOLEAN
  /\ timer \in [s : Submission \cup {None}, armed : BOOLEAN]
  /\ timer.armed => timer.s \in Submission

\* What becomes of the tasks of a submission: the last one to end calls back, and the
\* state is there until then.
Tasks ==
  /\ Once(front)
  /\ \A s \in Submission :
       /\ count[s] = waiting[s] + running[s]
       /\ s \in Called(front) => count[s] = 0
       /\ alive /\ (count[s] # 0 \/ s \in Called(front)) => s \in ToSet(states)
       /\ s \in delivered => count[s] = 0 /\ s \notin Called(front) /\ s \notin ToSet(states)
       /\ s \in skipped => stop[s] /\ s \notin delivered

\* The submissions are made in order, and the one that waits is the newest.
Order ==
  /\ Rising(states) /\ \A s \in ToSet(states) : s <= latest
  /\ \A s \in Submission : s > latest => Fresh(s)
  /\ queue # None => queue = latest /\ Fresh(queue)
  /\ queue # None => reset \/ (queuedDispatch /\ hasJobs)
  /\ reset => delayDispatch

\* Without KeepOldResults all but the newest are stopped, and the newest is on its way
\* or done.
Newest ==
  ~ keepOldJobs =>
    /\ \A s \in ToSet(states) : stop[s] \/ s = latest
    /\ alive /\ latest # 0 => \/ latest \in ToSet(states) \/ queue = latest
                              \/ stop[latest] \/ latest \in failed \/ output = latest

IInv == Typed /\ Tasks /\ Order /\ Newest

-----------------------------------------------------------------------------

\* A function is dispatched to the front thread.
LEMMA Enqueued ==
  ASSUME NEW f \in Seq(FrontCall), Once(f), NEW c \in FrontCall,
         c.for = "done" => c.s \notin Called(f)
  PROVE  /\ Append(f, c) \in Seq(FrontCall) /\ Once(Append(f, c))
         /\ Called(Append(f, c)) = Called(f) \cup (IF c.for = "done" THEN {c.s} ELSE {})
<1> DEFINE g == Append(f, c)
<1>1. /\ g \in Seq(FrontCall) /\ Len(g) = Len(f) + 1 /\ g[Len(f) + 1] = c
      /\ \A i \in 1 .. Len(f) : g[i] = f[i]
  BY AppendProperties
<1> HIDE DEF g
<1>2. /\ Len(f) \in Nat /\ DOMAIN f = 1 .. Len(f) /\ DOMAIN g = 1 .. Len(f) + 1
      /\ 1 .. Len(f) + 1 = 1 .. Len(f) \cup {Len(f) + 1}
  BY <1>1, LenProperties
<1>3. Called(g) = Called(f) \cup (IF c.for = "done" THEN {c.s} ELSE {})
  BY <1>1, <1>2 DEF Called
<1>4. ASSUME NEW i \in DOMAIN f, f[i].for = "done", c.for = "done" PROVE f[i].s # c.s
  BY <1>4 DEF Called
<1>5. Once(g)
  BY <1>1, <1>2, <1>4 DEF Once
<1> QED BY <1>1, <1>3, <1>5 DEF g

\* The front thread takes the first one.
LEMMA Dequeued ==
  ASSUME NEW f \in Seq(FrontCall), f # <<>>, Once(f)
  PROVE  /\ Head(f) \in FrontCall /\ Tail(f) \in Seq(FrontCall) /\ Once(Tail(f))
         /\ Head(f).for = "done" =>
              Head(f).s \in Called(f) /\ Called(Tail(f)) = Called(f) \ {Head(f).s}
         /\ Head(f).for # "done" => Called(Tail(f)) = Called(f)
<1> DEFINE g == Tail(f)
           n == Len(f)
<1>1. /\ n \in Nat \ {0} /\ Head(f) = f[1] /\ g \in Seq(FrontCall) /\ Len(g) = n - 1
      /\ \A i \in 1 .. n - 1 : g[i] = f[i + 1]
  BY HeadTailProperties, EmptySeq, LenProperties
<1> HIDE DEF g
<1>2. DOMAIN f = 1 .. n /\ DOMAIN g = 1 .. n - 1
  BY <1>1, LenProperties
<1> HIDE DEF n
<1>3. /\ 1 \in 1 .. n /\ \A i \in 1 .. n - 1 : i + 1 \in 1 .. n /\ i + 1 # 1
      /\ \A i \in 1 .. n : i # 1 => i - 1 \in 1 .. n - 1 /\ (i - 1) + 1 = i
      /\ \A i, j \in 1 .. n - 1 : i + 1 = j + 1 => i = j
  BY <1>1
<1>4. f[1] \in FrontCall
  BY <1>2, <1>3, ElementOfSeq DEF n
<1>5. ASSUME NEW i \in DOMAIN g, NEW j \in DOMAIN g,
             g[i].for = "done", g[j].for = "done", g[i].s = g[j].s
      PROVE  i = j
  <2>1. /\ i \in 1 .. n - 1 /\ j \in 1 .. n - 1 /\ i + 1 \in DOMAIN f /\ j + 1 \in DOMAIN f
        /\ g[i] = f[i + 1] /\ g[j] = f[j + 1]
    BY <1>1, <1>2, <1>3
  <2>2. i + 1 = j + 1
    BY <1>5, <2>1 DEF Once
  <2> QED BY <1>3, <2>1, <2>2
<1>6. ASSUME NEW s PROVE s \in Called(g) <=> \E i \in 1 .. n : i # 1 /\ f[i].for = "done" /\ f[i].s = s
  <2>1. ASSUME NEW i \in 1 .. n, i # 1, f[i].for = "done", f[i].s = s PROVE s \in Called(g)
    <3>1. i - 1 \in DOMAIN g /\ g[i - 1] = f[i]
      BY <1>1, <1>2, <1>3, <2>1
    <3> QED BY <2>1, <3>1 DEF Called
  <2>2. ASSUME s \in Called(g) PROVE \E i \in 1 .. n : i # 1 /\ f[i].for = "done" /\ f[i].s = s
    <3>1. PICK j \in 1 .. n - 1 : g[j].for = "done" /\ g[j].s = s
      BY <1>2, <2>2 DEF Called
    <3>2. j + 1 \in 1 .. n /\ j + 1 # 1 /\ f[j + 1] = g[j]
      BY <1>1, <1>3
    <3> QED BY <3>1, <3>2
  <2> QED BY <2>1, <2>2
<1>7. ASSUME NEW s PROVE s \in Called(f) <=> \E i \in 1 .. n : f[i].for = "done" /\ f[i].s = s
  BY <1>2 DEF Called
<1>8. f[1].for = "done" => f[1].s \in Called(f) /\ Called(g) = Called(f) \ {f[1].s}
  <2>1. f[1].for = "done" => \A i \in 1 .. n : i # 1 /\ f[i].for = "done" => f[i].s # f[1].s
    BY <1>2, <1>3 DEF Once
  <2> QED BY <1>3, <1>6, <1>7, <2>1
<1>9. f[1].for # "done" => Called(g) = Called(f)
  <2>1. f[1].for # "done" => \A s : s \in Called(g) <=> s \in Called(f)
    BY <1>3, <1>6, <1>7
  <2> QED BY <2>1
<1> QED BY <1>1, <1>4, <1>5, <1>8, <1>9 DEF g, Once

\* A submission is handed to the pool after those that are there.
LEMMA Submitted ==
  ASSUME NEW q \in Seq(Submission), Rising(q), NEW s \in Submission, \A t \in ToSet(q) : t < s
  PROVE  /\ Append(q, s) \in Seq(Submission) /\ Rising(Append(q, s)) /\ Append(q, s) # <<>>
         /\ ToSet(Append(q, s)) = ToSet(q) \cup {s}
<1> DEFINE r == Append(q, s)
<1>1. /\ r \in Seq(Submission) /\ Len(r) = Len(q) + 1 /\ r[Len(q) + 1] = s
      /\ \A i \in 1 .. Len(q) : r[i] = q[i]
  BY AppendProperties
<1> HIDE DEF r
<1>2. /\ Len(q) \in Nat /\ DOMAIN q = 1 .. Len(q) /\ DOMAIN r = 1 .. Len(q) + 1 /\ r # <<>>
      /\ 1 .. Len(q) + 1 = 1 .. Len(q) \cup {Len(q) + 1}
  BY <1>1, LenProperties, EmptySeq
<1>3. ToSet(r) = ToSet(q) \cup {s}
  BY <1>1, <1>2 DEF ToSet
<1>4. ASSUME NEW i \in DOMAIN r, NEW j \in DOMAIN r, i < j PROVE r[i] < r[j]
  <2>1. i \in DOMAIN q
    BY <1>2, <1>4
  <2>2. CASE j \in DOMAIN q
    BY <1>1, <1>2, <1>4, <2>1, <2>2 DEF Rising
  <2>3. CASE j \notin DOMAIN q
    <3>1. r[i] = q[i] /\ r[j] = s /\ q[i] \in ToSet(q)
      BY <1>1, <1>2, <2>1, <2>3 DEF ToSet
    <3> QED BY <3>1
  <2> QED BY <2>2, <2>3
<1> QED BY <1>1, <1>2, <1>3, <1>4 DEF r, Rising

\* removeState.
LEMMA StateRemoved ==
  ASSUME NEW q \in Seq(Submission), Rising(q), NEW k \in 1 .. Len(q)
  PROVE  /\ RemoveAt(q, k) \in Seq(Submission) /\ Rising(RemoveAt(q, k))
         /\ ToSet(RemoveAt(q, k)) = ToSet(q) \ {q[k]}
<1> DEFINE r == RemoveAt(q, k)
<1>1. Len(q) \in Nat /\ DOMAIN q = 1 .. Len(q) /\ k \in 1 .. Len(q)
  BY LenProperties
<1>2. r \in Seq(Submission)
  BY <1>1, RemoveAtProperties
<1>3. /\ \A i, j \in DOMAIN r : i < j =>
           \E a, b \in DOMAIN q : a < b /\ r[i] = q[a] /\ r[j] = q[b]
      /\ \A j \in DOMAIN r : \E i \in DOMAIN q : i # k /\ r[j] = q[i]
      /\ \A i \in DOMAIN q : i # k => \E j \in DOMAIN r : q[i] = r[j]
  BY RemoveAtElements
<1> HIDE DEF r
<1> DEFINE s == q[k]
<1>4. ASSUME NEW i \in DOMAIN r, NEW j \in DOMAIN r, i < j PROVE r[i] < r[j]
  <2>1. PICK a \in DOMAIN q, b \in DOMAIN q : a < b /\ r[i] = q[a] /\ r[j] = q[b]
    BY <1>3, <1>4
  <2> QED BY <2>1 DEF Rising
<1>5. ASSUME NEW i \in 1 .. Len(q), i # k PROVE q[i] # s
  <2>1. (i < k \/ k < i) /\ q[i] \in Submission /\ s \in Submission
    BY <1>1, <1>5, ElementOfSeq
  <2>2. q[i] < s \/ s < q[i]
    BY <1>1, <2>1 DEF Rising
  <2> QED BY <2>1, <2>2 DEF Submission
<1>6. ToSet(r) = ToSet(q) \ {s}
  <2>1. ASSUME NEW j \in DOMAIN r PROVE r[j] \in ToSet(q) \ {s}
    BY <1>1, <1>3, <1>5 DEF ToSet
  <2>2. ASSUME NEW t \in ToSet(q), t # s PROVE t \in ToSet(r)
    <3>1. PICK i \in DOMAIN q : t = q[i]
      BY DEF ToSet
    <3>2. i # k
      BY <2>2, <3>1
    <3> QED BY <1>3, <3>1, <3>2 DEF ToSet
  <2>3. \A t \in ToSet(r) : t \in ToSet(q) \ {s}
    BY <2>1 DEF ToSet
  <2> QED BY <2>2, <2>3
<1> QED BY <1>2, <1>4, <1>6 DEF r, Rising

\* The last state is the newest.
LEMMA LastIsNewest ==
  ASSUME NEW q \in Seq(Submission), Rising(q), NEW n \in ToSet(q), \A s \in ToSet(q) : s <= n
  PROVE  Last(q) = n
<1>1. Len(q) \in Nat /\ DOMAIN q = 1 .. Len(q)
  BY LenProperties
<1>2. PICK i \in 1 .. Len(q) : q[i] = n
  BY <1>1 DEF ToSet
<1>3. CASE i = Len(q)
  BY <1>2, <1>3 DEF Last
<1>4. CASE i # Len(q)
  <2>1. i < Len(q) /\ Len(q) \in 1 .. Len(q)
    BY <1>1, <1>4, EndOf
  <2>2. n < q[Len(q)] /\ q[Len(q)] <= n
    BY <1>1, <1>2, <2>1 DEF Rising, ToSet
  <2>3. n \in Submission /\ q[Len(q)] \in Submission
    BY <1>1, <1>2, <2>1, ElementOfSeq
  <2> QED BY <2>2, <2>3, ConstantsAssumption DEF Submission
<1> QED BY <1>3, <1>4

-----------------------------------------------------------------------------

\* A counter of one submission changes.
LEMMA Counted ==
  ASSUME NEW f \in [Submission -> Nat], NEW s \in Submission, NEW n \in Nat
  PROVE  /\ [f EXCEPT ![s] = n] \in [Submission -> Nat] /\ [f EXCEPT ![s] = n][s] = n
         /\ \A t \in Submission : t # s => [f EXCEPT ![s] = n][t] = f[t]
OBVIOUS

\* One task fewer is to be counted.
LEMMA OneLess ==
  ASSUME NEW w \in Nat, NEW r \in Nat, NEW c, c = w + r \/ c = r + w, w # 0
  PROVE  w - 1 \in Nat /\ c # 0 /\ c - 1 = (w - 1) + r /\ c - 1 = r + (w - 1)
OBVIOUS

\* A task ends.
LEMMA TaskEnds ==
  ASSUME Typed, Tasks, NEW s \in Submission, count[s] # 0, CallDone(s)
  PROVE  /\ front' \in Seq(FrontCall) /\ Once(front')
         /\ count' \in [Submission -> Nat] /\ count'[s] = count[s] - 1
         /\ \A t \in Submission : t # s => count'[t] = count[t]
         /\ \A t : t # s => (t \in Called(front') <=> t \in Called(front))
         /\ s \in Called(front') => count'[s] = 0
<1> DEFINE c == [for |-> "done", s |-> s]
<1>1. /\ front \in Seq(FrontCall) /\ Once(front) /\ s \notin Called(front)
      /\ count \in [Submission -> Nat]
  BY DEF Typed, Tasks
<1>2. c \in FrontCall /\ c.for = "done" /\ c.s = s
  BY DEF FrontCall
<1>3. /\ count' \in [Submission -> Nat] /\ count'[s] = count[s] - 1
      /\ \A t \in Submission : t # s => count'[t] = count[t]
  BY <1>1 DEF CallDone
<1> HIDE DEF c
<1>4. CASE count[s] = 1
  <2>1. front' = Append(front, c)
    BY <1>4 DEF CallDone, c
  <2>2. /\ Append(front, c) \in Seq(FrontCall) /\ Once(Append(front, c))
        /\ Called(Append(front, c)) = Called(front) \cup {s}
    BY <1>1, <1>2, Enqueued
  <2> QED BY <1>3, <1>4, <2>1, <2>2
<1>5. CASE count[s] # 1
  BY <1>1, <1>3, <1>5 DEF CallDone
<1> QED BY <1>4, <1>5

\* What the end of a task leaves of the order: only submissions that were made have tasks.
LEMMA OrderKept ==
  ASSUME Typed, Tasks, Order, NEW s \in Submission, count[s] # 0,
         \A t \in Submission : t # s => count'[t] = count[t],
         \A t : t # s => (t \in Called(front') <=> t \in Called(front)),
         UNCHANGED mainVars
  PROVE  Order'
<1>1. \A t : t # s /\ t \in Submission /\ Fresh(t) => Fresh(t)'
  BY DEF Fresh, mainVars
<1>2. ~ Fresh(s)
  BY DEF Fresh
<1>3. queue # None => queue \in Submission
  BY DEF Typed
<1> QED BY <1>1, <1>2, <1>3 DEF Order, mainVars, hasJobs, queuedDispatch, delayDispatch

\* Newest looks at nothing the workers change but failed, which grows.
LEMMA NewestKept ==
  ASSUME Newest, UNCHANGED mainVars, failed \subseteq failed'
  PROVE  Newest'
BY DEF Newest, mainVars, keepOldJobs

LEMMA Skips == ASSUME IInv, NEW s \in Submission, SkipJob(s) PROVE IInv'
<1>1. Typed /\ Tasks /\ Order /\ Newest /\ UNCHANGED mainVars
  BY DEF IInv, SkipJob
<1>2. /\ waiting \in [Submission -> Nat] /\ waiting[s] \in Nat /\ waiting[s] # 0
      /\ running[s] \in Nat /\ count[s] = waiting[s] + running[s] /\ stop[s]
      /\ waiting' = [waiting EXCEPT ![s] = waiting[s] - 1]
  BY <1>1 DEF SkipJob, Typed, Tasks
<1>3. waiting[s] - 1 \in Nat /\ count[s] # 0 /\ count[s] - 1 = (waiting[s] - 1) + running[s]
  BY <1>2, OneLess
<1>4. /\ front' \in Seq(FrontCall) /\ Once(front')
      /\ count' \in [Submission -> Nat] /\ count'[s] = count[s] - 1
      /\ \A t \in Submission : t # s => count'[t] = count[t]
      /\ \A t : t # s => (t \in Called(front') <=> t \in Called(front))
      /\ s \in Called(front') => count'[s] = 0
  BY <1>1, <1>3, TaskEnds DEF SkipJob
<1>5. /\ waiting' \in [Submission -> Nat] /\ waiting'[s] = waiting[s] - 1
      /\ \A t \in Submission : t # s => waiting'[t] = waiting[t]
  BY <1>2, <1>3, Counted
<1>6. Typed'
  BY <1>1, <1>4, <1>5 DEF Typed, SkipJob, mainVars
<1>7. ASSUME NEW t \in Submission
      PROVE  /\ count'[t] = waiting'[t] + running'[t]
             /\ t \in Called(front') => count'[t] = 0
             /\ alive' /\ (count'[t] # 0 \/ t \in Called(front')) => t \in ToSet(states')
             /\ t \in delivered' => count'[t] = 0 /\ t \notin Called(front') /\ t \notin ToSet(states')
             /\ t \in skipped' => stop'[t] /\ t \notin delivered'
  <2>1. UNCHANGED <<running, alive, states, delivered, stop>> /\ skipped' = skipped \cup {s}
    BY DEF SkipJob, mainVars
  <2>2. CASE t = s
    BY <1>1, <1>2, <1>3, <1>4, <1>5, <2>1, <2>2 DEF Tasks
  <2>3. CASE t # s
    BY <1>1, <1>4, <1>5, <2>1, <2>3 DEF Tasks
  <2> QED BY <2>2, <2>3
<1>8. Tasks'
  BY <1>4, <1>7 DEF Tasks
<1>9. Order' /\ Newest'
  BY <1>1, <1>3, <1>4, OrderKept, NewestKept DEF SkipJob
<1> QED BY <1>6, <1>8, <1>9 DEF IInv

LEMMA Starts == ASSUME IInv, NEW s \in Submission, StartJob(s) PROVE IInv'
<1>1. Typed /\ Tasks /\ Order /\ Newest /\ UNCHANGED mainVars
  BY DEF IInv, StartJob
<1>2. /\ waiting \in [Submission -> Nat] /\ waiting[s] \in Nat /\ waiting[s] # 0
      /\ running \in [Submission -> Nat] /\ running[s] \in Nat
      /\ waiting' = [waiting EXCEPT ![s] = waiting[s] - 1]
      /\ running' = [running EXCEPT ![s] = running[s] + 1]
      /\ UNCHANGED <<count, skipped, failed, front, timer>>
  BY <1>1 DEF StartJob, Typed
<1>10. waiting[s] - 1 \in Nat /\ running[s] + 1 \in Nat
      /\ (waiting[s] - 1) + (running[s] + 1) = waiting[s] + running[s]
  BY <1>2
<1>3. /\ waiting' \in [Submission -> Nat] /\ waiting'[s] = waiting[s] - 1
      /\ running' \in [Submission -> Nat] /\ running'[s] = running[s] + 1
      /\ \A t \in Submission : t # s => waiting'[t] = waiting[t] /\ running'[t] = running[t]
  BY <1>2, <1>10, Counted
<1>4. Typed'
  BY <1>1, <1>2, <1>3 DEF Typed, mainVars
<1>5. \A t \in Submission : waiting'[t] + running'[t] = waiting[t] + running[t]
  BY <1>3, <1>10
<1>6. Tasks'
  BY <1>1, <1>2, <1>5 DEF Tasks, mainVars
<1>7. Order' /\ Newest'
  BY <1>1, <1>2, NewestKept
     DEF Order, Fresh, mainVars, hasJobs, queuedDispatch, delayDispatch
<1> QED BY <1>4, <1>6, <1>7 DEF IInv

LEMMA Ends == ASSUME IInv, NEW s \in Submission, EndJob(s) PROVE IInv'
<1>1. Typed /\ Tasks /\ Order /\ Newest /\ UNCHANGED mainVars
  BY DEF IInv, EndJob
<1>2. /\ running \in [Submission -> Nat] /\ running[s] \in Nat /\ running[s] # 0
      /\ waiting[s] \in Nat /\ count[s] = waiting[s] + running[s]
      /\ running' = [running EXCEPT ![s] = running[s] - 1]
  BY <1>1 DEF EndJob, Typed, Tasks
<1>3. running[s] - 1 \in Nat /\ count[s] # 0 /\ count[s] - 1 = waiting[s] + (running[s] - 1)
  BY <1>2, OneLess
<1>4. /\ front' \in Seq(FrontCall) /\ Once(front')
      /\ count' \in [Submission -> Nat] /\ count'[s] = count[s] - 1
      /\ \A t \in Submission : t # s => count'[t] = count[t]
      /\ \A t : t # s => (t \in Called(front') <=> t \in Called(front))
      /\ s \in Called(front') => count'[s] = 0
  BY <1>1, <1>3, TaskEnds DEF EndJob
<1>5. /\ running' \in [Submission -> Nat] /\ running'[s] = running[s] - 1
      /\ \A t \in Submission : t # s => running'[t] = running[t]
  BY <1>2, <1>3, Counted
<1>6. Typed'
  BY <1>1, <1>4, <1>5 DEF Typed, EndJob, mainVars
<1>7. ASSUME NEW t \in Submission
      PROVE  /\ count'[t] = waiting'[t] + running'[t]
             /\ t \in Called(front') => count'[t] = 0
             /\ alive' /\ (count'[t] # 0 \/ t \in Called(front')) => t \in ToSet(states')
             /\ t \in delivered' => count'[t] = 0 /\ t \notin Called(front') /\ t \notin ToSet(states')
             /\ t \in skipped' => stop'[t] /\ t \notin delivered'
  <2>1. UNCHANGED <<waiting, skipped, alive, states, delivered, stop>>
    BY DEF EndJob, mainVars
  <2>2. CASE t = s
    BY <1>1, <1>2, <1>3, <1>4, <1>5, <2>1, <2>2 DEF Tasks
  <2>3. CASE t # s
    BY <1>1, <1>4, <1>5, <2>1, <2>3 DEF Tasks
  <2> QED BY <2>2, <2>3
<1>8. Tasks'
  BY <1>4, <1>7 DEF Tasks
<1>9. Order' /\ Newest'
  <2>1. failed \subseteq failed'
    BY DEF EndJob
  <2> QED BY <1>1, <1>3, <1>4, <2>1, OrderKept, NewestKept
<1> QED BY <1>6, <1>8, <1>9 DEF IInv

LEMMA Expires == ASSUME IInv, DelayExpires PROVE IInv'
<1> DEFINE c == [for |-> "delay", s |-> timer.s]
<1>1. /\ Typed /\ Tasks /\ Order /\ Newest /\ UNCHANGED <<taskVars, mainVars>>
      /\ front \in Seq(FrontCall) /\ Once(front)
  BY DEF IInv, DelayExpires, Typed, Tasks
<1>2. timer.s \in Submission /\ timer' \in [s : Submission \cup {None}, armed : BOOLEAN] /\ ~ timer'.armed
  BY <1>1 DEF DelayExpires, Typed
<1>3. c \in FrontCall /\ c.for # "done" /\ front' = Append(front, c)
  BY <1>2 DEF DelayExpires, FrontCall
<1> HIDE DEF c
<1>4. front' \in Seq(FrontCall) /\ Once(front') /\ Called(front') = Called(front)
  <2>1. /\ Append(front, c) \in Seq(FrontCall) /\ Once(Append(front, c))
        /\ Called(Append(front, c)) = Called(front) \cup {}
    BY <1>1, <1>3, Enqueued
  <2> QED BY <1>3, <2>1
<1>5. Typed'
  BY <1>1, <1>2, <1>4 DEF Typed, taskVars, mainVars
<1>6. Tasks'
  BY <1>1, <1>4 DEF Tasks, taskVars, mainVars
<1>7. Order'
  BY <1>1, <1>4 DEF Order, Fresh, taskVars, mainVars, hasJobs, queuedDispatch, delayDispatch
<1>8. Newest'
  BY <1>1, NewestKept DEF taskVars
<1> QED BY <1>5, <1>6, <1>7, <1>8 DEF IInv

-----------------------------------------------------------------------------

\* A submission to which nothing has happened is handed to the pool.
LEMMA Submits ==
  ASSUME Typed, Tasks, NEW s \in Submission, Fresh(s),
         NEW q \in Seq(Submission), Rising(q), \A t \in ToSet(q) : t < s,
         NEW jobs \in Nat, Submit(s, q, jobs)
  PROVE  /\ states' \in Seq(Submission) /\ Rising(states') /\ states' # <<>>
         /\ ToSet(states') = ToSet(q) \cup {s}
         /\ waiting' \in [Submission -> Nat] /\ count' \in [Submission -> Nat]
         /\ count'[s] = waiting'[s] + running'[s]
         /\ \A t \in Submission : t # s => waiting'[t] = waiting[t] /\ count'[t] = count[t]
         /\ UNCHANGED <<running, skipped, failed>>
<1>1. /\ waiting \in [Submission -> Nat] /\ count \in [Submission -> Nat]
      /\ waiting[s] \in Nat /\ running[s] \in Nat
      /\ 0 = waiting[s] + running[s]
  BY DEF Typed, Tasks, Fresh
<1>2. running[s] = 0
  BY <1>1
<1>3. /\ states' = Append(q, s) /\ UNCHANGED <<running, skipped, failed>>
      /\ waiting' = [waiting EXCEPT ![s] = jobs] /\ count' = [count EXCEPT ![s] = jobs]
  BY DEF Submit
<1>4. /\ waiting' \in [Submission -> Nat] /\ waiting'[s] = jobs
      /\ count' \in [Submission -> Nat] /\ count'[s] = jobs
      /\ \A t \in Submission : t # s => waiting'[t] = waiting[t] /\ count'[t] = count[t]
  BY <1>1, <1>3, Counted
<1>5. jobs = jobs + 0
  OBVIOUS
<1> QED BY <1>2, <1>3, <1>4, <1>5, Submitted

\* What that leaves of the tasks.
LEMMA TasksSubmitted ==
  ASSUME Typed, Tasks, NEW s \in Submission, Fresh(s), s \notin skipped \/ stop'[s],
         \A t \in Submission : t # s => waiting'[t] = waiting[t] /\ count'[t] = count[t],
         count'[s] = waiting'[s] + running'[s],
         UNCHANGED <<running, skipped, delivered>>,
         \A t \in Submission : stop[t] => stop'[t],
         Once(front'), Called(front') \subseteq Called(front),
         s \in ToSet(states'),
         \A t : t # s /\ t \in ToSet(states') => t \in ToSet(states),
         \A t : t # s /\ t \in ToSet(states) => t \in ToSet(states') \/ (t \notin Called(front') /\ count[t] = 0),
         alive' => alive
  PROVE  Tasks'
<1> SUFFICES ASSUME NEW t \in Submission
    PROVE  /\ count'[t] = waiting'[t] + running'[t]
           /\ t \in Called(front') => count'[t] = 0
           /\ alive' /\ (count'[t] # 0 \/ t \in Called(front')) => t \in ToSet(states')
           /\ t \in delivered' => count'[t] = 0 /\ t \notin Called(front') /\ t \notin ToSet(states')
           /\ t \in skipped' => stop'[t] /\ t \notin delivered'
  BY DEF Tasks
<1>1. CASE t = s
  BY <1>1 DEF Tasks, Fresh
<1>2. CASE t # s
  BY <1>2 DEF Tasks
<1> QED BY <1>1, <1>2

LEMMA StopsKept ==
  ASSUME Typed, NEW keep \in BOOLEAN, stopJobs(keep)
  PROVE  /\ stop' \in [Submission -> BOOLEAN]
         /\ \A t \in Submission : stop[t] => stop'[t]
         /\ ~ keep => \A t \in ToSet(states) \cap Submission : stop'[t]
BY DEF Typed, stopJobs

\* The elements of the list of states.
LEMMA StatesTyped == ASSUME Typed PROVE ToSet(states) \subseteq Submission
<1>1. states \in Seq(Submission) /\ DOMAIN states = 1 .. Len(states)
  BY LenProperties DEF Typed
<1> QED BY <1>1, ElementOfSeq DEF ToSet

\* The next submission.
LEMMA NextIsFresh ==
  ASSUME Typed, Order, latest < MaxDispatch
  PROVE  /\ latest + 1 \in Submission /\ Fresh(latest + 1)
         /\ \A t \in ToSet(states) : t < latest + 1
<1>1. latest \in 0 .. MaxDispatch /\ MaxDispatch \in Nat
  BY ConstantsAssumption DEF Typed
<1>2. latest + 1 \in Submission /\ latest + 1 > latest
  BY <1>1 DEF Submission
<1>3. Fresh(latest + 1)
  BY <1>2 DEF Order
<1>4. \A t \in ToSet(states) : t \in Int /\ t <= latest
  BY StatesTyped, <1>1 DEF Order, Submission
<1> QED BY <1>1, <1>2, <1>3, <1>4

\* A dispatch: delayed, queued or handed to the pool.
LEMMA Dispatches == ASSUME IInv, NEW jobs \in JobCounts, Dispatch(jobs) PROVE IInv'
<1> DEFINE n == latest + 1
<1>1. /\ Typed /\ Tasks /\ Order /\ Newest /\ jobs \in Nat
      /\ alive /\ latest < MaxDispatch /\ latest' = n
      /\ nJobs' = [nJobs EXCEPT ![n] = jobs] /\ stopJobs(keepOldJobs)
      /\ UNCHANGED <<options, network, front, output, delivered, alive>>
  BY ConstantsAssumption DEF IInv, Dispatch
<1>2. /\ n \in Submission /\ Fresh(n) /\ \A t \in ToSet(states) : t < n
      /\ latest \in Nat /\ n \in Nat /\ n # 0 /\ n > latest
  <2>1. latest \in 0 .. MaxDispatch
    BY <1>1 DEF Typed
  <2> QED BY <1>1, <2>1, NextIsFresh, ConstantsAssumption
<1>3. \/ delayDispatch /\ Delayed(n)
      \/ ~delayDispatch /\ queuedDispatch /\ hasJobs /\ Queued(n)
      \/ /\ ~delayDispatch /\ ~(queuedDispatch /\ hasJobs)
         /\ Submit(n, states, jobs)
         /\ UNCHANGED <<queue, reset, timer>>
  BY DEF Dispatch
<1> HIDE DEF n
<1>4. /\ keepOldJobs \in BOOLEAN /\ keepOldJobs' = keepOldJobs
      /\ queuedDispatch' = queuedDispatch /\ delayDispatch' = delayDispatch
  BY <1>1 DEF keepOldJobs, queuedDispatch, delayDispatch
<1>5. /\ stop' \in [Submission -> BOOLEAN] /\ \A t \in Submission : stop[t] => stop'[t]
      /\ ~ keepOldJobs => \A t \in ToSet(states) : stop'[t]
  BY <1>1, <1>4, StopsKept, StatesTyped
<1>6. nJobs' \in [Submission -> Nat] /\ n \in 0 .. MaxDispatch
  BY <1>1, <1>2, Counted DEF Typed, Submission
<1>7. /\ \A t \in Submission : t > n => t > latest /\ t # n
      /\ \A t \in ToSet(states) : t \in Submission /\ t <= n /\ t # n
  BY <1>1, <1>2, StatesTyped DEF Submission
<1>8. CASE delayDispatch /\ Delayed(n)
  <2>1. /\ UNCHANGED <<taskVars, states>>
        /\ queue' = n /\ reset' = TRUE /\ timer' = [s |-> n, armed |-> TRUE]
    BY <1>8 DEF Delayed
  <2>2. Typed'
    BY <1>1, <1>2, <1>5, <1>6, <2>1 DEF Typed, taskVars
  <2>3. Tasks'
    BY <1>1, <1>5, <2>1 DEF Tasks, taskVars
  <2>4. \A t \in Submission : Fresh(t) => Fresh(t)'
    BY <1>1, <2>1 DEF Fresh, taskVars
  <2>5. Order'
    BY <1>1, <1>2, <1>4, <1>7, <1>8, <2>1, <2>4 DEF Order
  <2>6. Newest'
    BY <1>1, <1>4, <1>5, <2>1 DEF Newest
  <2> QED BY <2>2, <2>3, <2>5, <2>6 DEF IInv
<1>9. CASE ~delayDispatch /\ queuedDispatch /\ hasJobs /\ Queued(n)
  <2>1. /\ UNCHANGED <<taskVars, states, reset, timer>> /\ queue' = n
    BY <1>9 DEF Queued
  <2>2. Typed'
    BY <1>1, <1>2, <1>5, <1>6, <2>1 DEF Typed, taskVars
  <2>3. Tasks'
    BY <1>1, <1>5, <2>1 DEF Tasks, taskVars
  <2>4. \A t \in Submission : Fresh(t) => Fresh(t)'
    BY <1>1, <2>1 DEF Fresh, taskVars
  <2>5. Order'
    BY <1>1, <1>2, <1>4, <1>7, <1>9, <2>1, <2>4 DEF Order, hasJobs
  <2>6. Newest'
    BY <1>1, <1>4, <1>5, <2>1 DEF Newest
  <2> QED BY <2>2, <2>3, <2>5, <2>6 DEF IInv
<1>10. CASE /\ ~delayDispatch /\ ~(queuedDispatch /\ hasJobs)
            /\ Submit(n, states, jobs)
            /\ UNCHANGED <<queue, reset, timer>>
  <2>1. states \in Seq(Submission) /\ Rising(states)
    BY <1>1 DEF Typed, Order
  <2>2. /\ states' \in Seq(Submission) /\ Rising(states') /\ states' # <<>>
        /\ ToSet(states') = ToSet(states) \cup {n}
        /\ waiting' \in [Submission -> Nat] /\ count' \in [Submission -> Nat]
        /\ count'[n] = waiting'[n] + running'[n]
        /\ \A t \in Submission : t # n => waiting'[t] = waiting[t] /\ count'[t] = count[t]
        /\ UNCHANGED <<running, skipped, failed>>
    BY <1>1, <1>2, <1>10, <2>1, Submits
  <2>3. queue = None
    BY <1>1, <1>10 DEF Order
  <2>4. Typed'
    BY <1>1, <1>5, <1>6, <1>10, <2>2 DEF Typed
  <2>5. n \notin skipped \/ stop'[n]
    BY <1>1, <1>2, <1>5 DEF Tasks
  <2>6. Tasks'
    <3>1. Once(front') /\ Called(front') \subseteq Called(front)
      BY <1>1 DEF Tasks
    <3>2. /\ n \in ToSet(states') /\ UNCHANGED <<running, skipped, delivered>>
          /\ \A t : t # n /\ t \in ToSet(states') => t \in ToSet(states)
          /\ \A t : t # n /\ t \in ToSet(states) =>
               t \in ToSet(states') \/ (t \notin Called(front') /\ count[t] = 0)
          /\ alive' => alive
      <4>1. ToSet(states') = ToSet(states) \cup {n}
        BY <2>2
      <4>2. UNCHANGED <<running, skipped, delivered>> /\ alive
        BY <1>1, <2>2
      <4> QED BY <4>1, <4>2
    <3>3. /\ count'[n] = waiting'[n] + running'[n]
          /\ \A t \in Submission : t # n => waiting'[t] = waiting[t] /\ count'[t] = count[t]
      BY <2>2
    <3>4. /\ Typed /\ Tasks /\ n \in Submission /\ Fresh(n)
          /\ \A t \in Submission : stop[t] => stop'[t]
      BY <1>1, <1>2, <1>5
    <3> QED BY <2>5, <3>1, <3>2, <3>3, <3>4, TasksSubmitted
  <2>7. \A t \in Submission : t # n /\ Fresh(t) => Fresh(t)'
    BY <1>1, <2>2 DEF Fresh
  <2>8. Order'
    BY <1>1, <1>2, <1>4, <1>7, <1>10, <2>2, <2>3, <2>7 DEF Order
  <2>9. Newest'
    BY <1>1, <1>4, <1>5, <2>2 DEF Newest
  <2> QED BY <2>4, <2>6, <2>8, <2>9 DEF IInv
<1> QED BY <1>3, <1>8, <1>9, <1>10

LEMMA Stops == ASSUME IInv, StopJobs PROVE IInv'
<1>1. /\ Typed /\ Tasks /\ Order /\ Newest /\ stopJobs(FALSE)
      /\ UNCHANGED <<taskVars, front, timer, options, latest, nJobs, states, queue, reset,
                     output, delivered, alive>>
  BY DEF IInv, StopJobs
<1>2. /\ stop' \in [Submission -> BOOLEAN] /\ \A t \in Submission : stop[t] => stop'[t]
      /\ \A t \in ToSet(states) : stop'[t]
  BY <1>1, StopsKept, StatesTyped
<1>3. Typed' /\ Tasks'
  BY <1>1, <1>2 DEF Typed, Tasks, taskVars
<1>4. Order'
  BY <1>1 DEF Order, Fresh, taskVars, hasJobs, queuedDispatch, delayDispatch
<1>5. Newest'
  <2>1. latest # 0 => latest \in Submission
    BY <1>1 DEF Typed, Submission
  <2> QED BY <1>1, <1>2, <2>1 DEF Newest, keepOldJobs, taskVars
<1> QED BY <1>3, <1>4, <1>5 DEF IInv

LEMMA Moves == ASSUME IInv, NEW n \in Networks, MoveTo(n) PROVE IInv'
<1>1. /\ Typed /\ Tasks /\ Order /\ Newest
      /\ UNCHANGED <<taskVars, front, timer, options, latest, nJobs, states, queue, stop, reset,
                     output, delivered, alive>>
  BY DEF IInv, MoveTo
<1>2. Typed' /\ Tasks'
  BY <1>1 DEF Typed, Tasks, taskVars
<1>3. Order' /\ Newest'
  BY <1>1 DEF Order, Newest, Fresh, taskVars, hasJobs, queuedDispatch, delayDispatch, keepOldJobs
<1> QED BY <1>2, <1>3 DEF IInv

LEMMA Destroys == ASSUME IInv, Destroy PROVE IInv'
<1>1. /\ Typed /\ Tasks /\ Order /\ Newest /\ stopJobs(FALSE)
      /\ alive' = FALSE /\ reset' = FALSE /\ queue' = None /\ states' = <<>>
      /\ timer' = [timer EXCEPT !.armed = FALSE]
      /\ UNCHANGED <<taskVars, front, options, latest, nJobs, output, delivered>>
  BY DEF IInv, Destroy
<1>2. /\ stop' \in [Submission -> BOOLEAN] /\ \A t \in Submission : stop[t] => stop'[t]
  BY <1>1, StopsKept
<1>3. states' \in Seq(Submission) /\ ToSet(states') = {} /\ Rising(states')
  BY <1>1 DEF ToSet, Rising
<1>4. timer' \in [s : Submission \cup {None}, armed : BOOLEAN] /\ ~ timer'.armed
  BY <1>1 DEF Typed
<1>5. Typed'
  BY <1>1, <1>2, <1>3, <1>4 DEF Typed, taskVars
<1>6. Tasks'
  BY <1>1, <1>2, <1>3 DEF Tasks, taskVars
<1>7. Order'
  BY <1>1, <1>3 DEF Order, Fresh, taskVars
<1>8. Newest'
  BY <1>1, <1>3 DEF Newest
<1> QED BY <1>5, <1>6, <1>7, <1>8 DEF IInv

\* The state of a callback.
Others(s) == RemoveAt(states, CHOOSE k \in DOMAIN states : states[k] = s)

LEMMA CallbackTaken ==
  ASSUME Typed, Tasks, front # <<>>, Head(front).for = "done", front' = Tail(front),
         NEW s, s = Head(front).s
  PROVE  /\ s \in Submission /\ count[s] = 0 /\ s \notin delivered
         /\ front' \in Seq(FrontCall) /\ Once(front') /\ Called(front') = Called(front) \ {s}
         /\ alive => s \in ToSet(states)
<1>1. front \in Seq(FrontCall) /\ Once(front)
  BY DEF Typed, Tasks
<1>2. /\ Head(front) \in FrontCall /\ Tail(front) \in Seq(FrontCall) /\ Once(Tail(front))
      /\ s \in Called(front) /\ Called(Tail(front)) = Called(front) \ {s}
  BY <1>1, Dequeued
<1>3. s \in Submission
  BY <1>2 DEF FrontCall
<1> QED BY <1>2, <1>3 DEF Tasks

LEMMA StateTaken ==
  ASSUME Typed, Order, NEW s \in ToSet(states)
  PROVE  /\ Others(s) \in Seq(Submission) /\ Rising(Others(s))
         /\ ToSet(Others(s)) = ToSet(states) \ {s}
<1> DEFINE k == CHOOSE k \in DOMAIN states : states[k] = s
<1>1. states \in Seq(Submission) /\ Rising(states) /\ DOMAIN states = 1 .. Len(states)
  BY LenProperties DEF Typed, Order
<1>2. \E i \in DOMAIN states : states[i] = s
  BY DEF ToSet
<1>3. k \in DOMAIN states /\ states[k] = s
  BY <1>2
<1> HIDE DEF k
<1>4. k \in 1 .. Len(states)
  BY <1>1, <1>3
<1>5. /\ RemoveAt(states, k) \in Seq(Submission) /\ Rising(RemoveAt(states, k))
      /\ ToSet(RemoveAt(states, k)) = ToSet(states) \ {states[k]}
  BY <1>1, <1>4, StateRemoved
<1>6. Others(s) = RemoveAt(states, k)
  BY DEF Others, k
<1> QED BY <1>3, <1>5, <1>6

\* A front function of a processor that was destroyed.
LEMMA DoneVoid == ASSUME IInv, DoneCallback, ~ alive PROVE IInv'
<1>1. /\ Typed /\ Tasks /\ Order /\ Newest
      /\ front # <<>> /\ Head(front).for = "done" /\ front' = Tail(front)
      /\ UNCHANGED <<taskVars, states, queue, output, delivered, options, latest, nJobs, stop, reset,
                     timer, alive>>
  BY DEF IInv, DoneCallback
<1>2. front' \in Seq(FrontCall) /\ Once(front') /\ Called(front') \subseteq Called(front)
  BY <1>1, CallbackTaken
<1>3. Typed'
  BY <1>1, <1>2 DEF Typed, taskVars
<1>4. Tasks'
  BY <1>1, <1>2 DEF Tasks, taskVars
<1>5. \A t \in Submission : Fresh(t) => Fresh(t)'
  BY <1>1, <1>2 DEF Fresh, taskVars
<1>6. Order'
  <2>1. queue # None => queue \in Submission
    BY <1>1 DEF Typed
  <2> QED BY <1>1, <1>5, <2>1 DEF Order, hasJobs, queuedDispatch, delayDispatch
<1>7. Newest'
  BY <1>1 DEF Newest, keepOldJobs, taskVars
<1> QED BY <1>3, <1>4, <1>6, <1>7 DEF IInv

\* The jobs that wait are handed to the pool.
LEMMA DoneSubmits ==
  ASSUME IInv, DoneCallback, alive, queuedDispatch, queue # None
  PROVE  IInv'
<1> DEFINE s == Head(front).s
<1>1. /\ Typed /\ Tasks /\ Order /\ Newest
      /\ front # <<>> /\ Head(front).for = "done" /\ front' = Tail(front)
      /\ Submit(queue, Others(s), nJobs[queue]) /\ queue' = None
      /\ UNCHANGED <<output, delivered, options, latest, nJobs, stop, reset, timer, alive>>
  BY DEF IInv, DoneCallback, Done, Others
<1>2. /\ s \in Submission /\ count[s] = 0
      /\ front' \in Seq(FrontCall) /\ Once(front') /\ Called(front') = Called(front) \ {s}
      /\ s \in ToSet(states)
  BY <1>1, CallbackTaken
<1> HIDE DEF s
<1>3. /\ Others(s) \in Seq(Submission) /\ Rising(Others(s))
      /\ ToSet(Others(s)) = ToSet(states) \ {s}
  BY <1>1, <1>2, StateTaken
<1>4. /\ queue \in Submission /\ queue = latest /\ Fresh(queue) /\ nJobs[queue] \in Nat
      /\ queue # s
  BY <1>1, <1>2 DEF Typed, Order, Fresh
<1>5. \A t \in ToSet(states) : t \in Submission /\ t < queue
  <2>1. ToSet(states) \subseteq Submission
    BY <1>1, StatesTyped
  <2>2. \A t \in ToSet(states) : t <= queue /\ t # queue
    BY <1>1, <1>4 DEF Order, Fresh
  <2> QED BY <1>4, <2>1, <2>2 DEF Submission
<1>6. /\ states' \in Seq(Submission) /\ Rising(states') /\ states' # <<>>
      /\ ToSet(states') = ToSet(Others(s)) \cup {queue}
      /\ waiting' \in [Submission -> Nat] /\ count' \in [Submission -> Nat]
      /\ count'[queue] = waiting'[queue] + running'[queue]
      /\ \A t \in Submission : t # queue => waiting'[t] = waiting[t] /\ count'[t] = count[t]
      /\ UNCHANGED <<running, skipped, failed>>
  <2> DEFINE q == Others(s)
             jobs == nJobs[queue]
  <2>1. \A t \in ToSet(q) : t < queue
    BY <1>3, <1>5
  <2>2. q \in Seq(Submission) /\ Rising(q) /\ jobs \in Nat /\ Submit(queue, q, jobs)
    BY <1>1, <1>3, <1>4
  <2> HIDE DEF q, jobs
  <2>3. /\ states' \in Seq(Submission) /\ Rising(states') /\ states' # <<>>
        /\ ToSet(states') = ToSet(q) \cup {queue}
        /\ waiting' \in [Submission -> Nat] /\ count' \in [Submission -> Nat]
        /\ count'[queue] = waiting'[queue] + running'[queue]
        /\ \A t \in Submission : t # queue => waiting'[t] = waiting[t] /\ count'[t] = count[t]
        /\ UNCHANGED <<running, skipped, failed>>
    BY <1>1, <1>4, <2>1, <2>2, Submits
  <2> QED BY <2>3 DEF q
<1>7. Typed'
  BY <1>1, <1>2, <1>6 DEF Typed
<1>8. Tasks'
  <2>1. /\ queue \in ToSet(states')
        /\ \A t : t # queue /\ t \in ToSet(states') => t \in ToSet(states)
        /\ \A t : t # queue /\ t \in ToSet(states) =>
             t \in ToSet(states') \/ (t \notin Called(front') /\ count[t] = 0)
    BY <1>2, <1>3, <1>6
  <2>2. queue \notin skipped \/ stop'[queue]
    BY <1>1, <1>4 DEF Tasks
  <2>3. /\ UNCHANGED <<running, skipped, delivered>>
        /\ alive' => alive
        /\ Called(front') \subseteq Called(front)
        /\ \A t \in Submission : stop[t] => stop'[t]
    BY <1>1, <1>2, <1>6
  <2>4. /\ count'[queue] = waiting'[queue] + running'[queue]
        /\ \A t \in Submission : t # queue => waiting'[t] = waiting[t] /\ count'[t] = count[t]
    BY <1>6
  <2>5. Typed /\ Tasks /\ queue \in Submission /\ Fresh(queue) /\ Once(front')
    BY <1>1, <1>2, <1>4
  <2> QED BY <2>1, <2>2, <2>3, <2>4, <2>5, TasksSubmitted
<1>9. \A t \in Submission : t # queue /\ Fresh(t) => Fresh(t)'
  BY <1>1, <1>2, <1>3, <1>6 DEF Fresh
<1>10. Order'
  <2>1. \A t \in ToSet(states') : t <= latest
    BY <1>1, <1>3, <1>4, <1>6 DEF Order, Submission
  <2>2. \A t \in Submission : t > latest => t # queue
    BY <1>4 DEF Submission
  <2> QED BY <1>1, <1>6, <1>9, <2>1, <2>2 DEF Order, delayDispatch
<1>11. Newest'
  BY <1>1, <1>3, <1>4, <1>6 DEF Newest, keepOldJobs
<1> QED BY <1>7, <1>8, <1>10, <1>11 DEF IInv

\* The done of a state is due only when the state is the newest or old ones are kept, and
\* the done of the newest state is due unless it was stopped.
LEMMA DueIsNewest ==
  ASSUME Typed, Order, Newest, NEW s \in ToSet(states)
  PROVE  /\ Due(s, Last(states) = s) => ~ stop[s] /\ (keepOldJobs \/ s = latest)
         /\ s = latest /\ ~ stop[s] => Due(s, Last(states) = s)
<1>1. states \in Seq(Submission) /\ Rising(states) /\ \A t \in ToSet(states) : t <= latest
  BY DEF Typed, Order
<1>2. s = latest => Last(states) = s
  BY <1>1, LastIsNewest
<1> QED BY <1>2 DEF Due, Newest

\* The jobs are done: their done may be called.
LEMMA DoneEnds ==
  ASSUME IInv, DoneCallback, alive, ~(queuedDispatch /\ queue # None)
  PROVE  IInv' /\ DeliversNewest
<1> DEFINE s == Head(front).s
           due == Due(s, Last(states) = s)
<1>1. /\ Typed /\ Tasks /\ Order /\ Newest
      /\ front # <<>> /\ Head(front).for = "done" /\ front' = Tail(front)
      /\ states' = Others(s) /\ IF due THEN Deliver(s) ELSE UNCHANGED <<output, delivered>>
      /\ UNCHANGED <<queue, taskVars, options, latest, nJobs, stop, reset, timer, alive>>
  BY DEF IInv, DoneCallback, Done, Others
<1>2. /\ s \in Submission /\ count[s] = 0 /\ s \notin delivered
      /\ front' \in Seq(FrontCall) /\ Once(front') /\ Called(front') = Called(front) \ {s}
      /\ s \in ToSet(states)
  BY <1>1, CallbackTaken
<1>3. /\ due => ~ stop[s] /\ (keepOldJobs \/ s = latest)
      /\ s = latest /\ ~ stop[s] => due
  BY <1>1, <1>2, DueIsNewest
<1> HIDE DEF s, due
<1>4. states' \in Seq(Submission) /\ Rising(states') /\ ToSet(states') = ToSet(states) \ {s}
  BY <1>1, <1>2, StateTaken
<1>5. /\ due => delivered' = delivered \cup {s} /\ output' = IF s \in failed THEN None ELSE s
      /\ ~ due => UNCHANGED <<output, delivered>>
  BY <1>1 DEF Deliver
<1>6. delivered' \subseteq Submission
  BY <1>1, <1>2, <1>5 DEF Typed
<1>7. Typed'
  BY <1>1, <1>2, <1>4, <1>6 DEF Typed, taskVars
<1>8. Tasks'
  <2>1. /\ UNCHANGED <<waiting, running, count, skipped, failed, stop, alive>>
    BY <1>1 DEF taskVars
  <2>2. ASSUME NEW t \in Submission
        PROVE  /\ count'[t] = waiting'[t] + running'[t]
               /\ t \in Called(front') => count'[t] = 0
               /\ alive' /\ (count'[t] # 0 \/ t \in Called(front')) => t \in ToSet(states')
               /\ t \in delivered' => count'[t] = 0 /\ t \notin Called(front') /\ t \notin ToSet(states')
               /\ t \in skipped' => stop'[t] /\ t \notin delivered'
    <3>1. CASE t = s
      BY <1>1, <1>2, <1>3, <1>4, <1>5, <2>1, <3>1 DEF Tasks
    <3>2. CASE t # s
      BY <1>1, <1>2, <1>4, <1>5, <2>1, <3>2 DEF Tasks
    <3> QED BY <3>1, <3>2
  <2> QED BY <1>2, <2>2 DEF Tasks
<1>9. ~ Fresh(s) /\ \A t \in Submission : Fresh(t) => Fresh(t)'
  <2>1. ~ Fresh(s)
    BY <1>2 DEF Fresh
  <2>2. ASSUME NEW t \in Submission, Fresh(t) PROVE Fresh(t)'
    <3>1. t # s
      BY <2>1, <2>2
    <3> QED BY <1>1, <1>2, <1>4, <1>5, <2>2, <3>1 DEF Fresh, taskVars
  <2> QED BY <2>1, <2>2
<1>10. Order'
  <2>1. queue # None => queue \in Submission /\ reset
    BY <1>1 DEF Typed, Order
  <2> QED BY <1>1, <1>4, <1>9, <2>1 DEF Order, delayDispatch
<1>11. Newest'
  <2>1. ~ keepOldJobs /\ s # latest => ~ due
    BY <1>3
  <2>2. s = latest /\ ~ stop[s] => s \in failed \/ output' = s
    BY <1>3, <1>5
  <2>3. UNCHANGED <<latest, queue, stop, failed, alive, options>>
    BY <1>1 DEF taskVars
  <2>4. keepOldJobs' = keepOldJobs
    BY <2>3 DEF keepOldJobs
  <2>5. CASE s = latest
    BY <1>1, <1>4, <2>2, <2>3, <2>4, <2>5 DEF Newest
  <2>6. CASE s # latest
    BY <1>1, <1>4, <1>5, <2>1, <2>3, <2>4, <2>6 DEF Newest
  <2> QED BY <2>5, <2>6
<1>12. DeliversNewest
  BY <1>3, <1>5 DEF DeliversNewest
<1> QED BY <1>7, <1>8, <1>10, <1>11, <1>12 DEF IInv

\* The callback of the delay: the submission that waits is handed to the pool.
LEMMA DelaySubmits ==
  ASSUME IInv, front # <<>>, front' = Tail(front), Head(front).for = "delay", alive,
         reset' = FALSE, queue # None, Submit(queue, states, nJobs[queue]), queue' = None,
         UNCHANGED <<options, latest, nJobs, stop, timer, output, delivered, alive>>
  PROVE  IInv'
<1>1. /\ Typed /\ Tasks /\ Order /\ Newest
      /\ front \in Seq(FrontCall) /\ Once(front) /\ states \in Seq(Submission) /\ Rising(states)
  BY DEF IInv, Typed, Tasks, Order
<1>2. front' \in Seq(FrontCall) /\ Once(front') /\ Called(front') = Called(front)
  BY <1>1, Dequeued
<1>3. queue \in Submission /\ queue = latest /\ Fresh(queue) /\ nJobs[queue] \in Nat
  BY <1>1 DEF Typed, Order
<1>4. \A t \in ToSet(states) : t \in Submission /\ t < queue
  <2>1. ToSet(states) \subseteq Submission
    BY <1>1, StatesTyped
  <2>2. \A t \in ToSet(states) : t <= queue /\ t # queue
    BY <1>1, <1>3 DEF Order, Fresh
  <2> QED BY <1>3, <2>1, <2>2 DEF Submission
<1>5. /\ states' \in Seq(Submission) /\ Rising(states') /\ states' # <<>>
      /\ ToSet(states') = ToSet(states) \cup {queue}
      /\ waiting' \in [Submission -> Nat] /\ count' \in [Submission -> Nat]
      /\ count'[queue] = waiting'[queue] + running'[queue]
      /\ \A t \in Submission : t # queue => waiting'[t] = waiting[t] /\ count'[t] = count[t]
      /\ UNCHANGED <<running, skipped, failed>>
  <2> DEFINE jobs == nJobs[queue]
  <2>1. jobs \in Nat /\ Submit(queue, states, jobs) /\ \A t \in ToSet(states) : t < queue
    BY <1>3, <1>4
  <2> HIDE DEF jobs
  <2> QED BY <1>1, <1>3, <2>1, Submits
<1>6. Typed'
  BY <1>1, <1>2, <1>5 DEF Typed
<1>7. Tasks'
  <2>1. /\ queue \in ToSet(states')
        /\ \A t : t # queue /\ t \in ToSet(states') => t \in ToSet(states)
        /\ \A t : t # queue /\ t \in ToSet(states) =>
             t \in ToSet(states') \/ (t \notin Called(front') /\ count[t] = 0)
    BY <1>5
  <2>2. queue \notin skipped \/ stop'[queue]
    BY <1>1, <1>3 DEF Tasks
  <2>3. /\ UNCHANGED <<running, skipped, delivered>>
        /\ alive' => alive
        /\ Called(front') \subseteq Called(front)
        /\ \A t \in Submission : stop[t] => stop'[t]
    BY <1>1, <1>2, <1>5
  <2>4. /\ count'[queue] = waiting'[queue] + running'[queue]
        /\ \A t \in Submission : t # queue => waiting'[t] = waiting[t] /\ count'[t] = count[t]
    BY <1>5
  <2>5. Typed /\ Tasks /\ queue \in Submission /\ Fresh(queue) /\ Once(front')
    BY <1>1, <1>2, <1>3
  <2> QED BY <2>1, <2>2, <2>3, <2>4, <2>5, TasksSubmitted
<1>8. \A t \in Submission : t # queue /\ Fresh(t) => Fresh(t)'
  BY <1>2, <1>5 DEF Fresh
<1>9. Order'
  <2>1. \A t \in ToSet(states') : t <= latest
    BY <1>1, <1>3, <1>5 DEF Order, Submission
  <2>2. \A t \in Submission : t > latest => t # queue
    BY <1>3 DEF Submission
  <2> QED BY <1>1, <1>5, <1>8, <2>1, <2>2 DEF Order
<1>10. Newest'
  BY <1>1, <1>3, <1>5 DEF Newest, keepOldJobs
<1> QED BY <1>6, <1>7, <1>9, <1>10 DEF IInv

\* It has to wait, or nothing waits, or the delay was started again.
LEMMA DelayKeeps ==
  ASSUME IInv, front # <<>>, front' = Tail(front), Head(front).for = "delay",
         reset' \in BOOLEAN, reset' => reset, queue # None => reset' \/ (queuedDispatch /\ hasJobs),
         UNCHANGED <<options, latest, nJobs, stop, timer, output, delivered, alive,
                     queue, states, taskVars>>
  PROVE  IInv'
<1>1. /\ Typed /\ Tasks /\ Order /\ Newest /\ front \in Seq(FrontCall) /\ Once(front)
  BY DEF IInv, Typed, Tasks
<1>2. front' \in Seq(FrontCall) /\ Once(front') /\ Called(front') = Called(front)
  BY <1>1, Dequeued
<1>3. Tasks' /\ Newest'
  BY <1>1, <1>2 DEF Tasks, Newest, keepOldJobs, taskVars
<1>4. \A t : Fresh(t) => Fresh(t)'
  BY <1>2 DEF Fresh, taskVars
<1>5. Order'
  BY <1>1, <1>4 DEF Order, hasJobs, queuedDispatch, delayDispatch
<1> QED BY <1>1, <1>2, <1>3, <1>5 DEF IInv, Typed, taskVars

LEMMA DelayCalls == ASSUME IInv, DelayCallback PROVE IInv'
<1> USE DEF DelayCallback
<1>1. reset \in BOOLEAN /\ Order
  BY DEF IInv, Typed
<1>2. CASE alive /\ Head(front).s = timer.s /\ DelayPassed /\ queue # None
           /\ ~(queuedDispatch /\ hasJobs)
  <2>1. reset' = FALSE /\ Submit(queue, states, nJobs[queue]) /\ queue' = None
    BY <1>2 DEF DelayPassed
  <2> QED BY <1>2, <2>1, DelaySubmits
<1>3. CASE alive /\ Head(front).s = timer.s /\ DelayPassed
           /\ ~(queue # None /\ ~(queuedDispatch /\ hasJobs))
  <2>1. reset' = FALSE /\ UNCHANGED <<queue, states, taskVars>>
    BY <1>3 DEF DelayPassed
  <2> QED BY <1>3, <2>1, DelayKeeps
<1>4. CASE ~(alive /\ Head(front).s = timer.s)
           /\ UNCHANGED <<taskVars, background, states, queue, reset>>
  <2>1. queue # None => reset' \/ (queuedDispatch /\ hasJobs)
    BY <1>1, <1>4 DEF Order
  <2> QED BY <1>1, <1>4, <2>1, DelayKeeps
<1> QED BY <1>2, <1>3, <1>4

-----------------------------------------------------------------------------
LEMMA Initially == Init => IInv
<1> SUFFICES ASSUME Init PROVE IInv
  OBVIOUS
<1>1. /\ states = <<>> /\ ToSet(states) = {} /\ Rising(states)
      /\ front = <<>> /\ Called(front) = {} /\ Once(front)
  BY DEF Init, ToSet, Rising, Called, Once
<1>2. Typed
  <2>1. /\ Zero \in [Submission -> Nat] /\ [s \in Submission |-> FALSE] \in [Submission -> BOOLEAN]
        /\ states \in Seq(Submission) /\ front \in Seq(FrontCall)
    BY <1>1, EmptySeq DEF Zero
  <2>2. [s |-> None, armed |-> FALSE] \in [s : Submission \cup {None}, armed : BOOLEAN]
    OBVIOUS
  <2>3. 0 \in 0 .. MaxDispatch
    BY ConstantsAssumption
  <2> QED BY <2>1, <2>2, <2>3 DEF Init, Typed
<1>3. Tasks
  BY <1>1 DEF Init, Tasks, Zero
<1>4. Order
  BY <1>1 DEF Init, Order, Zero, Fresh
<1>5. Newest
  BY <1>1 DEF Init, Newest
<1> QED BY <1>2, <1>3, <1>4, <1>5 DEF IInv

LEMMA Steps == IInv /\ [Next]_vars => IInv' /\ [DeliversNewest]_vars
<1> SUFFICES ASSUME IInv, [Next]_vars PROVE IInv' /\ [DeliversNewest]_vars
  OBVIOUS
<1>1. ASSUME UNCHANGED delivered PROVE DeliversNewest
  BY <1>1 DEF DeliversNewest
<1>2. ASSUME NEW s \in Submission, SkipJob(s) PROVE IInv' /\ UNCHANGED delivered
  BY <1>2, Skips DEF SkipJob, mainVars
<1>3. ASSUME NEW s \in Submission, StartJob(s) PROVE IInv' /\ UNCHANGED delivered
  BY <1>3, Starts DEF StartJob, mainVars
<1>4. ASSUME NEW s \in Submission, EndJob(s) PROVE IInv' /\ UNCHANGED delivered
  BY <1>4, Ends DEF EndJob, mainVars
<1>5. CASE DelayExpires
  BY <1>1, <1>5, Expires DEF DelayExpires, mainVars
<1>6. CASE DoneCallback
  <2>1. CASE ~ alive
    BY <1>1, <1>6, <2>1, DoneVoid DEF DoneCallback
  <2>2. CASE alive /\ queuedDispatch /\ queue # None
    BY <1>1, <1>6, <2>2, DoneSubmits DEF DoneCallback, Done
  <2>3. CASE alive /\ ~(queuedDispatch /\ queue # None)
    BY <1>6, <2>3, DoneEnds
  <2> QED BY <2>1, <2>2, <2>3
<1>7. CASE DelayCallback
  BY <1>1, <1>7, DelayCalls DEF DelayCallback
<1>8. ASSUME NEW jobs \in JobCounts, Dispatch(jobs) PROVE IInv' /\ UNCHANGED delivered
  BY <1>8, Dispatches DEF Dispatch
<1>9. CASE StopJobs
  BY <1>1, <1>9, Stops DEF StopJobs
<1>10. ASSUME NEW n \in Networks, MoveTo(n) PROVE IInv' /\ UNCHANGED delivered
  BY <1>10, Moves DEF MoveTo
<1>11. CASE Destroy
  BY <1>1, <1>11, Destroys DEF Destroy
<1>12. CASE UNCHANGED vars
  BY <1>1, <1>12
     DEF IInv, Typed, Tasks, Order, Newest, Fresh, vars, taskVars, mainVars, hasJobs,
         keepOldJobs, queuedDispatch, delayDispatch
<1> QED BY <1>1, <1>2, <1>3, <1>4, <1>5, <1>6, <1>7, <1>8, <1>9, <1>10, <1>11, <1>12
        DEF Next, Worker, FrontThread, User

\* The invariant holds in every reachable state, for any options, networks, job counts and
\* bound on the dispatches.
THEOREM Inductive == Spec => []IInv
<1>1. IInv /\ [Next]_vars => IInv'
  BY Steps
<1> QED BY <1>1, Initially, PTL DEF Spec

-----------------------------------------------------------------------------

\* The jobs of the submissions in S, of which s has j[s].
Numbered(j, S) == UNION {{s} \X (1 .. j[s]) : s \in S}

\* There are finitely many.
LEMMA JobsFinite ==
  ASSUME NEW S \in SUBSET Submission, NEW j \in [Submission -> Nat]
  PROVE  IsFiniteSet(Numbered(j, S))
<1> DEFINE f == [s \in S |-> {s} \X (1 .. j[s])]
           T == {{s} \X (1 .. j[s]) : s \in S}
<1>1. IsFiniteSet(S)
  <2>1. IsFiniteSet(Submission)
    BY FS_Interval, ConstantsAssumption DEF Submission
  <2> QED BY <2>1, FS_Subset
<1>2. IsFiniteSet(T)
  <2>1. f \in Surjection(S, T)
    BY DEF Surjection
  <2> QED BY <1>1, <2>1, FS_Surjection
<1>3. ASSUME NEW t \in T PROVE IsFiniteSet(t)
  <2>1. PICK s \in S : t = {s} \X (1 .. j[s])
    OBVIOUS
  <2>2. IsFiniteSet({s})
    BY FS_Singleton
  <2>3. 1 \in Int /\ j[s] \in Int
    OBVIOUS
  <2>4. IsFiniteSet(1 .. j[s])
    BY <2>3, FS_Interval
  <2> QED BY <2>1, <2>2, <2>4, FS_Product
<1> QED BY <1>2, <1>3, FS_UNION DEF Numbered

\* A submission adds its jobs.
LEMMA JobsAdded ==
  ASSUME NEW S \in SUBSET Submission, NEW j \in [Submission -> Nat],
         NEW s \in Submission, s \notin S
  PROVE  /\ Cardinality(Numbered(j, S \cup {s})) = Cardinality(Numbered(j, S)) + j[s]
         /\ Cardinality(Numbered(j, S)) \in Nat
<1> DEFINE A == Numbered(j, S)
           B == {s} \X (1 .. j[s])
<1>1. IsFiniteSet(A) /\ Cardinality(A) \in Nat
  BY JobsFinite, FS_CardinalityType
<1>2. IsFiniteSet(B) /\ Cardinality(B) = j[s]
  <2>1. j[s] \in Nat /\ 1 \in Int /\ j[s] \in Int
    OBVIOUS
  <2>2. IsFiniteSet({s}) /\ Cardinality({s}) = 1
    BY FS_Singleton
  <2>3. IsFiniteSet(1 .. j[s]) /\ Cardinality(1 .. j[s]) = j[s]
    BY <2>1, FS_Interval
  <2>4. IsFiniteSet(B) /\ Cardinality(B) = 1 * j[s]
    BY <2>2, <2>3, FS_Product
  <2> QED BY <2>1, <2>4
<1>3. A \cap B = {} /\ Numbered(j, S \cup {s}) = A \cup B
  BY DEF Numbered
<1> HIDE DEF A, B
<1>4. /\ Cardinality(A \cup B) = Cardinality(A) + Cardinality(B) - Cardinality(A \cap B)
      /\ Cardinality({}) = 0
  BY <1>1, <1>2, FS_Union, FS_EmptySet
<1>5. j[s] \in Nat
  OBVIOUS
<1>6. Cardinality(A \cup B) = Cardinality(A) + j[s]
  <2>1. Cardinality(A \cup B) = Cardinality(A) + j[s] - 0
    BY <1>2, <1>3, <1>4
  <2> QED BY <1>1, <1>5, <2>1
<1> QED BY <1>1, <1>3, <1>6 DEF A

\* The rest of the types: what TypeOK says beyond Typed.
Rest ==
  /\ options \in Configurations /\ network \in Networks
  /\ background \in [Networks -> Int]
  /\ failed \subseteq Submission /\ output \in Submission \cup {None}
  /\ moved \in BOOLEAN

\* What a step leaves: the types, the counts, and the old results that were due.
Settles == Rest' /\ PlainJobsAreCounted' /\ (~queuedDispatch => DeliversKept)

\* One for a dispatch that is delayed.
Pending == IF reset THEN 1 ELSE 0

\* The counter of one network changes.
LEMMA Notified ==
  ASSUME Rest, NEW d \in Int, Notify(d)
  PROVE  /\ background' \in [Networks -> Int] /\ background'[network] = background[network] + d
         /\ \A n \in Networks : n # network => background'[n] = background[n]
BY DEF Rest, Notify

\* The count follows what is waited for.
LEMMA Tally ==
  ASSUME Rest, JobsAreCounted, alive, alive', network' = network, NEW d \in Int, Notify(d),
         Outstanding \in Int, Outstanding' + Pending' = (Outstanding + Pending) + d
  PROVE  JobsAreCounted'
<1>1. /\ background'[network] = background[network] + d
      /\ \A n \in Networks : n # network => background'[n] = background[n]
  BY Notified
<1>2. /\ network \in Networks /\ background[network] = Outstanding + Pending
      /\ \A n \in Networks : n # network => background[n] = 0
  BY DEF Rest, JobsAreCounted, Pending
<1>3. background'[network] = Outstanding' + Pending'
  BY <1>1, <1>2
<1> QED BY <1>1, <1>2, <1>3 DEF JobsAreCounted, Pending

\* A step that touches nothing that is counted.
LEMMA TallyKept ==
  ASSUME PlainJobsAreCounted,
         UNCHANGED <<options, network, background, nJobs, states, reset, alive, moved>>
  PROVE  PlainJobsAreCounted'
BY DEF PlainJobsAreCounted, JobsAreCounted, Outstanding, JobsOf, queuedDispatch

\* What is waited for, by the submissions among the states.
LEMMA Waited ==
  ASSUME Typed
  PROVE  /\ ToSet(states) \subseteq Submission
         /\ Outstanding = Cardinality(Numbered(nJobs, ToSet(states))) /\ Outstanding \in Nat
<1>1. ToSet(states) \subseteq Submission /\ nJobs \in [Submission -> Nat]
  BY StatesTyped DEF Typed
<1>2. Outstanding = Cardinality(Numbered(nJobs, ToSet(states)))
  BY DEF Outstanding, JobsOf, Numbered
<1>3. IsFiniteSet(Numbered(nJobs, ToSet(states)))
  BY <1>1, JobsFinite
<1> QED BY <1>1, <1>2, <1>3, FS_CardinalityType

\* A submission joins the states, or leaves them.
LEMMA StateJoins ==
  ASSUME Typed, NEW s \in Submission, s \notin ToSet(states),
         ToSet(states') = ToSet(states) \cup {s}, nJobs' \in [Submission -> Nat],
         \A t \in ToSet(states) : nJobs'[t] = nJobs[t]
  PROVE  Outstanding' = Outstanding + nJobs'[s]
<1> DEFINE S == ToSet(states)
<1>1. S \subseteq Submission /\ Outstanding = Cardinality(Numbered(nJobs, S))
  BY Waited
<1>2. Outstanding' = Cardinality(Numbered(nJobs', S \cup {s}))
  BY DEF Outstanding, JobsOf, Numbered
<1>3. Numbered(nJobs, S) = Numbered(nJobs', S)
  BY DEF Numbered
<1> HIDE DEF S
<1>4. Cardinality(Numbered(nJobs', S \cup {s})) = Cardinality(Numbered(nJobs', S)) + nJobs'[s]
  BY <1>1, JobsAdded DEF S
<1> QED BY <1>1, <1>2, <1>3, <1>4

LEMMA StateLeaves ==
  ASSUME Typed, NEW s \in ToSet(states), ToSet(states') = ToSet(states) \ {s}, nJobs' = nJobs
  PROVE  Outstanding' = Outstanding - nJobs[s] /\ Outstanding' \in Nat
<1> DEFINE S == ToSet(states) \ {s}
<1>1. /\ s \in Submission /\ S \subseteq Submission /\ s \notin S
      /\ nJobs \in [Submission -> Nat] /\ nJobs[s] \in Nat
      /\ Outstanding = Cardinality(Numbered(nJobs, ToSet(states)))
  BY Waited DEF Typed
<1>2. ToSet(states) = S \cup {s}
  OBVIOUS
<1>3. Outstanding' = Cardinality(Numbered(nJobs, S))
  BY DEF Outstanding, JobsOf, Numbered
<1> HIDE DEF S
<1>4. /\ Cardinality(Numbered(nJobs, S \cup {s})) = Cardinality(Numbered(nJobs, S)) + nJobs[s]
      /\ Cardinality(Numbered(nJobs, S)) \in Nat
  BY <1>1, JobsAdded
<1> QED BY <1>1, <1>2, <1>3, <1>4

\* The steps of the workers and the timer, which touch nothing of this but failed.
LEMMA WorkerSettles ==
  ASSUME Rest, PlainJobsAreCounted, UNCHANGED mainVars, failed' \subseteq Submission
  PROVE  Settles
<1>1. Rest' /\ DeliversKept
  BY DEF Rest, DeliversKept, mainVars
<1> QED BY <1>1, TallyKept DEF Settles, mainVars

LEMMA DispatchSettles ==
  ASSUME IInv, IInv', Rest, PlainJobsAreCounted, NEW jobs \in JobCounts, Dispatch(jobs)
  PROVE  Settles
<1> DEFINE n == latest + 1
<1>1. /\ Typed /\ Order /\ jobs \in Nat /\ alive /\ latest < MaxDispatch
      /\ nJobs' = [nJobs EXCEPT ![n] = jobs] /\ nJobs \in [Submission -> Nat]
      /\ nJobs' \in [Submission -> Nat] /\ reset \in BOOLEAN
      /\ UNCHANGED <<options, network, front, output, delivered, alive, moved>>
  BY ConstantsAssumption DEF IInv, Dispatch, Typed
<1>2. n \in Submission /\ \A t \in ToSet(states) : t < n
  BY <1>1, NextIsFresh
<1>3. \/ Delayed(n)
      \/ queuedDispatch /\ Queued(n)
      \/ Submit(n, states, jobs) /\ Notify(jobs) /\ UNCHANGED <<queue, reset, timer>>
  BY DEF Dispatch
<1> HIDE DEF n
<1>4. /\ nJobs'[n] = jobs /\ n \notin ToSet(states) /\ \A t \in ToSet(states) : nJobs'[t] = nJobs[t]
      /\ ToSet(states) \subseteq Submission /\ Outstanding \in Nat
  BY <1>1, <1>2, Waited DEF Submission
<1>5. CASE Delayed(n)
  <2>1. /\ UNCHANGED <<taskVars, states>> /\ reset' = TRUE /\ Notify(1 - Pending)
    BY <1>5 DEF Delayed, Pending
  <2>2. 1 - Pending \in Int /\ Pending \in {0, 1} /\ Pending' = 1
    BY <2>1 DEF Pending
  <2>3. Outstanding' = Outstanding
    BY <1>4, <2>1 DEF Outstanding, JobsOf
  <2>4. Outstanding' + Pending' = (Outstanding + Pending) + (1 - Pending)
    BY <1>4, <2>2, <2>3
  <2>5. JobsAreCounted => JobsAreCounted'
    BY <1>1, <1>4, <2>1, <2>2, <2>4, Tally
  <2>6. background' \in [Networks -> Int]
    BY <2>1, <2>2, Notified
  <2> QED BY <1>1, <2>1, <2>5, <2>6
          DEF Settles, Rest, PlainJobsAreCounted, DeliversKept, queuedDispatch, taskVars
<1>6. CASE queuedDispatch /\ Queued(n)
  BY <1>1, <1>6 DEF Settles, Rest, PlainJobsAreCounted, Queued, queuedDispatch, taskVars
<1>7. CASE Submit(n, states, jobs) /\ Notify(jobs) /\ UNCHANGED <<queue, reset, timer>>
  <2>1. ToSet(states') = ToSet(states) \cup {n} /\ failed' = failed
    <3>1. states \in Seq(Submission) /\ Rising(states)
      BY <1>1 DEF Typed, Order
    <3> QED BY <1>2, <1>7, <3>1, Submitted DEF Submit
  <2>2. Outstanding' = Outstanding + jobs
    BY <1>1, <1>2, <1>4, <2>1, StateJoins
  <2>3. Pending' = Pending /\ Pending \in Int
    BY <1>7 DEF Pending
  <2>4. Outstanding' + Pending' = (Outstanding + Pending) + jobs
    BY <1>1, <1>4, <2>2, <2>3
  <2>5. JobsAreCounted => JobsAreCounted'
    BY <1>1, <1>4, <1>7, <2>4, Tally
  <2>6. background' \in [Networks -> Int]
    BY <1>1, <1>7, Notified
  <2> QED BY <1>1, <2>1, <2>5, <2>6
          DEF Settles, Rest, PlainJobsAreCounted, DeliversKept, queuedDispatch
<1> QED BY <1>3, <1>5, <1>6, <1>7

LEMMA DoneSettles ==
  ASSUME IInv, IInv', Rest, PlainJobsAreCounted, DoneCallback
  PROVE  Settles
<1> DEFINE s == Head(front).s
           due == Due(s, Last(states) = s)
<1>1. /\ Typed /\ Tasks /\ Order /\ front # <<>> /\ Head(front).for = "done" /\ front' = Tail(front)
      /\ UNCHANGED <<options, network, latest, nJobs, stop, reset, timer, alive, moved>>
  BY DEF IInv, DoneCallback
<1>2. /\ s \in Submission /\ (alive => s \in ToSet(states))
      /\ nJobs \in [Submission -> Nat] /\ nJobs[s] \in Nat
      /\ Outstanding \in Nat /\ Pending' = Pending /\ Pending \in Int
  <2>1. s \in Submission /\ (alive => s \in ToSet(states))
    BY <1>1, CallbackTaken
  <2>2. nJobs \in [Submission -> Nat] /\ Outstanding \in Nat
    BY <1>1, Waited DEF Typed
  <2> QED BY <1>1, <2>1, <2>2 DEF Pending
<1>3. CASE ~ alive
  BY <1>1, <1>3, TallyKept DEF DoneCallback, Settles, Rest, DeliversKept, taskVars
<1>4. CASE alive /\ queuedDispatch /\ queue # None
  <2>1. /\ Notify(nJobs[queue]) /\ nJobs[queue] \in Int
        /\ UNCHANGED <<output, delivered, failed>>
    BY <1>1, <1>4 DEF DoneCallback, Done, Submit, Typed
  <2>2. background' \in [Networks -> Int]
    BY <2>1, Notified
  <2> QED BY <1>1, <1>4, <2>1, <2>2 DEF Settles, Rest, PlainJobsAreCounted, queuedDispatch
<1>5. CASE alive /\ ~(queuedDispatch /\ queue # None)
  <2>1. /\ states' = Others(s) /\ Notify(-nJobs[s]) /\ UNCHANGED <<queue, taskVars>>
        /\ IF due THEN Deliver(s) ELSE UNCHANGED <<output, delivered>>
    BY <1>1, <1>5 DEF DoneCallback, Done, Others
  <2>2. -nJobs[s] \in Int /\ s \in ToSet(states) /\ s \in Submission
    BY <1>1, <1>2, <1>5, CallbackTaken
  <2>3. ToSet(states') = ToSet(states) \ {s}
    BY <1>1, <2>1, <2>2, StateTaken
  <2>4. keepOldJobs => stop[s] \/ s \in delivered'
    BY <2>1 DEF Due, Deliver
  <2>5. output' \in Submission \cup {None}
    BY <2>1, <2>2 DEF Deliver, Rest
  <2>6. background' \in [Networks -> Int]
    BY <2>1, <2>2, Notified
  <2> HIDE DEF s, due
  <2>7. Outstanding' = Outstanding - nJobs[s] /\ Outstanding' \in Nat
    BY <1>1, <2>2, <2>3, StateLeaves
  <2>8. Outstanding' + Pending' = (Outstanding + Pending) + (-nJobs[s])
    BY <1>2, <2>2, <2>7
  <2>9. JobsAreCounted => JobsAreCounted'
    BY <1>1, <1>2, <1>5, <2>1, <2>2, <2>8, Tally
  <2>10. DeliversKept
    BY <2>3, <2>4 DEF DeliversKept
  <2> QED BY <1>1, <2>1, <2>5, <2>6, <2>9, <2>10
          DEF Settles, Rest, PlainJobsAreCounted, queuedDispatch, taskVars
<1> QED BY <1>3, <1>4, <1>5

LEMMA DelaySettles ==
  ASSUME IInv, IInv', Rest, PlainJobsAreCounted, DelayCallback
  PROVE  Settles
<1>1. /\ Typed /\ Order /\ Typed'
      /\ UNCHANGED <<options, network, latest, nJobs, stop, timer, output, delivered, alive, moved>>
      /\ nJobs \in [Submission -> Nat] /\ Outstanding \in Nat /\ Pending \in {0, 1}
  BY Waited DEF IInv, DelayCallback, Typed, Pending
<1>2. CASE alive /\ DelayPassed /\ queue # None /\ ~(queuedDispatch /\ hasJobs)
  <2>1. /\ reset' = FALSE /\ Submit(queue, states, nJobs[queue])
        /\ Notify(nJobs[queue] - Pending) /\ failed' = failed
    BY <1>2 DEF DelayPassed, Pending, Submit
  <2>2. /\ queue \in Submission /\ queue = latest /\ queue \notin ToSet(states)
        /\ nJobs[queue] \in Nat /\ nJobs[queue] - Pending \in Int /\ Pending' = 0
    BY <1>1, <1>2, <2>1 DEF Order, Fresh, Typed, Pending
  <2>3. ToSet(states') = ToSet(states) \cup {queue}
    <3>1. states \in Seq(Submission) /\ Rising(states) /\ ToSet(states) \subseteq Submission
      BY <1>1, Waited DEF Typed, Order
    <3>2. \A t \in ToSet(states) : t < queue
      BY <1>1, <2>2, <3>1 DEF Order, Submission
    <3> QED BY <2>1, <2>2, <3>1, <3>2, Submitted DEF Submit
  <2>4. Outstanding' = Outstanding + nJobs[queue]
    <3>1. nJobs' \in [Submission -> Nat] /\ nJobs' = nJobs
      BY <1>1
    <3> QED BY <1>1, <2>2, <2>3, <3>1, StateJoins
  <2>5. Outstanding' + Pending' = (Outstanding + Pending) + (nJobs[queue] - Pending)
    BY <1>1, <2>2, <2>4
  <2>6. JobsAreCounted => JobsAreCounted'
    BY <1>1, <1>2, <2>1, <2>2, <2>5, Tally
  <2>7. background' \in [Networks -> Int]
    BY <2>1, <2>2, Notified
  <2> QED BY <1>1, <2>1, <2>3, <2>6, <2>7
          DEF Settles, Rest, PlainJobsAreCounted, DeliversKept, queuedDispatch
<1>3. CASE alive /\ DelayPassed /\ ~(queue # None /\ ~(queuedDispatch /\ hasJobs))
  <2>1. /\ reset' = FALSE /\ Notify(-Pending) /\ UNCHANGED <<queue, states, taskVars>>
        /\ -Pending \in Int /\ Pending' = 0
    BY <1>1, <1>3 DEF DelayPassed, Pending
  <2>2. Outstanding' = Outstanding
    BY <1>1, <2>1 DEF Outstanding, JobsOf
  <2>3. Outstanding' + Pending' = (Outstanding + Pending) + (-Pending)
    BY <1>1, <2>1, <2>2
  <2>4. JobsAreCounted => JobsAreCounted'
    BY <1>1, <1>3, <2>1, <2>3, Tally
  <2>5. background' \in [Networks -> Int]
    BY <2>1, Notified
  <2> QED BY <1>1, <2>1, <2>4, <2>5
          DEF Settles, Rest, PlainJobsAreCounted, DeliversKept, queuedDispatch, taskVars
<1>4. CASE UNCHANGED <<taskVars, background, states, queue, reset>>
  BY <1>1, <1>4, TallyKept DEF Settles, Rest, DeliversKept, taskVars
<1> QED BY <1>2, <1>3, <1>4 DEF DelayCallback

\* Nothing is counted when nothing is waited for.
LEMMA NothingWaited ==
  ASSUME ~ hasJobs
  PROVE  Outstanding = 0
<1>1. JobsOf(ToSet(states)) = {}
  BY DEF hasJobs, ToSet, JobsOf
<1> QED BY <1>1, FS_EmptySet DEF Outstanding

LEMMA MoveSettles ==
  ASSUME Rest, PlainJobsAreCounted, NEW n \in Networks, MoveTo(n)
  PROVE  Settles
<1>1. /\ network' = n /\ alive /\ moved' = (moved \/ hasJobs \/ reset)
      /\ UNCHANGED <<background, options, states, nJobs, reset, alive, output, delivered, failed>>
  BY DEF MoveTo, taskVars
<1>2. Outstanding' = Outstanding
  BY <1>1 DEF Outstanding, JobsOf
<1>3. ASSUME ~ moved', JobsAreCounted PROVE JobsAreCounted'
  <2>1. ~ reset /\ Outstanding = 0
    BY <1>1, <1>3, NothingWaited
  <2>2. \A m \in Networks : background[m] = 0
    BY <1>3, <2>1 DEF JobsAreCounted
  <2> QED BY <1>1, <1>2, <2>1, <2>2 DEF JobsAreCounted
<1>4. Rest'
  BY <1>1 DEF Rest, hasJobs
<1> QED BY <1>1, <1>3, <1>4 DEF Settles, PlainJobsAreCounted, DeliversKept, queuedDispatch

LEMMA DestroySettles ==
  ASSUME IInv, Rest, PlainJobsAreCounted, Destroy
  PROVE  Settles
<1> DEFINE d == -(Outstanding + Pending)
<1>1. /\ alive /\ ~ alive' /\ Notify(d)
      /\ UNCHANGED <<options, network, output, delivered, failed, moved>>
  BY DEF Destroy, taskVars, Pending
<1>2. Outstanding \in Nat /\ Pending \in {0, 1} /\ d \in Int
  BY Waited DEF IInv, Pending
<1>3. /\ background' \in [Networks -> Int] /\ background'[network] = background[network] + d
      /\ \A n \in Networks : n # network => background'[n] = background[n]
  BY <1>1, <1>2, Notified
<1>4. ASSUME JobsAreCounted PROVE JobsAreCounted'
  <2>1. /\ background[network] = Outstanding + Pending
        /\ \A n \in Networks : n # network => background[n] = 0
    BY <1>1, <1>4 DEF JobsAreCounted, Pending, Rest
  <2>2. background'[network] = 0
    BY <1>2, <1>3, <2>1
  <2>3. \A n \in Networks : background'[n] = 0
    BY <1>3, <2>1, <2>2
  <2> QED BY <1>1, <2>3 DEF JobsAreCounted
<1> QED BY <1>1, <1>3, <1>4
        DEF Settles, Rest, PlainJobsAreCounted, DeliversKept, queuedDispatch

LEMMA Settling ==
  IInv /\ IInv' /\ Rest /\ PlainJobsAreCounted /\ [Next]_vars
    => Rest' /\ PlainJobsAreCounted' /\ [~queuedDispatch => DeliversKept]_vars
<1> SUFFICES ASSUME IInv, IInv', Rest, PlainJobsAreCounted, [Next]_vars
    PROVE  Rest' /\ PlainJobsAreCounted' /\ [~queuedDispatch => DeliversKept]_vars
  OBVIOUS
<1>1. ASSUME NEW s \in Submission, SkipJob(s) \/ StartJob(s) \/ EndJob(s) PROVE Settles
  <2>1. UNCHANGED mainVars /\ failed' \subseteq Submission
    BY <1>1 DEF SkipJob, StartJob, EndJob, Rest
  <2> QED BY <2>1, WorkerSettles
<1>2. CASE DelayExpires
  <2>1. UNCHANGED mainVars /\ failed' \subseteq Submission
    BY <1>2 DEF DelayExpires, Rest, taskVars
  <2> QED BY <2>1, WorkerSettles DEF Settles
<1>3. CASE DoneCallback
  BY <1>3, DoneSettles DEF Settles
<1>4. CASE DelayCallback
  BY <1>4, DelaySettles DEF Settles
<1>5. ASSUME NEW jobs \in JobCounts, Dispatch(jobs) PROVE Settles
  BY <1>5, DispatchSettles
<1>6. CASE StopJobs
  <2>1. UNCHANGED <<options, network, background, nJobs, states, reset, alive, moved, output,
                    delivered, failed>>
    BY <1>6 DEF StopJobs, taskVars
  <2>2. PlainJobsAreCounted'
    BY <2>1, TallyKept
  <2> QED BY <2>1, <2>2 DEF Rest, DeliversKept
<1>7. ASSUME NEW n \in Networks, MoveTo(n) PROVE Settles
  BY <1>7, MoveSettles
<1>8. CASE Destroy
  BY <1>8, DestroySettles DEF Settles
<1>9. CASE UNCHANGED vars
  <2>1. UNCHANGED mainVars /\ failed' \subseteq Submission
    BY <1>9 DEF vars, taskVars, Rest
  <2> QED BY <2>1, WorkerSettles DEF Settles
<1> QED BY <1>1, <1>2, <1>3, <1>4, <1>5, <1>6, <1>7, <1>8, <1>9
        DEF Next, Worker, FrontThread, User, Settles

LEMMA InitiallySettled == Init => Rest /\ PlainJobsAreCounted
<1> SUFFICES ASSUME Init PROVE Rest /\ JobsAreCounted
  BY DEF PlainJobsAreCounted
<1>1. Outstanding = 0
  BY NothingWaited DEF Init, hasJobs
<1>2. /\ background = [n \in Networks |-> 0] /\ reset = FALSE
      /\ options \in Configurations /\ network \in Networks
      /\ failed = {} /\ output = None /\ moved = FALSE
  BY DEF Init
<1>3. JobsAreCounted
  BY <1>1, <1>2 DEF JobsAreCounted
<1>4. background \in [Networks -> Int]
  BY <1>2
<1>5. output \in Submission \cup {None} /\ moved \in BOOLEAN
  BY <1>2
<1> QED BY <1>2, <1>3, <1>4, <1>5 DEF Rest

LEMMA Settled == Spec => [](IInv /\ Rest /\ PlainJobsAreCounted)
<1>1. IInv /\ Rest /\ PlainJobsAreCounted /\ [Next]_vars
        => (IInv /\ Rest /\ PlainJobsAreCounted)'
  BY Steps, Settling
<1> QED BY <1>1, Initially, InitiallySettled, PTL DEF Spec

\* Every variable keeps its type: no counter of tasks goes below zero.
THEOREM TypeCorrect == Spec => []TypeOK
<1>1. IInv /\ Rest => TypeOK
  BY DEF IInv, Typed, Rest, TypeOK
<1> QED BY <1>1, Settled, PTL

\* The count of background jobs of every network is right, as long as the processor queues no
\* dispatch and is not moved while it has jobs: those handed to the pool whose callback has
\* not run, one for a delayed dispatch, and none when the processor is gone.
THEOREM JobsCounted == Spec => []PlainJobsAreCounted
BY Settled, PTL

\* With KeepOldResults no result is lost, as long as nothing is queued: a state is removed
\* only when its done is called or it was stopped.
THEOREM KeptResults == Spec => PlainResultsReachDone
<1>1. IInv /\ Rest /\ PlainJobsAreCounted /\ [Next]_vars => [~queuedDispatch => DeliversKept]_vars
  BY Steps, Settling
<1> QED BY <1>1, Settled, PTL DEF Spec, PlainResultsReachDone

\* The assertion of removeState holds: the callback of a submission finds its state, which
\* nothing else has removed, whatever was dispatched, stopped or delayed meanwhile.
THEOREM CallbackFindsState == Spec => []StateFound
<1>1. IInv => StateFound
  <2> SUFFICES ASSUME IInv, NEW i \in DOMAIN front, alive, front[i].for = "done"
      PROVE  front[i].s \in ToSet(states)
    BY DEF StateFound
  <2>1. Typed /\ Tasks /\ front \in Seq(FrontCall)
    BY DEF IInv, Typed
  <2>2. front[i] \in FrontCall
    <3>1. i \in 1 .. Len(front)
      BY <2>1, LenProperties
    <3> QED BY <2>1, <3>1, ElementOfSeq
  <2>3. front[i].s \in Submission /\ front[i].s \in Called(front)
    BY <2>2 DEF FrontCall, Called
  <2> QED BY <2>1, <2>3 DEF Tasks
<1> QED BY <1>1, Inductive, PTL

\* done never reads the result of a job that was skipped, so the front thread never waits for
\* a future that nobody makes ready.
THEOREM ResultsReady == Spec => []DoneHasResults
<1>1. IInv => DoneHasResults
  <2> SUFFICES ASSUME IInv, NEW s \in delivered \cap skipped PROVE FALSE
    BY DEF DoneHasResults
  <2>1. s \in Submission /\ Tasks
    BY DEF IInv, Typed
  <2> QED BY <2>1 DEF Tasks
<1> QED BY <1>1, Inductive, PTL

\* When a processor that keeps no old results has no job left, its outports hold the result
\* of the newest dispatch, unless that was stopped or threw.
THEOREM OutputSettles == Spec => []SettledOutput
<1>1. IInv => SettledOutput
  <2> SUFFICES ASSUME IInv, alive, ~ keepOldJobs, ~ hasJobs, ~ reset, latest # 0
      PROVE  stop[latest] \/ latest \in failed \/ output = latest
    BY DEF SettledOutput
  <2>1. Newest /\ Order /\ ToSet(states) = {}
    BY DEF IInv, hasJobs, ToSet
  <2>2. queue = None
    BY <2>1 DEF Order
  <2> QED BY <2>1, <2>2 DEF Newest, None
<1> QED BY <1>1, Inductive, PTL

\* done is called only for the newest dispatch, unless old results are kept.
THEOREM NewestIsDone == Spec => DoneIsNewest
<1>1. IInv /\ [Next]_vars => [DeliversNewest]_vars
  BY Steps
<1> QED BY <1>1, Inductive, PTL DEF Spec, DoneIsNewest

=============================================================================
