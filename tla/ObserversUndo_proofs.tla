------------------------ MODULE ObserversUndo_proofs ------------------------
(***************************************************************************)
(* Two components that share no state.                                     *)
(*                                                                         *)
(* Observers: what a careful program may rely on: registrations agree, and *)
(* every notification calls those who are registered throughout it once.   *)
(*                                                                         *)
(* UndoManager: the network, the undo history, the saver and the file      *)
(* agree, over every order of their steps and over crashes.                *)
(***************************************************************************)
EXTENDS Observers, UndoManager, SequenceFacts, FiniteSetTheorems

-----------------------------------------------------------------------------
(* The vector without its null entries.                                    *)

\* The steps of the recursion over a prefix of length n.
Compacts(g, s, n) ==
  \A k \in 0 .. n :
    g[k] = IF k = 0 THEN <<>> ELSE IF s[k] = Null THEN g[k - 1] ELSE Append(g[k - 1], s[k])

\* There is a function that follows the recursion.
LEMMA CompactsExists ==
  ASSUME NEW s, Len(s) \in Nat
  PROVE  \E g : g = [k \in 0 .. Len(s) |->
                      IF k = 0 THEN <<>> ELSE IF s[k] = Null THEN g[k - 1] ELSE Append(g[k - 1], s[k])]
<1> DEFINE P == {n \in Nat : \E g : DOMAIN g = 0 .. n /\ g = [k \in 0 .. n |-> g[k]] /\ Compacts(g, s, n)}
<1>1. 0 \in P
  <2> DEFINE g == [k \in 0 .. 0 |-> <<>>]
  <2>1. DOMAIN g = 0 .. 0 /\ g = [k \in 0 .. 0 |-> g[k]] /\ Compacts(g, s, 0)
    BY DEF Compacts
  <2> QED BY <2>1
<1>2. ASSUME NEW n \in Nat, n \in P PROVE n + 1 \in P
  <2>1. PICK g : DOMAIN g = 0 .. n /\ g = [k \in 0 .. n |-> g[k]] /\ Compacts(g, s, n)
    BY <1>2
  <2> DEFINE h == [k \in 0 .. n + 1 |-> IF k = n + 1
                                        THEN IF s[k] = Null THEN g[n] ELSE Append(g[n], s[k])
                                        ELSE g[k]]
  <2>2. DOMAIN h = 0 .. n + 1 /\ h = [k \in 0 .. n + 1 |-> h[k]]
    OBVIOUS
  <2>3. ASSUME NEW k \in 0 .. n + 1
        PROVE  h[k] = IF k = 0 THEN <<>> ELSE IF s[k] = Null THEN h[k - 1] ELSE Append(h[k - 1], s[k])
    <3>1. CASE k = n + 1
      <4>1. h[k - 1] = g[n] /\ k # 0
        BY <3>1
      <4> QED BY <3>1, <4>1
    <3>2. CASE k # n + 1
      <4>1. k \in 0 .. n /\ h[k] = g[k] /\ (k # 0 => h[k - 1] = g[k - 1])
        BY <3>2
      <4> QED BY <2>1, <4>1 DEF Compacts
    <3> QED BY <3>1, <3>2
  <2>4. Compacts(h, s, n + 1)
    BY <2>3 DEF Compacts
  <2> HIDE DEF h
  <2> QED BY <2>2, <2>4
<1> HIDE DEF P
<1>3. Len(s) \in P
  BY <1>1, <1>2, NatSetInduction
<1>4. PICK g : g = [k \in 0 .. Len(s) |-> g[k]] /\ Compacts(g, s, Len(s))
  BY <1>3 DEF P
<1>5. g = [k \in 0 .. Len(s) |->
             IF k = 0 THEN <<>> ELSE IF s[k] = Null THEN g[k - 1] ELSE Append(g[k - 1], s[k])]
  BY <1>4 DEF Compacts
<1> QED BY <1>5

\* What is left are the entries that are not null, and none of them twice if none was.
LEMMA WithoutNullProperties ==
  ASSUME NEW S, NEW s \in Seq(S \cup {Null}), Null \notin S
  PROVE  /\ WithoutNull(s) \in Seq(S)
         /\ ToSet(WithoutNull(s)) = ToSet(s) \ {Null}
         /\ (\A i, j \in DOMAIN s : s[i] = s[j] /\ s[i] # Null => i = j) =>
              \A i, j \in DOMAIN WithoutNull(s) : WithoutNull(s)[i] = WithoutNull(s)[j] => i = j
<1>1. Len(s) \in Nat /\ DOMAIN s = 1 .. Len(s) /\ \A k \in 1 .. Len(s) : s[k] \in S \cup {Null}
  BY LenProperties, ElementOfSeq
<1> DEFINE f == CHOOSE g : g = [k \in 0 .. Len(s) |->
                 IF k = 0 THEN <<>> ELSE IF s[k] = Null THEN g[k - 1] ELSE Append(g[k - 1], s[k])]
<1>2. f = [k \in 0 .. Len(s) |->
             IF k = 0 THEN <<>> ELSE IF s[k] = Null THEN f[k - 1] ELSE Append(f[k - 1], s[k])]
  BY <1>1, CompactsExists
<1>3. WithoutNull(s) = f[Len(s)]
  BY DEF WithoutNull
<1> HIDE DEF f
<1> DEFINE Upto(n) == {s[k] : k \in 1 .. n} \ {Null}
           Injective(t) == \A i, j \in DOMAIN t : t[i] = t[j] => i = j
           Once == \A i, j \in DOMAIN s : s[i] = s[j] /\ s[i] # Null => i = j
           P == {n \in Nat : n <= Len(s) => /\ f[n] \in Seq(S) /\ ToSet(f[n]) = Upto(n)
                                            /\ Once => Injective(f[n])}
<1>4. 0 \in P
  <2>1. f[0] = <<>>
    BY <1>1, <1>2
  <2>2. <<>> \in Seq(S) /\ DOMAIN <<>> = {} /\ ToSet(<<>>) = {}
    BY EmptySeq DEF ToSet
  <2>3. Upto(0) = {}
    OBVIOUS
  <2> QED BY <2>1, <2>2, <2>3
<1>5. ASSUME NEW n \in Nat, n \in P PROVE n + 1 \in P
  <2> SUFFICES ASSUME n + 1 <= Len(s)
               PROVE  /\ f[n + 1] \in Seq(S) /\ ToSet(f[n + 1]) = Upto(n + 1)
                      /\ Once => Injective(f[n + 1])
    OBVIOUS
  <2>1. f[n] \in Seq(S) /\ ToSet(f[n]) = Upto(n) /\ (Once => Injective(f[n]))
    BY <1>1, <1>5
  <2>2. f[n + 1] = IF s[n + 1] = Null THEN f[n] ELSE Append(f[n], s[n + 1])
    <3>1. n + 1 \in 0 .. Len(s) /\ n + 1 # 0 /\ (n + 1) - 1 = n
      BY <1>1
    <3> QED BY <1>2, <3>1
  <2>3. Upto(n + 1) = Upto(n) \cup ({s[n + 1]} \ {Null})
    OBVIOUS
  <2>4. CASE s[n + 1] = Null
    BY <2>1, <2>2, <2>3, <2>4
  <2>5. CASE s[n + 1] # Null
    <3>1. s[n + 1] \in S /\ n + 1 \in DOMAIN s
      BY <1>1, <2>5
    <3>2. /\ f[n + 1] = Append(f[n], s[n + 1]) /\ f[n + 1] \in Seq(S)
          /\ Len(f[n]) \in Nat /\ DOMAIN f[n] = 1 .. Len(f[n])
          /\ DOMAIN f[n + 1] = 1 .. Len(f[n]) + 1
          /\ \A i \in 1 .. Len(f[n]) : f[n + 1][i] = f[n][i]
          /\ f[n + 1][Len(f[n]) + 1] = s[n + 1]
      BY <2>1, <2>2, <2>5, <3>1, AppendProperties, LenProperties
    <3>3. ToSet(f[n + 1]) = ToSet(f[n]) \cup {s[n + 1]}
      BY <2>1, <3>1, <3>2, ToSetAppend
    <3>4. ASSUME Once PROVE Injective(f[n + 1])
      <4>1. s[n + 1] \notin ToSet(f[n])
        <5> SUFFICES ASSUME NEW k \in 1 .. n, s[k] = s[n + 1] PROVE FALSE
          BY <2>1
        <5>1. k \in DOMAIN s /\ k # n + 1
          BY <1>1
        <5> QED BY <2>5, <3>1, <3>4, <5>1
      <4>2. \A i \in 1 .. Len(f[n]) : f[n][i] # s[n + 1]
        BY <3>2, <4>1 DEF ToSet
      <4>3. ASSUME NEW i \in DOMAIN f[n + 1], NEW j \in DOMAIN f[n + 1], f[n + 1][i] = f[n + 1][j] PROVE i = j
        <5>1. CASE i \in 1 .. Len(f[n]) /\ j \in 1 .. Len(f[n])
          BY <2>1, <3>2, <3>4, <4>3, <5>1
        <5>2. CASE i = Len(f[n]) + 1 \/ j = Len(f[n]) + 1
          BY <3>2, <4>2, <4>3, <5>2
        <5> QED BY <3>2, <5>1, <5>2
      <4> QED BY <4>3
    <3> QED BY <2>1, <2>3, <2>5, <3>2, <3>3, <3>4
  <2> QED BY <2>4, <2>5
<1> HIDE DEF P
<1>6. Len(s) \in P
  BY <1>1, <1>4, <1>5, NatSetInduction
<1>7. Upto(Len(s)) = ToSet(s) \ {Null}
  BY <1>1 DEF ToSet
<1> QED BY <1>1, <1>3, <1>6, <1>7 DEF P

-----------------------------------------------------------------------------
(* The registrations.                                                      *)

ObserversType ==
  /\ observers \in Seq(Observer \cup {Null}) /\ toAdd \in Seq(Observer)
  /\ loops \in Seq(Loop) /\ blocked \in {0, 1} /\ adds \in Nat
  /\ observing \subseteq Observer /\ destroyed \subseteq Observer

Distinct(s) == \A i, j \in DOMAIN s : s[i] = s[j] /\ s[i] # Null => i = j

\* Who observes is in the vector or waits to get there, and in one place only; outside of
\* notifications nobody waits.
OnceEach ==
  /\ observing = Registered \cup ToSet(toAdd)
  /\ observing \cap destroyed = {}
  /\ Distinct(observers) /\ Distinct(toAdd)
  /\ Registered \cap ToSet(toAdd) = {}
  /\ loops = <<>> => toAdd = <<>>

ObserversInv == ObserversType /\ OnceEach

\* A registered observer has one entry, the one that is found.
LEMMA EntryOf ==
  ASSUME ObserversInv, NEW o \in Registered
  PROVE  \E p \in 1 .. Len(observers) :
           observers[p] = o /\ o \in Observer /\ Entry(o) = p
<1>1. /\ Len(observers) \in Nat /\ DOMAIN observers = 1 .. Len(observers)
      /\ \A k \in 1 .. Len(observers) : observers[k] \in Observer \cup {Null}
  BY LenProperties, ElementOfSeq DEF ObserversInv, ObserversType
<1>2. PICK p \in 1 .. Len(observers) : observers[p] = o /\ o # Null
  BY <1>1 DEF Registered, ToSet
<1>3. {i \in 1 .. Len(observers) : observers[i] = o} = {p}
  BY <1>1, <1>2 DEF ObserversInv, OnceEach, Distinct
<1>4. p \in Int /\ p <= p
  BY <1>1
<1>5. Entry(o) = p
  BY <1>3, <1>4 DEF Entry, SelectInSeq, Min
<1> QED BY <1>1, <1>2, <1>5

\* Removing a registered observer: during a notification its entry becomes null and
\* all the others stay where they are.
LEMMA RemoveEffect ==
  ASSUME ObserversInv, NEW o \in Registered, removeObserverInternal(o)
  PROVE  /\ observers' \in Seq(Observer \cup {Null}) /\ loops' \in Seq(Loop)
         /\ Distinct(observers)' /\ Registered' = Registered \ {o}
         /\ loops' = <<>> <=> loops = <<>>
         /\ DOMAIN loops' = DOMAIN loops
         /\ \A k \in DOMAIN loops : loops'[k] = [loops[k] EXCEPT !.throughout = @ \ {o}]
         /\ loops # <<>> => /\ Len(observers') = Len(observers)
                            /\ \A p \in 1 .. Len(observers) :
                                 observers'[p] = IF observers[p] = o THEN Null ELSE observers[p]
<1>1. /\ observers \in Seq(Observer \cup {Null}) /\ loops \in Seq(Loop)
      /\ Len(observers) \in Nat /\ DOMAIN observers = 1 .. Len(observers)
      /\ Len(loops) \in Nat /\ DOMAIN loops = 1 .. Len(loops)
      /\ \A k \in 1 .. Len(loops) : loops[k] \in Loop
  BY LenProperties, ElementOfSeq DEF ObserversInv, ObserversType
<1>2. PICK p \in 1 .. Len(observers) : observers[p] = o /\ o \in Observer /\ Entry(o) = p
  BY EntryOf
<1>3. /\ observers' = IF loops = <<>> THEN RemoveAt(observers, p) ELSE [observers EXCEPT ![p] = Null]
      /\ loops' = [k \in DOMAIN loops |-> [loops[k] EXCEPT !.throughout = @ \ {o}]]
  BY <1>1, <1>2 DEF removeObserverInternal
<1>4. /\ loops' \in Seq(Loop) /\ DOMAIN loops' = DOMAIN loops
      /\ \A k \in DOMAIN loops : loops'[k] = [loops[k] EXCEPT !.throughout = @ \ {o}]
  <2>1. \A k \in 1 .. Len(loops) : [loops[k] EXCEPT !.throughout = @ \ {o}] \in Loop
    BY <1>1 DEF Loop
  <2>2. loops' \in [1 .. Len(loops) -> Loop]
    BY <1>1, <1>3, <2>1
  <2>3. loops' \in Seq(Loop)
    BY <1>1, <2>2, SeqDef
  <2> QED BY <1>1, <1>3, <2>3
<1>5. loops' = <<>> <=> loops = <<>>
  BY <1>1, <1>4, EmptySeq, LenProperties
<1>6. Null \notin Observer /\ o # Null
  BY <1>2, ObserversAssumption
<1>7. CASE loops = <<>>
  <2>1. /\ observers' \in Seq(Observer \cup {Null}) /\ Len(observers') = Len(observers) - 1
        /\ DOMAIN observers' = 1 .. Len(observers) - 1
        /\ \A j \in 1 .. Len(observers) - 1 :
             observers'[j] = IF j < p THEN observers[j] ELSE observers[j + 1]
    <3>1. observers' = RemoveAt(observers, p)
      BY <1>3, <1>7
    <3>2. /\ RemoveAt(observers, p) \in Seq(Observer \cup {Null})
          /\ Len(RemoveAt(observers, p)) = Len(observers) - 1
          /\ \A j \in 1 .. Len(observers) - 1 :
               RemoveAt(observers, p)[j] = IF j < p THEN observers[j] ELSE observers[j + 1]
      BY <1>1, RemoveAtProperties
    <3> QED BY <3>1, <3>2, LenProperties
  <2>2. Distinct(observers)'
    <3>1. ASSUME NEW i \in DOMAIN observers', NEW j \in DOMAIN observers',
                 observers'[i] = observers'[j], observers'[i] # Null
          PROVE  i = j
      <4> DEFINE from(x) == IF x < p THEN x ELSE x + 1
      <4>1. from(i) \in DOMAIN observers /\ from(j) \in DOMAIN observers
            /\ observers'[i] = observers[from(i)] /\ observers'[j] = observers[from(j)]
        BY <1>1, <2>1, <3>1
      <4>2. from(i) = from(j)
        BY <3>1, <4>1 DEF ObserversInv, OnceEach, Distinct
      <4> QED BY <1>1, <2>1, <4>2
    <3> QED BY <3>1 DEF Distinct
  <2>3. ToSet(observers') = ToSet(observers) \ {o}
    <3>1. ASSUME NEW x \in ToSet(observers') PROVE x \in ToSet(observers) \ {o}
      <4>1. PICK j \in DOMAIN observers' : observers'[j] = x
        BY DEF ToSet
      <4>2. PICK i \in DOMAIN observers : i # p /\ x = observers[i]
        BY <1>1, <2>1, <4>1
      <4>3. x # o
        BY <1>1, <1>2, <1>6, <4>2 DEF ObserversInv, OnceEach, Distinct
      <4> QED BY <4>2, <4>3 DEF ToSet
    <3>2. ASSUME NEW x \in ToSet(observers) \ {o} PROVE x \in ToSet(observers')
      <4>1. PICK i \in DOMAIN observers : observers[i] = x /\ i # p
        BY <1>2, <3>2 DEF ToSet
      <4>2. PICK j \in DOMAIN RemoveAt(observers, p) : observers[i] = RemoveAt(observers, p)[j]
        BY <1>1, <4>1, RemoveAtElements
      <4> QED BY <1>3, <1>7, <4>1, <4>2 DEF ToSet
    <3> QED BY <3>1, <3>2
  <2> QED BY <1>4, <1>5, <1>7, <2>1, <2>2, <2>3 DEF Registered
<1>8. CASE loops # <<>>
  <2>1. /\ observers' \in Seq(Observer \cup {Null}) /\ Len(observers') = Len(observers)
        /\ DOMAIN observers' = 1 .. Len(observers)
        /\ \A j \in 1 .. Len(observers) : observers'[j] = IF j = p THEN Null ELSE observers[j]
    BY <1>1, <1>3, <1>8, ExceptSeq, LenProperties
  <2>2. \A j \in 1 .. Len(observers) : observers[j] = o <=> j = p
    BY <1>1, <1>2, <1>6 DEF ObserversInv, OnceEach, Distinct
  <2>3. Distinct(observers)'
    BY <1>1, <2>1, <2>2 DEF ObserversInv, OnceEach, Distinct
  <2>4. Registered' = Registered \ {o}
    BY <1>1, <1>6, <2>1, <2>2 DEF Registered, ToSet
  <2> QED BY <1>4, <1>5, <1>8, <2>1, <2>2, <2>3, <2>4
<1> QED BY <1>7, <1>8

\* Nobody gets in twice who is not there.
LEMMA DistinctConcat ==
  ASSUME NEW S, NEW s \in Seq(S), NEW t \in Seq(S), Distinct(s), Distinct(t),
         ToSet(s) \cap ToSet(t) \subseteq {Null}
  PROVE  Distinct(s \o t)
<1>1. /\ Len(s) \in Nat /\ Len(t) \in Nat /\ DOMAIN s = 1 .. Len(s) /\ DOMAIN t = 1 .. Len(t)
      /\ DOMAIN (s \o t) = 1 .. Len(s) + Len(t)
      /\ \A i \in 1 .. Len(s) + Len(t) : (s \o t)[i] = IF i <= Len(s) THEN s[i] ELSE t[i - Len(s)]
  BY ConcatProperties, LenProperties
<1>2. ASSUME NEW i \in DOMAIN s, NEW j \in DOMAIN t, s[i] = t[j] PROVE s[i] = Null
  BY <1>2 DEF ToSet
<1>3. ASSUME NEW i \in DOMAIN (s \o t), NEW j \in DOMAIN (s \o t),
             (s \o t)[i] = (s \o t)[j], (s \o t)[i] # Null
      PROVE  i = j
  <2>1. CASE i <= Len(s) /\ j <= Len(s)
    BY <1>1, <1>3, <2>1 DEF Distinct
  <2>2. CASE i <= Len(s) /\ ~ (j <= Len(s))
    BY <1>1, <1>2, <1>3, <2>2
  <2>3. CASE ~ (i <= Len(s)) /\ j <= Len(s)
    BY <1>1, <1>2, <1>3, <2>3
  <2>4. CASE ~ (i <= Len(s)) /\ ~ (j <= Len(s))
    <3>1. i - Len(s) \in DOMAIN t /\ j - Len(s) \in DOMAIN t /\ t[i - Len(s)] = t[j - Len(s)]
          /\ t[i - Len(s)] # Null
      BY <1>1, <1>3, <2>4
    <3>2. i - Len(s) = j - Len(s)
      BY <3>1 DEF Distinct
    <3> QED BY <1>1, <1>3, <3>2
  <2> QED BY <2>1, <2>2, <2>3, <2>4
<1> QED BY <1>3 DEF Distinct

LEMMA DistinctAppend ==
  ASSUME NEW S, NEW s \in Seq(S), NEW e \in S, Distinct(s), e \notin ToSet(s)
  PROVE  Distinct(Append(s, e))
<1>1. /\ Len(s) \in Nat /\ DOMAIN s = 1 .. Len(s) /\ DOMAIN Append(s, e) = 1 .. Len(s) + 1
      /\ \A i \in 1 .. Len(s) : Append(s, e)[i] = s[i] /\ s[i] # e
      /\ Append(s, e)[Len(s) + 1] = e
  BY AppendProperties, LenProperties DEF ToSet
<1> QED BY <1>1 DEF Distinct

\* The loop that runs is the first of them.
LEMMA FirstLoop ==
  ASSUME NEW r \in Loop, ObserversType, loops # <<>>, loops' = [loops EXCEPT ![1] = r]
  PROVE  /\ loops' \in Seq(Loop) /\ loops' # <<>> /\ DOMAIN loops' = DOMAIN loops
         /\ 1 \in DOMAIN loops /\ loops'[1] = r
         /\ \A k \in DOMAIN loops : k # 1 => loops'[k] = loops[k]
<1>1. Len(loops) \in Nat \ {0} /\ DOMAIN loops = 1 .. Len(loops)
  BY EmptySeq, LenProperties DEF ObserversType
<1>2. /\ loops' \in Seq(Loop) /\ Len(loops') = Len(loops)
      /\ \A k \in 1 .. Len(loops) : loops'[k] = IF k = 1 THEN r ELSE loops[k]
  <2>1. 1 \in 1 .. Len(loops)
    BY <1>1
  <2> QED BY <2>1, ExceptSeq DEF ObserversType
<1> QED BY <1>1, <1>2, EmptySeq, LenProperties

LEMMA LoopFields ==
  ASSUME ObserversType, NEW k \in DOMAIN loops
  PROVE  /\ loops[k] \in Loop /\ loops[k].i \in Nat \ {0} /\ loops[k].calling \in BOOLEAN
         /\ loops[k].calls \in [Observer -> Nat] /\ loops[k].throughout \subseteq Observer
<1>1. loops[k] \in Loop
  BY LenProperties, ElementOfSeq DEF ObserversType
<1> QED BY <1>1 DEF Loop

\* The loop after a null entry, after the begin and after the end of a callback.
LEMMA LoopMoves ==
  ASSUME NEW l \in Loop
  PROVE  /\ [l EXCEPT !.toRemove = TRUE, !.i = @ + 1] \in Loop
         /\ [l EXCEPT !.calling = FALSE, !.i = @ + 1] \in Loop
<1>1. l.i + 1 \in Nat \ {0}
  BY DEF Loop
<1> DEFINE n == l.i + 1
<1>2. n \in Nat \ {0}
  BY <1>1
<1> HIDE DEF n
<1>3. [l EXCEPT !.toRemove = TRUE, !.i = n] \in Loop /\ [l EXCEPT !.calling = FALSE, !.i = n] \in Loop
  BY <1>2, Zenon DEF Loop
<1> QED BY <1>3 DEF n

LEMMA LoopCalls ==
  ASSUME NEW l \in Loop, NEW o \in Observer
  PROVE  [l EXCEPT !.calling = TRUE, !.calls[o] = @ + 1] \in Loop
<1>1. l.calls \in [Observer -> Nat]
  BY DEF Loop
<1>2. [l.calls EXCEPT ![o] = @ + 1] \in [Observer -> Nat]
  BY <1>1
<1> DEFINE c == [l.calls EXCEPT ![o] = @ + 1]
<1>3. c \in [Observer -> Nat]
  BY <1>2
<1> HIDE DEF c
<1>4. [l EXCEPT !.calling = TRUE, !.calls = c] \in Loop
  BY <1>3, Zenon DEF Loop
<1> QED BY <1>4 DEF c

\* The entry the loop comes to next.
LEMMA NextEntry ==
  ASSUME ObserversType, CallObserver
  PROVE  LET l == loops[1]
             o == observers[l.i]
             r == IF o = Null THEN [l EXCEPT !.toRemove = TRUE, !.i = @ + 1]
                              ELSE [l EXCEPT !.calling = TRUE, !.calls[o] = @ + 1]
         IN /\ 1 \in DOMAIN loops /\ ~ l.calling /\ l.i <= Len(observers) /\ r \in Loop
            /\ o # Null => o \in Observer
            /\ loops' = [loops EXCEPT ![1] = r]
<1> DEFINE l == loops[1]
           o == observers[l.i]
<1>1. loops # <<>> /\ 1 \in DOMAIN loops /\ ~ l.calling /\ l.i <= Len(observers)
  <2>1. loops # <<>>
    BY DEF CallObserver, InLoop
  <2> QED BY <2>1, EmptySeq, LenProperties DEF ObserversType, CallObserver, InLoop
<1>2. l \in Loop /\ l.i \in Nat \ {0} /\ l.calls \in [Observer -> Nat]
  BY <1>1, LoopFields
<1>3. o # Null => o \in Observer
  <2>1. l.i \in 1 .. Len(observers)
    BY <1>1, <1>2, LenProperties DEF ObserversType
  <2> QED BY <2>1, ElementOfSeq DEF ObserversType
<1>4. CASE o = Null
  <2>1. [l EXCEPT !.toRemove = TRUE, !.i = @ + 1] \in Loop
    BY <1>2, LoopMoves
  <2>2. loops' = [loops EXCEPT ![1] = [l EXCEPT !.toRemove = TRUE, !.i = @ + 1]]
    BY <1>4 DEF CallObserver
  <2> QED BY <1>1, <1>4, <2>1, <2>2
<1>5. CASE o # Null
  <2>1. [l EXCEPT !.calling = TRUE, !.calls[o] = @ + 1] \in Loop
    BY <1>2, <1>3, <1>5, LoopCalls
  <2>2. loops' = [loops EXCEPT ![1] = [l EXCEPT !.calling = TRUE, !.calls[o] = @ + 1]]
    BY <1>5 DEF CallObserver
  <2> QED BY <1>1, <1>3, <1>5, <2>1, <2>2
<1> QED BY <1>4, <1>5

-----------------------------------------------------------------------------
(* Registrations agree.                                                    *)

\* Taking back the registration of an observer that does not wait in toAdd_.
LEMMA StopEffect ==
  ASSUME ObserversInv, NEW o \in Observer \ ToSet(toAdd),
         IF o \in observing THEN removeObserverInternal(o) ELSE UNCHANGED <<observers, loops>>,
         toAdd' = toAdd
  PROVE  /\ observers' \in Seq(Observer \cup {Null}) /\ loops' \in Seq(Loop)
         /\ Distinct(observers)' /\ Distinct(toAdd)'
         /\ observing \ {o} = Registered' \cup ToSet(toAdd')
         /\ Registered' \cap ToSet(toAdd') = {}
         /\ loops' = <<>> => toAdd' = <<>>
<1>1. CASE o \in observing
  <2>1. o \in Registered /\ removeObserverInternal(o)
    BY <1>1 DEF ObserversInv, OnceEach
  <2>2. /\ observers' \in Seq(Observer \cup {Null}) /\ loops' \in Seq(Loop)
        /\ Distinct(observers)' /\ Registered' = Registered \ {o}
        /\ loops' = <<>> <=> loops = <<>>
    BY <2>1, RemoveEffect
  <2> QED BY <2>2 DEF ObserversInv, OnceEach, Distinct
<1>2. CASE o \notin observing
  BY <1>2 DEF ObserversInv, OnceEach, ObserversType, Distinct, Registered
<1> QED BY <1>1, <1>2

LEMMA ObserversInvStep ==
  ASSUME Careful, ObserversInv, [ObserversNext]_observersVars
  PROVE  ObserversInv'
<1> USE DEF ObserversInv
<1>1. ASSUME NEW o \in Observer, AddObserver(o) PROVE ObserversInv'
  <2>1. /\ o \notin ToSet(toAdd) /\ o \notin destroyed /\ adds' \in Nat /\ o # Null
        /\ o \in Observer \cup {Null}
    BY <1>1, ObserversAssumption DEF AddObserver, Left, AliveObservers, ObserversType
  <2>2. CASE o \in Registered
    BY <1>1, <2>1, <2>2 DEF AddObserver, addObserverInternal, Registered, ObserversType, OnceEach, Distinct
  <2>3. CASE o \notin Registered /\ loops = <<>>
    <3>1. observers' = Append(observers, o) /\ toAdd' = toAdd /\ observing' = observing \cup {o}
      BY <1>1, <2>3 DEF AddObserver, addObserverInternal
    <3>2. o \notin ToSet(observers)
      BY <2>1, <2>3 DEF Registered
    <3>3. /\ observers' \in Seq(Observer \cup {Null}) /\ Distinct(observers)'
          /\ ToSet(observers') = ToSet(observers) \cup {o}
      BY <2>1, <3>1, <3>2, AppendProperties, DistinctAppend, ToSetAppend DEF ObserversType, OnceEach, Distinct
    <3>4. Registered' = Registered \cup {o}
      BY <2>1, <3>3 DEF Registered
    <3> QED BY <1>1, <2>1, <2>3, <3>1, <3>3, <3>4 DEF AddObserver, ObserversType, OnceEach, Distinct
  <2>4. CASE o \notin Registered /\ loops # <<>>
    <3>1. toAdd' = Append(toAdd, o) /\ observers' = observers /\ observing' = observing \cup {o}
      BY <1>1, <2>4 DEF AddObserver, addObserverInternal
    <3>2. toAdd' \in Seq(Observer) /\ Distinct(toAdd)' /\ ToSet(toAdd') = ToSet(toAdd) \cup {o}
      BY <2>1, <3>1, AppendProperties, DistinctAppend, ToSetAppend DEF ObserversType, OnceEach, Distinct
    <3> QED BY <1>1, <2>1, <2>4, <3>1, <3>2 DEF AddObserver, ObserversType, OnceEach, Distinct, Registered
  <2> QED BY <2>2, <2>3, <2>4
<1>2. ASSUME NEW o \in Observer, RemoveObserver(o) PROVE ObserversInv'
  <2>1. /\ o \in Observer \ ToSet(toAdd) /\ o \in observing /\ removeObserverInternal(o)
        /\ toAdd' = toAdd /\ observing' = observing \ {o}
        /\ UNCHANGED <<blocked, destroyed, adds>>
    BY <1>2 DEF RemoveObserver, Left, OnceEach
  <2> QED BY <2>1, StopEffect DEF ObserversType, OnceEach
<1>3. ASSUME NEW o \in Observer, RemoveObservation(o) PROVE ObserversInv'
  <2>1. /\ o \in Observer \ ToSet(toAdd)
        /\ IF o \in observing THEN removeObserverInternal(o) ELSE UNCHANGED <<observers, loops>>
        /\ toAdd' = toAdd /\ observing' = observing \ {o}
        /\ UNCHANGED <<blocked, destroyed, adds>>
    BY <1>3 DEF RemoveObservation, StopObserving, Left
  <2> QED BY <2>1, StopEffect DEF ObserversType, OnceEach
<1>4. ASSUME NEW o \in Observer, DestroyObserver(o) PROVE ObserversInv'
  <2>1. /\ o \in Observer \ ToSet(toAdd)
        /\ IF o \in observing THEN removeObserverInternal(o) ELSE UNCHANGED <<observers, loops>>
        /\ toAdd' = toAdd /\ observing' = observing \ {o} /\ destroyed' = destroyed \cup {o}
        /\ UNCHANGED <<blocked, adds>>
    BY <1>4 DEF DestroyObserver, StopObserving, Left
  <2> QED BY <2>1, StopEffect DEF ObserversType, OnceEach
<1>5. ASSUME StartBlocking \/ StopBlocking PROVE ObserversInv'
  BY <1>5 DEF StartBlocking, StopBlocking, ObserversType, OnceEach, Registered, Distinct
<1>6. ASSUME NotifyObservers PROVE ObserversInv'
  <2> DEFINE r == [i |-> 1, calling |-> FALSE, toRemove |-> FALSE,
                   calls |-> [o \in Observer |-> 0], throughout |-> Registered]
  <2>1. r \in Loop
    BY DEF Loop, Registered, OnceEach, ObserversType
  <2>2. loops' = <<r>> \o loops
    BY <1>6 DEF NotifyObservers
  <2> HIDE DEF r
  <2>3. loops' \in Seq(Loop) /\ Len(loops') = Len(loops) + 1 /\ Len(loops) \in Nat
    BY <2>1, <2>2, PrependProperties, LenProperties DEF ObserversType
  <2>4. loops' # <<>>
    BY <2>3, EmptySeq
  <2> QED BY <1>6, <2>3, <2>4 DEF NotifyObservers, ObserversType, OnceEach, Registered, Distinct
<1>7. ASSUME CallObserver PROVE ObserversInv'
  <2>1. PICK r \in Loop : loops' = [loops EXCEPT ![1] = r]
    BY <1>7, NextEntry
  <2>2. loops' \in Seq(Loop) /\ loops' # <<>>
    BY <1>7, <2>1, FirstLoop DEF CallObserver, InLoop
  <2> QED BY <1>7, <2>2 DEF CallObserver, ObserversType, OnceEach, Registered, Distinct
<1>8. ASSUME CallbackReturns PROVE ObserversInv'
  <2> DEFINE r == [loops[1] EXCEPT !.calling = FALSE, !.i = @ + 1]
  <2>1. loops # <<>> /\ 1 \in DOMAIN loops
    BY <1>8, EmptySeq, LenProperties DEF CallbackReturns, ObserversType
  <2>2. r \in Loop /\ loops' = [loops EXCEPT ![1] = r]
    BY <1>8, <2>1, LoopFields, LoopMoves DEF CallbackReturns
  <2> HIDE DEF r
  <2>3. loops' \in Seq(Loop) /\ loops' # <<>>
    BY <2>1, <2>2, FirstLoop
  <2> QED BY <1>8, <2>3 DEF CallbackReturns, ObserversType, OnceEach, Registered, Distinct
<1>9. ASSUME EndLoop PROVE ObserversInv'
  <2>1. /\ loops # <<>> /\ loops' \in Seq(Loop) /\ Len(loops') = Len(loops) - 1
        /\ Len(loops) \in Nat \ {0}
    BY <1>9, HeadTailProperties, EmptySeq, LenProperties DEF EndLoop, AtEnd, InLoop, ObserversType
  <2>2. CASE Len(loops) > 1
    <3>1. loops' # <<>>
      BY <2>1, <2>2, EmptySeq
    <3> QED BY <1>9, <2>1, <2>2, <3>1 DEF EndLoop, ObserversType, OnceEach, Registered, Distinct
  <2>3. CASE ~ (Len(loops) > 1)
    <3> DEFINE s == IF loops[1].toRemove THEN WithoutNull(observers) ELSE observers
    <3>1. observers' = s \o toAdd /\ toAdd' = <<>> /\ UNCHANGED <<observing, blocked, destroyed, adds>>
      BY <1>9, <2>3 DEF EndLoop
    <3>2. /\ WithoutNull(observers) \in Seq(Observer)
          /\ ToSet(WithoutNull(observers)) = Registered
          /\ Distinct(WithoutNull(observers))
      BY WithoutNullProperties, ObserversAssumption DEF ObserversType, OnceEach, Registered, Distinct
    <3>3. WithoutNull(observers) \in Seq(Observer \cup {Null}) /\ toAdd \in Seq(Observer \cup {Null})
      BY <3>2, SeqMonotonic DEF ObserversType
    <3>4. s \in Seq(Observer \cup {Null}) /\ ToSet(s) \ {Null} = Registered /\ Distinct(s)
      BY <3>2, <3>3, ObserversAssumption DEF ObserversType, OnceEach, Registered
    <3> HIDE DEF s
    <3>5. Null \notin ToSet(toAdd) /\ Distinct(toAdd)
      <4>1. \A k \in DOMAIN toAdd : toAdd[k] \in Observer
        BY LenProperties, ElementOfSeq DEF ObserversType
      <4> QED BY <4>1, ObserversAssumption DEF OnceEach, ToSet
    <3>6. s \o toAdd \in Seq(Observer \cup {Null}) /\ Distinct(s \o toAdd)
          /\ ToSet(s \o toAdd) = ToSet(s) \cup ToSet(toAdd)
      BY <3>3, <3>4, <3>5, ConcatProperties, DistinctConcat, ToSetConcat DEF OnceEach
    <3>7. Registered' = Registered \cup ToSet(toAdd)
      BY <3>1, <3>4, <3>5, <3>6 DEF Registered
    <3>8. ToSet(<<>>) = {} /\ Distinct(<<>>) /\ <<>> \in Seq(Observer)
      BY EmptySeq DEF ToSet, Distinct
    <3> QED BY <2>1, <3>1, <3>6, <3>7, <3>8 DEF ObserversType, OnceEach, Distinct
  <2> QED BY <2>2, <2>3
<1>10. ASSUME UNCHANGED observersVars PROVE ObserversInv'
  BY <1>10 DEF observersVars, ObserversType, OnceEach, Registered, Distinct
<1> QED BY <1>1, <1>2, <1>3, <1>4, <1>5, <1>6, <1>7, <1>8, <1>9, <1>10 DEF ObserversNext

\* At the beginning nobody is registered.
LEMMA ObserversInvInit ==
  ASSUME ObserversInit PROVE ObserversInv
<1>1. <<>> \in Seq(Observer \cup {Null}) /\ <<>> \in Seq(Observer) /\ <<>> \in Seq(Loop)
      /\ DOMAIN <<>> = {} /\ ToSet(<<>>) = {}
  BY EmptySeq DEF ToSet
<1> QED BY <1>1 DEF ObserversInit, ObserversInv, ObserversType, OnceEach, Registered, Distinct

\* Registrations agree, whatever the callbacks do: both sides hold the same observers,
\* none of them destroyed, and each has one entry, in the vector or in toAdd_.
THEOREM Registrations ==
  ASSUME Careful
  PROVE  ObserversSpec => []RegistrationsAgree
<1>1. ASSUME ObserversInv PROVE RegistrationsAgree
  <2>1. ASSUME NEW o \in Observer
        PROVE  Cardinality({k \in DOMAIN observers : observers[k] = o})
               + Cardinality({k \in DOMAIN toAdd : toAdd[k] = o}) <= 1
    <3> DEFINE A == {k \in DOMAIN observers : observers[k] = o}
               B == {k \in DOMAIN toAdd : toAdd[k] = o}
    <3>1. o # Null
      BY ObserversAssumption
    <3>2. A = {} \/ \E p : A = {p}
      BY <1>1, <3>1 DEF ObserversInv, OnceEach, Distinct
    <3>3. B = {} \/ \E p : B = {p}
      BY <1>1, <3>1 DEF ObserversInv, OnceEach, Distinct
    <3>4. A = {} \/ B = {}
      BY <1>1, <3>1 DEF ObserversInv, OnceEach, Registered, ToSet
    <3> HIDE DEF A, B
    <3>5. Cardinality(A) \in {0, 1} /\ (A = {} => Cardinality(A) = 0)
      BY <3>2, FS_EmptySet, FS_Singleton
    <3>6. Cardinality(B) \in {0, 1} /\ (B = {} => Cardinality(B) = 0)
      BY <3>3, FS_EmptySet, FS_Singleton
    <3>7. Cardinality(A) + Cardinality(B) <= 1
      BY <3>4, <3>5, <3>6
    <3> QED BY <3>7 DEF A, B
  <2> QED BY <1>1, <2>1 DEF RegistrationsAgree, ObserversInv, OnceEach
<1> QED BY <1>1, ObserversInvInit, ObserversInvStep, PTL DEF ObserversSpec

-----------------------------------------------------------------------------
(* Every notification calls each observer once.                            *)

\* A loop has begun with the entry p.
Begun(l, p) == p < l.i \/ (p = l.i /\ l.calling)

\* How far a loop has come: of those still in the vector it has called those whose
\* entries it has come to, once, and nobody else of them; who was in the vector
\* throughout is still in it.
LoopGood(l) ==
  /\ l.i \in 1 .. Len(observers) + 1
  /\ l.calling => l.i <= Len(observers)
  /\ l.throughout \subseteq Registered
  /\ \A o \in Observer : l.calls[o] <= 1
  /\ \A p \in 1 .. Len(observers) : observers[p] # Null =>
       l.calls[observers[p]] = IF Begun(l, p) THEN 1 ELSE 0

\* The loops around the innermost one are in a callback.
LoopInv == \A k \in DOMAIN loops : (k # 1 => loops[k].calling) /\ LoopGood(loops[k])

\* The loops do not depend on what else changes.
LEMMA LoopsStay ==
  ASSUME LoopInv, UNCHANGED <<observers, loops>>
  PROVE  LoopInv'
BY DEF LoopInv, LoopGood, Begun, Registered

\* A loop is good whose observer is removed.
LEMMA RemoveKeepsLoops ==
  ASSUME ObserversInv, LoopInv, NEW o \in Registered, removeObserverInternal(o)
  PROVE  LoopInv'
<1>1. CASE loops = <<>>
  <2>1. loops' = <<>> /\ DOMAIN loops' = {}
    BY <1>1, RemoveEffect
  <2> QED BY <2>1 DEF LoopInv
<1>2. CASE loops # <<>>
  <2>1. /\ Registered' = Registered \ {o} /\ DOMAIN loops' = DOMAIN loops
        /\ \A k \in DOMAIN loops : loops'[k] = [loops[k] EXCEPT !.throughout = @ \ {o}]
        /\ Len(observers') = Len(observers)
        /\ \A p \in 1 .. Len(observers) :
             observers'[p] = IF observers[p] = o THEN Null ELSE observers[p]
    BY <1>2, RemoveEffect
  <2>2. ASSUME NEW k \in DOMAIN loops
        PROVE  (k # 1 => loops'[k].calling) /\ LoopGood(loops[k])'
    <3>1. loops[k] \in Loop
      BY LoopFields DEF ObserversInv
    <3>2. /\ loops'[k].i = loops[k].i /\ loops'[k].calling = loops[k].calling
          /\ loops'[k].calls = loops[k].calls /\ loops'[k].throughout = loops[k].throughout \ {o}
      BY <2>1, <3>1 DEF Loop
    <3>3. (k # 1 => loops[k].calling) /\ LoopGood(loops[k])
      BY DEF LoopInv
    <3> QED BY <2>1, <3>2, <3>3 DEF LoopGood, Begun
  <2> QED BY <2>1, <2>2 DEF LoopInv
<1> QED BY <1>1, <1>2

LEMMA LoopInvStep ==
  ASSUME Careful, ObserversInv, LoopInv, [ObserversNext]_observersVars
  PROVE  LoopInv'
<1>t. /\ ObserversType /\ Len(observers) \in Nat /\ DOMAIN observers = 1 .. Len(observers)
      /\ Len(loops) \in Nat /\ DOMAIN loops = 1 .. Len(loops)
  BY LenProperties DEF ObserversInv, ObserversType
<1>1. ASSUME NEW o \in Observer, AddObserver(o) PROVE LoopInv'
  <2>1. CASE loops = <<>>
    <3>1. loops' = <<>>
      BY <1>1, <2>1 DEF AddObserver
    <3> QED BY <3>1 DEF LoopInv
  <2>2. CASE loops # <<>>
    BY <1>1, <2>2, LoopsStay DEF AddObserver, addObserverInternal
  <2> QED BY <2>1, <2>2
<1>2. ASSUME NEW o \in Observer, RemoveObserver(o) PROVE LoopInv'
  BY <1>2, RemoveKeepsLoops DEF RemoveObserver
<1>3. ASSUME NEW o \in Observer, StopObserving(o) PROVE LoopInv'
  <2>1. CASE o \in observing
    <3>1. o \in Registered /\ removeObserverInternal(o)
      BY <1>3, <2>1 DEF StopObserving, Left, ObserversInv, OnceEach
    <3> QED BY <3>1, RemoveKeepsLoops
  <2>2. CASE o \notin observing
    BY <1>3, <2>2, LoopsStay DEF StopObserving
  <2> QED BY <2>1, <2>2
<1>4. ASSUME NotifyObservers PROVE LoopInv'
  <2> DEFINE r == [i |-> 1, calling |-> FALSE, toRemove |-> FALSE,
                   calls |-> [o \in Observer |-> 0], throughout |-> Registered]
  <2>1. r \in Loop
    BY DEF Loop, Registered, ObserversInv, OnceEach, ObserversType
  <2>2. /\ r.i = 1 /\ ~ r.calling /\ r.throughout = Registered
        /\ \A o \in Observer : r.calls[o] = 0
    OBVIOUS
  <2>3. loops' = <<r>> \o loops /\ observers' = observers
    BY <1>4 DEF NotifyObservers
  <2> HIDE DEF r
  <2>4. /\ DOMAIN loops' = 1 .. Len(loops) + 1 /\ loops'[1] = r
        /\ \A k \in 1 .. Len(loops) : loops'[k + 1] = loops[k]
    BY <1>t, <2>1, <2>3, PrependProperties, LenProperties DEF ObserversType
  <2>5. LoopGood(r)
    <3>1. \A p \in 1 .. Len(observers) : observers[p] \in Observer \cup {Null} /\ ~ Begun(r, p)
      BY <1>t, <2>2, ElementOfSeq DEF ObserversType, Begun
    <3> QED BY <1>t, <2>2, <3>1 DEF LoopGood
  <2>6. ASSUME NEW k \in DOMAIN loops'
        PROVE  (k # 1 => loops'[k].calling) /\ LoopGood(loops'[k])
    <3>1. CASE k = 1
      BY <2>4, <2>5, <3>1
    <3>2. CASE k # 1
      <4>1. k - 1 \in DOMAIN loops /\ loops'[k] = loops[k - 1]
        BY <1>t, <2>4, <3>2
      <4>2. loops[1].calling
        BY <1>t, <1>4, <4>1, EmptySeq DEF NotifyObservers, CanCall
      <4> QED BY <4>1, <4>2 DEF LoopInv
    <3> QED BY <3>1, <3>2
  <2> QED BY <2>3, <2>6 DEF LoopInv, LoopGood, Begun, Registered
<1>5. ASSUME CallObserver PROVE LoopInv'
  <2> DEFINE l == loops[1]
             o == observers[l.i]
             r == IF o = Null THEN [l EXCEPT !.toRemove = TRUE, !.i = @ + 1]
                              ELSE [l EXCEPT !.calling = TRUE, !.calls[o] = @ + 1]
  <2>1. /\ 1 \in DOMAIN loops /\ ~ l.calling /\ l.i <= Len(observers) /\ r \in Loop
        /\ o # Null => o \in Observer
        /\ loops' = [loops EXCEPT ![1] = r] /\ observers' = observers
    BY <1>t, <1>5, NextEntry DEF CallObserver
  <2>2. l \in Loop /\ l.i \in Nat \ {0} /\ l.calls \in [Observer -> Nat] /\ LoopGood(l)
    BY <1>t, <2>1, LoopFields DEF LoopInv
  <2>3. ASSUME o = Null PROVE LoopGood(r)
    <3>1. r.i = l.i + 1 /\ ~ r.calling /\ r.calls = l.calls /\ r.throughout = l.throughout
      BY <2>1, <2>2, <2>3 DEF Loop
    <3>2. \A p \in 1 .. Len(observers) : observers[p] # Null => (Begun(r, p) <=> Begun(l, p))
      BY <2>1, <2>2, <2>3, <3>1 DEF Begun
    <3> HIDE DEF r, l
    <3>3. LoopGood(r)
      BY <1>t, <2>1, <2>2, <3>1, <3>2 DEF LoopGood
    <3> QED BY <3>3
  <2>4. ASSUME o # Null PROVE LoopGood(r)
    <3>1. /\ r.i = l.i /\ r.calling /\ r.throughout = l.throughout
          /\ r.calls = [l.calls EXCEPT ![o] = @ + 1]
      BY <2>1, <2>2, <2>4 DEF Loop
    <3>2. o \in Observer /\ l.calls[o] = 0 /\ l.i \in 1 .. Len(observers)
      BY <1>t, <2>1, <2>2, <2>4 DEF LoopGood, Begun
    <3>3. \A p \in 1 .. Len(observers) : observers[p] = o => p = l.i
      BY <1>t, <2>4, <3>2 DEF ObserversInv, OnceEach, Distinct
    <3>4. /\ r.calls[o] = 1 /\ \A q \in Observer : q # o => r.calls[q] = l.calls[q]
      BY <2>2, <3>1, <3>2
    <3>5. \A p \in 1 .. Len(observers) : Begun(r, p) <=> p = l.i \/ Begun(l, p)
      BY <2>1, <2>2, <3>1 DEF Begun
    <3>6. \A p \in 1 .. Len(observers) : observers[p] \in Observer \cup {Null}
      BY <1>t, ElementOfSeq DEF ObserversType
    <3> DEFINE i == l.i
    <3>7. i \in 1 .. Len(observers) /\ o = observers[i] /\ r.i = i /\ l.i = i
      BY <3>1, <3>2
    <3> HIDE DEF r, l, i, o
    <3>8. LoopGood(r)
      BY <1>t, <2>2, <2>4, <3>1, <3>2, <3>3, <3>4, <3>5, <3>6, <3>7 DEF LoopGood
    <3> QED BY <3>8
  <2>5. LoopGood(r)
    BY <2>3, <2>4
  <2> HIDE DEF r
  <2>6. /\ DOMAIN loops' = DOMAIN loops /\ loops'[1] = r
        /\ \A k \in DOMAIN loops : k # 1 => loops'[k] = loops[k]
    BY <1>t, <1>5, <2>1, FirstLoop DEF CallObserver, InLoop
  <2> QED BY <2>1, <2>5, <2>6 DEF LoopInv, LoopGood, Begun, Registered
<1>6. ASSUME CallbackReturns PROVE LoopInv'
  <2> DEFINE l == loops[1]
             r == [l EXCEPT !.calling = FALSE, !.i = @ + 1]
  <2>1. loops # <<>> /\ 1 \in DOMAIN loops /\ l.calling /\ observers' = observers
    BY <1>t, <1>6, EmptySeq DEF CallbackReturns, ObserversType
  <2>2. l \in Loop /\ l.i \in Nat \ {0} /\ LoopGood(l)
    BY <1>t, <2>1, LoopFields DEF LoopInv
  <2>3. r \in Loop /\ loops' = [loops EXCEPT ![1] = r]
    BY <1>6, <2>2, LoopMoves DEF CallbackReturns
  <2>4. r.i = l.i + 1 /\ ~ r.calling /\ r.calls = l.calls /\ r.throughout = l.throughout
    BY <2>2 DEF Loop
  <2> HIDE DEF r, l
  <2>5. \A p \in 1 .. Len(observers) : Begun(r, p) <=> Begun(l, p)
    BY <2>1, <2>2, <2>4 DEF Begun
  <2>6. LoopGood(r)
    BY <1>t, <2>1, <2>2, <2>4, <2>5 DEF LoopGood
  <2>7. /\ DOMAIN loops' = DOMAIN loops /\ loops'[1] = r
        /\ \A k \in DOMAIN loops : k # 1 => loops'[k] = loops[k]
    BY <1>t, <2>1, <2>3, FirstLoop
  <2> QED BY <2>1, <2>6, <2>7 DEF LoopInv, LoopGood, Begun, Registered
<1>7. ASSUME EndLoop PROVE LoopInv'
  <2>1. /\ loops' = Tail(loops) /\ DOMAIN loops' = 1 .. Len(loops) - 1
        /\ \A k \in 1 .. Len(loops) - 1 : loops'[k] = loops[k + 1]
    BY <1>7, HeadTailProperties, LenProperties DEF EndLoop, AtEnd, InLoop, ObserversInv, ObserversType
  <2>2. CASE Len(loops) > 1
    <3>1. observers' = observers
      BY <1>7, <2>2 DEF EndLoop
    <3>2. ASSUME NEW k \in DOMAIN loops'
          PROVE  loops'[k].calling /\ LoopGood(loops'[k])
      <4>1. k + 1 \in DOMAIN loops /\ k + 1 # 1 /\ loops'[k] = loops[k + 1]
        BY <1>t, <2>1
      <4> QED BY <4>1 DEF LoopInv
    <3> QED BY <3>1, <3>2 DEF LoopInv, LoopGood, Begun, Registered
  <2>3. CASE ~ (Len(loops) > 1)
    <3>1. DOMAIN loops' = {}
      BY <1>t, <2>1, <2>3
    <3> QED BY <3>1 DEF LoopInv
  <2> QED BY <2>2, <2>3
<1>8. ASSUME StartBlocking \/ StopBlocking \/ UNCHANGED observersVars PROVE LoopInv'
  BY <1>8, LoopsStay DEF StartBlocking, StopBlocking, observersVars
<1> QED BY <1>1, <1>2, <1>3, <1>4, <1>5, <1>6, <1>7, <1>8 DEF ObserversNext, RemoveObservation, DestroyObserver

\* At the end of a notification, nested ones included, those who were registered from its
\* begin to its end were called once, and nobody was called twice: none of the
\* registrations that the callbacks change makes the loop skip or repeat an entry.
THEOREM NotifiedOnce ==
  ASSUME Careful
  PROVE  ObserversSpec => []EachCalledOnce
<1>1. ObserversInit => LoopInv
  BY DEF ObserversInit, LoopInv
<1>2. ASSUME ObserversInv, LoopInv PROVE EachCalledOnce
  <2> SUFFICES ASSUME AtEnd, NEW o \in Observer
               PROVE  loops[1].calls[o] <= 1 /\ (o \in loops[1].throughout => loops[1].calls[o] = 1)
    BY DEF EachCalledOnce
  <2>1. /\ 1 \in DOMAIN loops /\ loops[1].i > Len(observers)
        /\ Len(observers) \in Nat /\ DOMAIN observers = 1 .. Len(observers)
    BY <1>2, EmptySeq, LenProperties DEF AtEnd, InLoop, ObserversInv, ObserversType
  <2>2. LoopGood(loops[1]) /\ loops[1].i \in Nat
    BY <1>2, <2>1, LoopFields DEF LoopInv, ObserversInv
  <2>3. ASSUME o \in loops[1].throughout PROVE loops[1].calls[o] = 1
    <3>1. PICK p \in 1 .. Len(observers) : observers[p] = o /\ o # Null
      BY <2>1, <2>2, <2>3 DEF LoopGood, Registered, ToSet
    <3>2. Begun(loops[1], p)
      BY <2>1, <2>2 DEF Begun
    <3> QED BY <2>2, <3>1, <3>2 DEF LoopGood
  <2> QED BY <2>2, <2>3 DEF LoopGood
<1> QED BY <1>1, <1>2, ObserversInvInit, ObserversInvStep, LoopInvStep, PTL DEF ObserversSpec

-----------------------------------------------------------------------------
(* The undo history, its saver and the file.                               *)

Idle == {"check", "checked", "waiting"}
Busy == {"write", "copy", "copying", "close"}

\* What the thread works on, what it has done, and what the files hold: a state whose text
\* left the stream, with no call that failed, is copied as a whole; and what was copied is
\* the head of the file, the rest of which is as it was.
SaverInv ==
  /\ saver.at \in Busy => saver.state \in State
  /\ saver.at \in {"write", "copy"} => saver.done = 0
  /\ saver.state \notin Buffered /\ ~ failed =>
       /\ saver.at \in {"copy", "copying"} => tmp = Text(saver.state)
       /\ saver.at \in Idle \cup {"close"} /\ saver.state # NoState => saved = saver.state
  /\ saver.at = "copying" =>
       /\ saver.done <= Len(tmp) /\ saver.done <= Len(file)
       /\ \A k \in 1 .. saver.done : file[k] = tmp[k]
  /\ tmp \in Seq(State) /\ file \in Seq(State) /\ saved \in State \cup {NoState}
  /\ UndoRunning => ~ quit

\* IdleIsSaved follows from these.
Agreed == HeadIsCurrent /\ PushedIsSaved /\ SavedIsKept

UndoInv == UndoTypeOK /\ SaverInv /\ Agreed

LEMMA TextType ==
  ASSUME NEW s \in State
  PROVE  Text(s) \in Seq(State)
<1>1. Length[s] \in Nat
  BY UndoAssumption
<1> QED BY <1>1, SeqDef DEF Text

\* What a thread is.
LEMMA ThreadType ==
  ASSUME NEW at \in Idle \cup Busy \cup {"end"}, NEW s \in State \cup {NoState}
  PROVE  LET t == [Thread(at) EXCEPT !.state = s]
         IN /\ Thread(at) \in Saver /\ Thread(at).at = at /\ Thread(at).state = NoState
            /\ t \in Saver /\ t.at = at /\ t.state = s /\ t.done = 0
BY DEF Thread, Saver, Idle, Busy

\* The thread goes on, with what it has.
LEMMA ThreadGoes ==
  ASSUME UndoTypeOK, NEW at \in Idle \cup Busy \cup {"end"}
  PROVE  LET t == [saver EXCEPT !.at = at]
         IN t \in Saver /\ t.at = at /\ t.state = saver.state /\ t.done = saver.done
BY DEF UndoTypeOK, Saver, Idle, Busy

\* Waking the thread changes nothing of what it saves.
LEMMA AwakeKeeps ==
  ASSUME UndoTypeOK
  PROVE  /\ Awake \in Saver /\ Awake.state = saver.state
         /\ Awake = saver \/ (saver.at \in Idle /\ Awake.at \in Idle)
<1>1. CASE saver.at = "waiting"
  BY <1>1, ThreadGoes DEF Awake, Idle
<1>2. CASE saver.at # "waiting"
  BY <1>2 DEF Awake, UndoTypeOK
<1> QED BY <1>1, <1>2

\* What is not about a save in progress stays.
LEMMA SaverKeeps ==
  ASSUME SaverInv, UNCHANGED files, UndoRunning' => ~ quit',
         \/ saver' = saver /\ failed' = failed
         \/ saver.at \in Idle /\ saver'.at \in Idle /\ saver'.state = saver.state /\ failed' = failed
         \/ saver'.at = "end"
         \/ saver'.at \in Idle /\ saver'.state = NoState
  PROVE  SaverInv'
<1>1. tmp' = tmp /\ file' = file /\ saved' = saved
  BY DEF files
<1>2. CASE saver' = saver /\ failed' = failed
  BY <1>1, <1>2 DEF SaverInv, Text
<1>3. CASE saver.at \in Idle /\ saver'.at \in Idle /\ saver'.state = saver.state /\ failed' = failed
  <2>1. saver'.at \notin Busy
    BY <1>3 DEF Idle, Busy
  <2> QED BY <1>1, <1>3, <2>1 DEF SaverInv, Busy
<1>4. CASE saver'.at = "end"
  BY <1>1, <1>4 DEF SaverInv, Idle, Busy
<1>5. CASE saver'.at \in Idle /\ saver'.state = NoState
  BY <1>1, <1>5 DEF SaverInv, Idle, Busy
<1> QED BY <1>2, <1>3, <1>4, <1>5

\* Where a state is pushed the history ends with it, or it was there.
LEMMA PushEffect ==
  ASSUME UndoTypeOK, NEW s \in State, NEW states \in Seq(State), NEW at \in 0 .. Len(states),
         Push(s, states, at)
  PROVE  /\ buffer' \in Seq(State) /\ head' \in 1 .. Len(buffer') /\ buffer'[head'] = s
         /\ \/ /\ buffer' = states /\ toSave' = toSave /\ saver' = saver
               /\ states # <<>>
            \/ /\ Last(buffer') = s /\ toSave' = Append(toSave, s) /\ saver' = Awake
<1>1. Len(states) \in Nat /\ at \in Nat
  BY LenProperties
<1>2. CASE at > 0 /\ states[IF at > 0 THEN at ELSE 1] = s
  <2>1. /\ buffer' = states /\ head' = at /\ toSave' = toSave /\ saver' = saver
        /\ states[at] = s
    BY <1>2 DEF Push
  <2>2. Len(states) # 0
    BY <1>1, <1>2
  <2> QED BY <1>1, <1>2, <2>1, <2>2, EmptySeq
<1>3. CASE ~ (at > 0 /\ states[IF at > 0 THEN at ELSE 1] = s)
  <2>1. /\ buffer' = Append(SubSeq(states, 1, at), s) /\ head' = at + 1
        /\ toSave' = Append(toSave, s) /\ saver' = Awake
    BY <1>3 DEF Push, Save
  <2>2. SubSeq(states, 1, at) \in Seq(State) /\ Len(SubSeq(states, 1, at)) = at
    BY FirstPart
  <2> DEFINE f == SubSeq(states, 1, at)
  <2> HIDE DEF f
  <2>3. /\ Append(f, s) \in Seq(State) /\ Len(Append(f, s)) = at + 1 /\ Append(f, s)[at + 1] = s
    BY <1>1, <2>2, AppendProperties DEF f
  <2> QED BY <1>1, <2>1, <2>3 DEF f, Last
<1> QED BY <1>2, <1>3

\* A history that is in order stays so where a state is pushed.
LEMMA PushKeeps ==
  ASSUME UndoInv, UndoRunning, NEW states \in Seq(State), NEW at \in 0 .. Len(states),
         network' \in State, Push(network', states, at),
         states = buffer \/ states = <<>>,
         UNCHANGED <<quit, files, failed, program>>
  PROVE  UndoInv'
<1>1. /\ buffer' \in Seq(State) /\ head' \in 1 .. Len(buffer') /\ buffer'[head'] = network'
      /\ \/ /\ buffer' = states /\ toSave' = toSave /\ saver' = saver
            /\ states # <<>>
         \/ /\ Last(buffer') = network' /\ toSave' = Append(toSave, network') /\ saver' = Awake
  BY PushEffect DEF UndoInv
<1>2. /\ dirty' = FALSE /\ quit' = quit /\ program' = program /\ failed' = failed /\ head' \in 0 .. Len(buffer')
      /\ network' \in State
  <2>1. dirty' = FALSE
    BY DEF Push
  <2>2. Len(buffer') \in Nat
    BY <1>1, LenProperties
  <2> QED BY <1>1, <2>1, <2>2
<1>3. CASE buffer' = states /\ toSave' = toSave /\ saver' = saver /\ states # <<>>
  <2>1. buffer' = buffer
    BY <1>3
  <2>2. UndoTypeOK'
    BY <1>1, <1>2, <1>3, Zenon DEF UndoInv, UndoTypeOK
  <2>3. Agreed'
    BY <1>1, <1>3, <2>1 DEF UndoInv, Agreed, HeadIsCurrent, PushedIsSaved, SavedIsKept, Newest,
                            files, UndoRunning, Last, Text
  <2>4. SaverInv'
    BY <1>2, <1>3, SaverKeeps DEF UndoInv, SaverInv, UndoRunning
  <2> QED BY <2>2, <2>3, <2>4 DEF UndoInv
<1>4. CASE Last(buffer') = network' /\ toSave' = Append(toSave, network') /\ saver' = Awake
  <2>1. toSave' \in Seq(State) /\ Last(toSave') = network' /\ toSave' # <<>>
    <3>1. /\ toSave' \in Seq(State) /\ Len(toSave') = Len(toSave) + 1 /\ Len(toSave) \in Nat
          /\ toSave'[Len(toSave) + 1] = network'
      BY <1>4, AppendProperties, LenProperties DEF UndoInv, UndoTypeOK
    <3> QED BY <3>1, EmptySeq DEF Last
  <2>2. UndoTypeOK'
    <3>1. Awake \in Saver
      BY AwakeKeeps DEF UndoInv
    <3> QED BY <1>1, <1>2, <1>4, <2>1, <3>1, Zenon DEF UndoInv, UndoTypeOK
  <2>3. Agreed'
    BY <1>1, <1>4, <2>1 DEF UndoInv, Agreed, HeadIsCurrent, PushedIsSaved, SavedIsKept, Newest,
                            files, UndoRunning, Text
  <2>4. SaverInv'
    BY <1>2, <1>4, AwakeKeeps, SaverKeeps DEF UndoInv, SaverInv, UndoRunning
  <2> QED BY <2>2, <2>3, <2>4 DEF UndoInv
<1> QED BY <1>1, <1>3, <1>4

\* So it does where only the network and the place in the history change.
LEMMA MoveKeeps ==
  ASSUME UndoInv, network' \in State, dirty' \in BOOLEAN, head' \in 0 .. Len(buffer), buffer' = buffer,
         ~ dirty' /\ network' # Broken => buffer[head'] = network',
         UNCHANGED <<toSave, saver, quit, files, failed, program>>
  PROVE  UndoInv'
<1>1. UndoTypeOK'
  BY DEF UndoInv, UndoTypeOK
<1>2. Agreed'
  BY DEF UndoInv, Agreed, HeadIsCurrent, PushedIsSaved, SavedIsKept, Newest, files, UndoRunning, Last, Text
<1>3. SaverInv'
  BY SaverKeeps DEF UndoInv, SaverInv, UndoRunning
<1> QED BY <1>1, <1>2, <1>3 DEF UndoInv

\* And where the program is off, starts, or stops.
LEMMA ProgramKeeps ==
  ASSUME UndoInv, UndoTypeOK', SaverInv', UNCHANGED files,
         UndoRunning' => HeadIsCurrent' /\ PushedIsSaved'
  PROVE  UndoInv'
<1>1. Agreed'
  BY DEF UndoInv, Agreed, HeadIsCurrent, PushedIsSaved, SavedIsKept, files, Text
<1> QED BY <1>1 DEF UndoInv

LEMMA UndoInvInit ==
  ASSUME UndoInit PROVE UndoInv
<1>1. <<>> \in Seq(State) /\ 0 \in 0 .. Len(<<>>)
  BY EmptySeq
<1>2. Blank \in State /\ NoState \notin State
  BY UndoAssumption
<1>3. Thread("end") \in Saver /\ Thread("end").at = "end"
  BY ThreadType
<1>4. UndoTypeOK
  BY <1>1, <1>2, <1>3, Zenon DEF UndoInit, UndoTypeOK
<1>5. SaverInv
  BY <1>1, <1>3 DEF UndoInit, SaverInv, UndoRunning, Idle, Busy
<1>6. Agreed
  BY <1>1, <1>2, <1>3 DEF UndoInit, Agreed, HeadIsCurrent, PushedIsSaved, SavedIsKept, UndoRunning
<1> QED BY <1>4, <1>5, <1>6 DEF UndoInv

LEMMA UndoInvStep ==
  ASSUME UndoInv, [UndoNext]_undoVars
  PROVE  UndoInv'
<1>a. Blank \in State /\ Broken \in State /\ NoState \notin State
  BY UndoAssumption
<1>s. /\ UndoTypeOK /\ Len(buffer) \in Nat /\ head \in Nat /\ head <= Len(buffer)
      /\ \A i \in 1 .. Len(buffer) : buffer[i] \in State
  BY LenProperties, ElementOfSeq DEF UndoInv, UndoTypeOK
<1>1. ASSUME Change PROVE UndoInv'
  <2>1. network' \in State /\ dirty' = TRUE /\ head' = head /\ buffer' = buffer
        /\ UNCHANGED <<toSave, saver, quit, files, failed, program>>
    BY <1>1 DEF Change
  <2> QED BY <1>s, <2>1, MoveKeeps DEF UndoTypeOK
<1>2. ASSUME PushStateIfDirty PROVE UndoInv'
  <2>1. UndoRunning /\ network' \in State /\ Push(network', buffer, head) /\ UNCHANGED <<quit, files, failed, program>>
    BY <1>2, <1>s DEF PushStateIfDirty, UndoTypeOK, UndoRunning
  <2> QED BY <1>s, <2>1, PushKeeps DEF UndoTypeOK
<1>3. ASSUME undoState PROVE UndoInv'
  <2>1. /\ head' = head - 1 /\ network' \in {buffer[head'], Broken} /\ dirty' = FALSE /\ buffer' = buffer
        /\ UNCHANGED <<toSave, saver, quit, files, failed, program>> /\ head > 1
    BY <1>3 DEF undoState, Load
  <2>2. head' \in 0 .. Len(buffer) /\ network' \in State
    BY <1>a, <1>s, <2>1
  <2> QED BY <2>1, <2>2, MoveKeeps
<1>4. ASSUME redoState PROVE UndoInv'
  <2>1. /\ head' = head + 1 /\ network' \in {buffer[head'], Broken} /\ dirty' = FALSE /\ buffer' = buffer
        /\ UNCHANGED <<toSave, saver, quit, files, failed, program>> /\ head < Len(buffer)
    BY <1>4 DEF redoState, Load
  <2>2. head' \in 0 .. Len(buffer) /\ network' \in State
    BY <1>a, <1>s, <2>1
  <2> QED BY <2>1, <2>2, MoveKeeps
<1>e. <<>> \in Seq(State) /\ 0 \in 0 .. Len(<<>>)
  BY EmptySeq
<1>5. ASSUME Clear PROVE UndoInv'
  <2>1. UndoRunning /\ network' \in State /\ Push(network', <<>>, 0) /\ UNCHANGED <<quit, files, failed, program>>
    BY <1>5, <1>a DEF Clear, UndoRunning
  <2> QED BY <1>e, <2>1, PushKeeps
<1>6. ASSUME LoadWorkspace PROVE UndoInv'
  <2>1. UndoRunning /\ network' \in State /\ UNCHANGED <<quit, files, failed, program>>
    BY <1>6, <1>a DEF LoadWorkspace, Load, UndoRunning
  <2>2. CASE Push(network', <<>>, 0)
    BY <1>e, <2>1, <2>2, PushKeeps
  <2>3. CASE buffer' = <<>> /\ head' = 0 /\ dirty' = TRUE /\ UNCHANGED <<toSave, saver>>
    <3>1. UndoTypeOK'
      BY <1>s, <1>e, <2>1, <2>3 DEF UndoTypeOK
    <3>2. SaverInv'
      BY <2>1, <2>3, SaverKeeps DEF UndoInv, SaverInv, UndoRunning
    <3> QED BY <2>1, <2>3, <3>1, <3>2, ProgramKeeps DEF HeadIsCurrent, PushedIsSaved
  <2> QED BY <1>6, <2>2, <2>3 DEF LoadWorkspace
<1>i. /\ saver \in Saver /\ tmp \in Seq(State) /\ file \in Seq(State) /\ saved \in State \cup {NoState}
      /\ UndoRunning => ~ quit
  BY <1>s DEF UndoInv, SaverInv, UndoTypeOK
<1>7. ASSUME Check PROVE UndoInv'
  <2>1. /\ saver.at = "check"
        /\ UNCHANGED <<network, dirty, buffer, head, quit, tmp, file, saved, failed, program>>
    BY <1>7 DEF Check, history, files
  <2>2. CASE saver' = [saver EXCEPT !.at = "end"] /\ toSave' = toSave /\ quit
    <3>1. UndoTypeOK' /\ saver'.at = "end"
      BY <1>s, <2>1, <2>2, ThreadGoes DEF UndoTypeOK
    <3>2. ~ UndoRunning'
      BY <1>i, <2>1, <2>2 DEF UndoRunning
    <3>3. SaverInv'
      BY <2>1, <3>1, <3>2, SaverKeeps DEF UndoInv, files
    <3> QED BY <2>1, <3>1, <3>2, <3>3, ProgramKeeps DEF files
  <2>3. CASE saver' = [saver EXCEPT !.at = "checked"] /\ toSave' = toSave /\ toSave = <<>>
    <3>1. UndoTypeOK' /\ saver'.at = "checked" /\ saver'.state = saver.state
      BY <1>s, <2>1, <2>3, ThreadGoes DEF UndoTypeOK, Idle
    <3>2. SaverInv'
      BY <1>i, <2>1, <3>1, SaverKeeps DEF UndoInv, UndoRunning, files, Idle
    <3> QED BY <2>1, <2>3, <3>1, <3>2, ProgramKeeps
              DEF UndoInv, Agreed, HeadIsCurrent, PushedIsSaved, Newest, UndoRunning, Last, files
  <2>4. CASE Take(Last(toSave)) /\ toSave # <<>>
    <3>1. Last(toSave) \in State
      <4>1. Len(toSave) \in Nat \ {0}
        BY <1>s, <2>4, EmptySeq, LenProperties DEF UndoTypeOK
      <4>2. Len(toSave) \in 1 .. Len(toSave)
        BY <4>1
      <4> QED BY <1>s, <4>2, ElementOfSeq DEF UndoTypeOK, Last
    <3>2. /\ saver' \in Saver /\ saver'.at = "write" /\ saver'.state = Last(toSave) /\ saver'.done = 0
          /\ toSave' = <<>>
      BY <2>4, <3>1, ThreadType DEF Take, Busy
    <3>3. UndoTypeOK'
      BY <1>s, <1>e, <2>1, <3>2 DEF UndoTypeOK
    <3>4. SaverInv'
      BY <1>i, <2>1, <3>1, <3>2 DEF SaverInv, UndoRunning, Idle
    <3> QED BY <2>1, <2>4, <3>2, <3>3, <3>4, ProgramKeeps
              DEF UndoInv, Agreed, HeadIsCurrent, PushedIsSaved, Newest, UndoRunning, Last, files
  <2> QED BY <1>7, <2>2, <2>3, <2>4 DEF Check
<1>8. ASSUME Wait PROVE UndoInv'
  <2>1. /\ saver.at = "checked" /\ saver' = [saver EXCEPT !.at = "waiting"]
        /\ UNCHANGED <<network, dirty, buffer, head, toSave, quit, tmp, file, saved, failed, program>>
    BY <1>8 DEF Wait, history, files
  <2>2. UndoTypeOK' /\ saver'.at = "waiting" /\ saver'.state = saver.state
    BY <1>s, <2>1, ThreadGoes DEF UndoTypeOK, Idle
  <2>3. SaverInv'
    BY <1>i, <2>1, <2>2, SaverKeeps DEF UndoInv, UndoRunning, files, Idle
  <2> QED BY <2>1, <2>2, <2>3, ProgramKeeps
            DEF UndoInv, Agreed, HeadIsCurrent, PushedIsSaved, Newest, UndoRunning, Last, files
\* What the steps of a save leave alone.
<1>w. ASSUME UNCHANGED <<network, dirty, buffer, head, toSave, quit, program>>,
             saver' \in Saver, saver'.state = saver.state, failed' \in BOOLEAN
      PROVE  UndoTypeOK' /\ HeadIsCurrent' /\ PushedIsSaved' /\ (UndoRunning' => ~ quit')
  <2>1. UndoTypeOK'
    BY <1>s, <1>w DEF UndoTypeOK
  <2>2. HeadIsCurrent' /\ PushedIsSaved'
    BY <1>w DEF UndoInv, Agreed, HeadIsCurrent, PushedIsSaved, Newest, UndoRunning, Last
  <2> QED BY <1>i, <1>w, <2>1, <2>2 DEF UndoRunning
<1>9. ASSUME Write PROVE UndoInv'
  <2>1. /\ saver.at = "write"
        /\ UNCHANGED <<network, dirty, buffer, head, toSave, quit, file, saved, program>>
    BY <1>9 DEF Write, history
  <2>2. saver.state \in State /\ saver.done = 0
    BY <2>1 DEF UndoInv, SaverInv, Busy
  <2>3. Text(saver.state) \in Seq(State)
    BY <2>2, TextType
  <2>4. Length[saver.state] \in Nat /\ Len(Text(saver.state)) = Length[saver.state]
    BY <2>2, <2>3, UndoAssumption, LenProperties DEF Text
  <2>5. /\ saver' \in Saver /\ saver'.at = "copy" /\ saver'.state = saver.state /\ saver'.done = 0
        /\ tmp' \in Seq(State) /\ failed' \in BOOLEAN
        /\ saver.state \notin Buffered /\ ~ failed' => tmp' = Text(saver.state)
    <3>1. CASE /\ tmp' = IF saver.state \in Buffered THEN <<>> ELSE Text(saver.state)
               /\ saver' = [saver EXCEPT !.at = "copy"]
               /\ UNCHANGED failed
      <4>1. /\ saver' \in Saver /\ saver'.at = "copy" /\ saver'.state = saver.state
            /\ saver'.done = 0
        BY <1>s, <2>2, <3>1, ThreadGoes DEF Busy
      <4>2. failed' \in BOOLEAN
        BY <1>s, <3>1 DEF UndoTypeOK
      <4> QED BY <1>e, <2>3, <3>1, <4>1, <4>2
    <3>2. CASE /\ tmp' \in {tmp} \cup {SubSeq(Text(saver.state), 1, n) : n \in 0 .. Length[saver.state] - 1}
               /\ saver' = [saver EXCEPT !.at = "copy", !.good = FALSE]
               /\ failed' = TRUE
      <4>1. /\ saver' \in Saver /\ saver'.at = "copy" /\ saver'.state = saver.state
            /\ saver'.done = 0
        BY <1>i, <2>2, <3>2 DEF Saver
      <4>2. ASSUME NEW n \in 0 .. Length[saver.state] - 1
            PROVE  SubSeq(Text(saver.state), 1, n) \in Seq(State)
        <5>1. n \in 0 .. Len(Text(saver.state))
          BY <2>4, <4>2
        <5> QED BY <2>3, <5>1, FirstPart
      <4>3. tmp' \in Seq(State)
        BY <1>i, <3>2, <4>2
      <4> QED BY <3>2, <4>1, <4>3
    <3> QED BY <1>9, <3>1, <3>2 DEF Write
  <2>6. UndoTypeOK' /\ HeadIsCurrent' /\ PushedIsSaved' /\ (UndoRunning' => ~ quit')
    BY <1>w, <2>1, <2>5
  <2>7. SaverInv'
    BY <1>i, <2>1, <2>2, <2>5, <2>6 DEF SaverInv, Idle, Text
  <2>8. SavedIsKept'
    BY <2>1 DEF UndoInv, Agreed, SavedIsKept, Text
  <2> QED BY <2>6, <2>7, <2>8 DEF UndoInv, Agreed
<1>10. ASSUME OpenFiles PROVE UndoInv'
  <2>1. /\ saver.at = "copy"
        /\ UNCHANGED <<network, dirty, buffer, head, toSave, quit, tmp, file, saved, program>>
        /\ \/ saver' = [saver EXCEPT !.at = "copying"] /\ failed' = failed
           \/ saver' = [saver EXCEPT !.at = "close"] /\ failed' = TRUE
    BY <1>10 DEF OpenFiles, history, files
  <2>2. /\ saver' \in Saver /\ saver'.state = saver.state /\ saver'.done = saver.done
        /\ failed' \in BOOLEAN
        /\ \/ saver'.at = "copying" /\ failed' = failed
           \/ saver'.at = "close" /\ failed' = TRUE
    <3>1. CASE saver' = [saver EXCEPT !.at = "copying"] /\ failed' = failed
      BY <1>s, <3>1, ThreadGoes DEF UndoTypeOK, Busy
    <3>2. CASE saver' = [saver EXCEPT !.at = "close"] /\ failed' = TRUE
      BY <1>s, <3>2, ThreadGoes DEF Busy
    <3> QED BY <2>1, <3>1, <3>2
  <2>3. /\ saver.state \in State /\ saver.done = 0
        /\ saver.state \notin Buffered /\ ~ failed => tmp = Text(saver.state)
    BY <2>1 DEF UndoInv, SaverInv, Busy
  <2>4. UndoTypeOK' /\ HeadIsCurrent' /\ PushedIsSaved' /\ (UndoRunning' => ~ quit')
    BY <1>w, <2>1, <2>2
  <2>5. Len(tmp) \in Nat /\ Len(file) \in Nat
    BY <1>i, LenProperties
  <2>6. SaverInv'
    BY <1>i, <2>1, <2>2, <2>3, <2>4, <2>5 DEF SaverInv, Idle, Text
  <2>7. SavedIsKept'
    BY <2>1 DEF UndoInv, Agreed, SavedIsKept, Text
  <2> QED BY <2>4, <2>6, <2>7 DEF UndoInv, Agreed
<1>16. ASSUME CopyBlock PROVE UndoInv'
  <2> DEFINE n == saver.done + 1
  <2>1. /\ saver.at = "copying" /\ saver.done < Len(tmp) /\ saved' = NoState
        /\ file' = IF n \in DOMAIN file THEN [file EXCEPT ![n] = tmp[n]] ELSE Append(file, tmp[n])
        /\ saver' = [saver EXCEPT !.done = @ + 1]
        /\ UNCHANGED <<network, dirty, buffer, head, toSave, quit, tmp, failed, program>>
    BY <1>16 DEF CopyBlock, history
  <2>2. /\ saver' \in Saver /\ saver'.state = saver.state /\ saver'.at = "copying" /\ saver'.done = n
        /\ saver.done \in Nat
    BY <1>i, <2>1 DEF Saver
  <2>3. /\ saver.state \in State /\ saver.done <= Len(file)
        /\ \A k \in 1 .. saver.done : file[k] = tmp[k]
        /\ saver.state \notin Buffered /\ ~ failed => tmp = Text(saver.state)
    BY <2>1 DEF UndoInv, SaverInv, Busy
  <2>4. UndoTypeOK' /\ HeadIsCurrent' /\ PushedIsSaved' /\ (UndoRunning' => ~ quit')
    BY <1>s, <1>w, <2>1, <2>2 DEF UndoTypeOK
  <2>5. /\ Len(tmp) \in Nat /\ Len(file) \in Nat /\ DOMAIN file = 1 .. Len(file)
        /\ DOMAIN tmp = 1 .. Len(tmp)
    BY <1>i, LenProperties
  <2>6. tmp[n] \in State
    BY <1>i, <2>1, <2>2, <2>5, ElementOfSeq
  <2>7. /\ file' \in Seq(State) /\ n <= Len(file') /\ file'[n] = tmp[n]
        /\ \A k \in 1 .. saver.done : file'[k] = file[k]
    <3>1. CASE n \in DOMAIN file
      <4>1. file' = [file EXCEPT ![n] = tmp[n]]
        BY <2>1, <3>1
      <4>2. file' \in Seq(State) /\ Len(file') = Len(file)
        BY <1>i, <2>5, <2>6, <3>1, <4>1, ExceptSeq
      <4> QED BY <2>2, <2>3, <2>5, <3>1, <4>1, <4>2
    <3>2. CASE n \notin DOMAIN file
      <4>1. n = Len(file) + 1 /\ file' = Append(file, tmp[n])
        BY <2>1, <2>2, <2>3, <2>5, <3>2
      <4>2. /\ file' \in Seq(State) /\ Len(file') = Len(file) + 1 /\ file'[Len(file) + 1] = tmp[n]
            /\ \A k \in 1 .. Len(file) : file'[k] = file[k]
        BY <1>i, <2>6, <4>1, AppendProperties
      <4> QED BY <2>2, <2>3, <2>5, <4>1, <4>2
    <3> QED BY <3>1, <3>2
  <2>8. \A k \in 1 .. n : file'[k] = tmp[k]
    <3> SUFFICES ASSUME NEW k \in 1 .. n PROVE file'[k] = tmp[k]
      OBVIOUS
    <3>1. k = n \/ k \in 1 .. saver.done
      BY <2>2
    <3> QED BY <2>3, <2>7, <3>1
  <2>9. n <= Len(tmp)
    BY <2>1, <2>2, <2>5
  <2>10. SaverInv'
    <3> HIDE DEF n
    <3> QED BY <1>i, <2>1, <2>2, <2>3, <2>4, <2>7, <2>8, <2>9 DEF SaverInv, Idle, Text
  <2>11. SavedIsKept'
    BY <2>1 DEF SavedIsKept
  <2> QED BY <2>4, <2>10, <2>11 DEF UndoInv, Agreed
<1>17. ASSUME Copied PROVE UndoInv'
  <2>1. /\ saver.at = "copying" /\ saver' = [saver EXCEPT !.at = "close"]
        /\ UNCHANGED <<network, dirty, buffer, head, toSave, quit, tmp, file, program>>
        /\ \/ /\ saver.done = Len(tmp) /\ failed' = failed
              /\ saved' = IF tmp = Text(saver.state) THEN saver.state ELSE saved
           \/ failed' = TRUE /\ saved' = saved
    BY <1>17 DEF Copied, history
  <2>2. /\ saver' \in Saver /\ saver'.state = saver.state /\ saver'.at = "close"
        /\ failed' \in BOOLEAN
    BY <1>s, <2>1, ThreadGoes DEF UndoTypeOK, Busy
  <2>3. /\ saver.state \in State /\ saver.done <= Len(file)
        /\ \A k \in 1 .. saver.done : file[k] = tmp[k]
        /\ saver.state \notin Buffered /\ ~ failed => tmp = Text(saver.state)
    BY <2>1 DEF UndoInv, SaverInv, Busy
  <2>4. UndoTypeOK' /\ HeadIsCurrent' /\ PushedIsSaved' /\ (UndoRunning' => ~ quit')
    BY <1>w, <2>1, <2>2
  <2>5. saved' \in State \cup {NoState}
    BY <1>i, <2>1, <2>3
  <2>6. SaverInv'
    BY <1>i, <2>1, <2>2, <2>3, <2>4, <2>5 DEF SaverInv, Idle, Busy
  <2>7. SavedIsKept'
    <3>1. CASE saved' = saved
      BY <2>1, <3>1 DEF UndoInv, Agreed, SavedIsKept, Text
    <3>2. CASE saver.done = Len(tmp) /\ tmp = Text(saver.state) /\ saved' = saver.state
      <4>1. IsPrefix(tmp, file)
        BY <1>i, <2>3, <3>2, PrefixIs
      <4> QED BY <2>1, <3>2, <4>1 DEF SavedIsKept, Text
    <3> QED BY <2>1, <3>1, <3>2
  <2> QED BY <2>4, <2>6, <2>7 DEF UndoInv, Agreed
<1>18. ASSUME Close PROVE UndoInv'
  <2>1. /\ saver.at = "close" /\ saver' = [Thread("check") EXCEPT !.state = saver.state]
        /\ tmp' = IF saver.good THEN Text(saver.state) ELSE tmp
        /\ UNCHANGED <<network, dirty, buffer, head, toSave, quit, file, saved, failed, program>>
    BY <1>18 DEF Close, history
  <2>2. /\ saver.state \in State
        /\ saver.state \notin Buffered /\ ~ failed => saved = saver.state
    BY <1>a, <2>1 DEF UndoInv, SaverInv, Busy
  <2>3. saver' \in Saver /\ saver'.state = saver.state /\ saver'.at = "check"
    BY <2>1, <2>2, ThreadType DEF Idle
  <2>4. UndoTypeOK' /\ HeadIsCurrent' /\ PushedIsSaved' /\ (UndoRunning' => ~ quit')
    BY <1>s, <1>w, <2>1, <2>3 DEF UndoTypeOK
  <2>5. tmp' \in Seq(State)
    BY <1>i, <2>1, <2>2, TextType
  <2>6. SaverInv'
    BY <1>i, <2>1, <2>2, <2>3, <2>4, <2>5 DEF SaverInv, Busy
  <2>7. SavedIsKept'
    BY <2>1 DEF UndoInv, Agreed, SavedIsKept, Text
  <2> QED BY <2>4, <2>6, <2>7 DEF UndoInv, Agreed
<1>11. ASSUME Start PROVE UndoInv'
  <2>1. <<Blank>> \in Seq(State) /\ Len(<<Blank>>) = 1 /\ <<Blank>>[1] = Blank /\ <<Blank>> # <<>>
        /\ 1 \in 0 .. Len(<<Blank>>)
    BY <1>a, EmptySeq
  <2>2. /\ network' = Blank /\ dirty' = FALSE /\ buffer' = <<Blank>> /\ head' = 1 /\ program' = "runs"
        /\ toSave' = <<Blank>> /\ saver' = Thread("check") /\ quit' = FALSE /\ failed' = FALSE
        /\ UNCHANGED files
    BY <1>11 DEF Start
  <2>3. saver' \in Saver /\ saver'.at = "check" /\ saver'.state = NoState
    BY <2>2, ThreadType DEF Idle
  <2>4. UndoTypeOK'
    BY <1>a, <2>1, <2>2, <2>3, Zenon DEF UndoTypeOK
  <2>5. SaverInv'
    BY <2>2, <2>3, SaverKeeps DEF UndoInv, Idle
  <2> QED BY <2>1, <2>2, <2>4, <2>5, ProgramKeeps DEF HeadIsCurrent, PushedIsSaved, Newest, Last
<1>12. ASSUME Quit PROVE UndoInv'
  <2>1. /\ program' = "stops" /\ quit' = TRUE
        /\ UNCHANGED <<network, dirty, buffer, head, toSave, saver, files, failed>>
    BY <1>12 DEF Quit, history
  <2>2. UndoTypeOK'
    BY <1>s, <2>1 DEF UndoTypeOK
  <2>3. SaverInv'
    BY <2>1, SaverKeeps DEF UndoInv, UndoRunning
  <2> QED BY <2>1, <2>2, <2>3, ProgramKeeps DEF UndoRunning
<1>13. ASSUME NotifySaver PROVE UndoInv'
  <2>1. /\ program' = "joins" /\ saver' = Awake
        /\ UNCHANGED <<network, dirty, buffer, head, toSave, quit, files, failed>>
    BY <1>13 DEF NotifySaver, history
  <2>2. saver' \in Saver
    BY <1>s, <2>1, AwakeKeeps
  <2>3. UndoTypeOK'
    BY <1>s, <2>1, <2>2 DEF UndoTypeOK
  <2>4. SaverInv'
    BY <1>s, <2>1, AwakeKeeps, SaverKeeps DEF UndoInv, UndoRunning
  <2> QED BY <2>1, <2>3, <2>4, ProgramKeeps DEF UndoRunning
<1>14. ASSUME Join \/ Crash PROVE UndoInv'
  <2>1. /\ program' = "off" /\ network' = Blank /\ dirty' = TRUE /\ buffer' = <<>> /\ head' = 0
        /\ toSave' = <<>> /\ saver' = Thread("end") /\ quit' = FALSE /\ failed' = FALSE /\ UNCHANGED files
    BY <1>14 DEF Join, Crash, Off
  <2>2. saver' \in Saver /\ saver'.at = "end"
    BY <2>1, ThreadType
  <2>3. UndoTypeOK'
    BY <1>a, <1>e, <2>1, <2>2 DEF UndoTypeOK
  <2>4. SaverInv'
    BY <2>1, <2>2, SaverKeeps DEF UndoInv
  <2> QED BY <2>1, <2>3, <2>4, ProgramKeeps DEF UndoRunning
<1>15. ASSUME UNCHANGED undoVars PROVE UndoInv'
  <2>1. /\ UNCHANGED <<network, dirty, buffer, head, toSave, saver, quit, failed, program>>
        /\ UNCHANGED files
    BY <1>15 DEF undoVars, history
  <2>2. UndoTypeOK'
    BY <1>s, <2>1 DEF UndoTypeOK
  <2>3. SaverInv'
    BY <1>i, <2>1, SaverKeeps DEF UndoInv, UndoRunning
  <2> QED BY <2>1, <2>2, <2>3, ProgramKeeps
            DEF UndoInv, Agreed, HeadIsCurrent, PushedIsSaved, Newest, UndoRunning, Last
<1> QED BY <1>1, <1>2, <1>3, <1>4, <1>5, <1>6, <1>7, <1>8, <1>9, <1>10, <1>11, <1>12, <1>13, <1>14, <1>15,
          <1>16, <1>17, <1>18 DEF UndoNext, SaverStep

\* The history and the saver have states of their types in every reachable state.
THEOREM UndoTypeCorrect == UndoSpec => []UndoTypeOK
BY UndoInvInit, UndoInvStep, PTL DEF UndoSpec, UndoInv

\* The state that the history is at is the state of the network as long as nothing has
\* changed since; the newest state of the history is what the saver works on or takes next,
\* and when it is idle and no call on a file has failed that state was copied to the end; and
\* what was copied to the end is the head of the file until another copy writes to it, which
\* a crash in the middle of a copy may leave half done.
THEOREM HistorySaved == UndoSpec => []HistoryIsSaved
<1>1. ASSUME UndoInv PROVE IdleIsSaved
  <2> SUFFICES ASSUME UndoRunning, buffer # <<>>, Last(buffer) \notin Buffered, ~ failed,
                      toSave = <<>>, saver.at \in {"check", "checked", "waiting"}
               PROVE  saved = Last(buffer)
    BY DEF IdleIsSaved
  <2>1. saver.state = Last(buffer)
    BY <1>1 DEF UndoInv, Agreed, PushedIsSaved, Newest
  <2>2. Last(buffer) \in State
    <3>1. Len(buffer) \in Nat \ {0}
      BY <1>1, EmptySeq, LenProperties DEF UndoInv, UndoTypeOK
    <3>2. Len(buffer) \in 1 .. Len(buffer)
      BY <3>1
    <3> QED BY <1>1, <3>2, ElementOfSeq DEF UndoInv, UndoTypeOK, Last
  <2>3. Last(buffer) # NoState
    BY <2>2, UndoAssumption
  <2> QED BY <1>1, <2>1, <2>3 DEF UndoInv, SaverInv, Idle
<1>2. UndoInv => HistoryIsSaved
  BY <1>1 DEF UndoInv, Agreed, HistoryIsSaved
<1> QED BY <1>2, UndoInvInit, UndoInvStep, PTL DEF UndoSpec
=============================================================================
