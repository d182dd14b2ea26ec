------------------------ MODULE PropertyLinks_proofs ------------------------
(***************************************************************************)
(* The caches of links are what the links give, for every network and      *)
(* every order of its changes, and evaluating the links between properties *)
(* with a value gives each destination the value of its source, once.      *)
(***************************************************************************)
EXTENDS PropertyLinks, SequenceFacts

-----------------------------------------------------------------------------
(* The invariant.                                                          *)

\* Every link of a list goes to a property that is in none of those before it.
Straight(list) ==
  \A k \in DOMAIN list :
    list[k][2] # list[k][1] /\ \A j \in 1 .. k - 1 : list[k][2] \notin {list[j][1], list[j][2]}

Frame ==
  [at : {"callbacks", "owner", "collect", "convert", "set", "remove"}, prop : Property,
   from : Property \cup {NoProperty}, list : Seq(Link) \cup Seq(Property),
   count : Nat, i : Nat \ {0}]

\* What each kind of call holds.
Calls ==
  {f \in Frame :
     /\ f.at = "convert" => /\ f.list \in Seq(Link) /\ Straight(f.list)
                            /\ f.list # <<>> => f.list[1][1] = f.prop
     /\ f.at = "set" => /\ f.prop \in Composite /\ f.from \in Composite
                        /\ f.prop \in List => f.from \in List
                        /\ f.list \in Seq(Property) /\ f.count <= Len(f.list)
                        /\ f.prop \in List => f.list \in Seq(Leaf)
     /\ f.at = "remove" => f.prop \in List /\ f.from \in Leaf}

\* Only the call on top makes a list.
Waiting == {f \in Calls : f.at # "collect"}

StackOK(s) == s \in Seq(Calls) /\ (s # <<>> => Tail(s) \in Seq(Waiting))

\* A list leads on from p: each link starts where p or the links before it lead.
Leading(p, list) ==
  \A k \in DOMAIN list : list[k] \in links /\ Reaches(p, list, k - 1, list[k][1])

Items ==
  [op : {"look", "climb", "follow"}, prop : Property, to : Property \cup {NoProperty}]

\* What is looked at belongs to where the list leads.
ItemOK(p, list, item) ==
  /\ item.op = "look" => <<item.prop, item.to>> \in links
  /\ item.op \in {"look", "follow"} => Reaches(p, list, Len(list), item.prop)
  /\ item.op = "climb" => \E m \in DOMAIN list : Encloses(item.prop, list[m][2])

\* A link that is still to be seen.
Pending(link, item) ==
  \/ item.op = "look" /\ <<item.prop, item.to>> = link
  \/ item.op = "follow" /\ item.prop = link[1]
  \/ item.op = "climb" /\ Encloses(link[1], item.prop)

\* While the list of p is made every link from where it leads is in it, or to be seen.
SearchFor(p, list, items) ==
  /\ Straight(list) /\ Leading(p, list)
  /\ \A item \in items : ItemOK(p, list, item)
  /\ \A link \in links :
       link[1] # link[2] /\ Reaches(p, list, Len(list), link[1])
         => link[2] \in Ends(list) \/ \E item \in items : Pending(link, item)

Types ==
  /\ LinksTypeOK
  /\ \A c \in Composite \ List : children[c] = Elements[c]
  /\ \A p \in DOMAIN secondary : secondary[p] \in Seq(Link)
  /\ found \in Seq(Link) /\ todo \in Seq(Items)
  /\ StackOK(stack)

\* The links go between properties of one type that are in the network, once each.
LinksOK ==
  /\ \A link \in links : {link[1], link[2]} \subseteq Present /\ (link[1] \in Leaf <=> link[2] \in Leaf)
  /\ \A p \in Property : \A i, j \in DOMAIN primary[p] : primary[p][i] = primary[p][j] => i = j

CacheInv ==
  Types /\ LinksOK /\ CacheIsCurrent /\ (InCall("collect") => SearchFor(Top.prop, found, ToSet(todo)))

-----------------------------------------------------------------------------
(* The invariant of a network in which only properties with a value are    *)
(* linked.                                                                 *)

\* A property that was changed, and the loop over the links of it.
Changed(f) == f.at \in {"callbacks", "owner"}
Loops(f) == f.at = "convert" /\ f.list # <<>> /\ f.prop \in Leaf

\* Making the list of a property, or going over the links of one with a value.
Links(f) ==
  \/ f.at = "collect"
  \/ f.at = "convert" /\ (f.list # <<>> => f.prop \in Leaf)

\* The calls that f can be above: there is one loop over links, and within it the composites
\* that are modified have none.
Above(f, calls) ==
  \/ calls = <<>> /\ f.at \in {"callbacks", "owner", "remove"}
  \/ Len(calls) = 1 /\ calls[1].at = "owner" /\ Links(f)
  \/ /\ Len(calls) = 2 /\ Loops(calls[1]) /\ calls[2].at = "owner" /\ Changed(f)
     /\ f.at = "callbacks" => f.prop \in Composite \cup Ends(calls[1].list)
  \/ /\ Len(calls) = 3 /\ calls[1].at = "owner" /\ Loops(calls[2]) /\ calls[3].at = "owner"
     /\ Links(f) /\ f.prop \in Composite

\* The links that a loop has gone over.
Agree(f, val) ==
  \A k \in DOMAIN f.list :
    /\ f.list[k] \in Leaf \X Leaf
    /\ k < f.i => val[f.list[k][2]] = Clamp(f.list[k][2], val[f.list[k][1]])

AllAgree(calls, val) ==
  \A k \in DOMAIN calls : calls[k].at = "convert" => Agree(calls[k], val)

\* Calls, with what they have visited and the values they have set.
Proper(calls, seen, val) ==
  /\ calls # <<>> => Above(calls[1], Tail(calls))
  /\ seen = Looping(calls) /\ AllAgree(calls, val)

LinksInv == CacheInv /\ callbacks \in Nat /\ (Plain => Proper(stack, visited, value))

-----------------------------------------------------------------------------
(* The stack of calls.                                                     *)

LEMMA WaitingAreCalls == Seq(Waiting) \subseteq Seq(Calls)
BY SeqMonotonic DEF Waiting

\* A call on top of calls that wait.
LEMMA Push ==
  ASSUME NEW f \in Calls, NEW s \in Seq(Waiting)
  PROVE  LET t == <<f>> \o s
         IN /\ StackOK(t) /\ t # <<>> /\ t[1] = f /\ Tail(t) = s /\ Len(t) = Len(s) + 1
            /\ DOMAIN t = 1 .. Len(s) + 1 /\ \A i \in 1 .. Len(s) : t[i + 1] = s[i]
            /\ f \in Waiting => t \in Seq(Waiting)
<1> DEFINE t == <<f>> \o s
<1>1. s \in Seq(Calls)
  BY WaitingAreCalls
<1>2. /\ t \in Seq(Calls) /\ Len(t) = Len(s) + 1 /\ t[1] = f
      /\ \A i \in 1 .. Len(s) : t[i + 1] = s[i]
  BY <1>1, PrependProperties
<1>3. f \in Waiting => t \in Seq(Waiting)
  BY PrependProperties
<1> HIDE DEF t
<1>4. Len(s) \in Nat /\ t # <<>> /\ DOMAIN t = 1 .. Len(s) + 1
  BY <1>1, <1>2, LenProperties, EmptySeq
<1>5. /\ Tail(t) \in Seq(Calls) /\ Len(Tail(t)) = Len(s)
      /\ \A i \in 1 .. Len(s) : Tail(t)[i] = t[i + 1]
  BY <1>2, <1>4, HeadTailProperties
<1>6. Tail(t) = s
  BY <1>1, <1>2, <1>4, <1>5, SeqEqual
<1> QED BY <1>2, <1>3, <1>4, <1>6 DEF StackOK, t

\* The call on top, and those below it.
LEMMA Pop ==
  ASSUME NEW s, StackOK(s), s # <<>>
  PROVE  /\ s[1] \in Calls /\ Tail(s) \in Seq(Waiting) /\ s = <<s[1]>> \o Tail(s)
         /\ StackOK(Tail(s)) /\ Len(s) = Len(Tail(s)) + 1 /\ DOMAIN s = 1 .. Len(s)
         /\ \A i \in 1 .. Len(Tail(s)) : Tail(s)[i] = s[i + 1]
<1>1. /\ s \in Seq(Calls) /\ Tail(s) \in Seq(Waiting) /\ Len(s) \in Nat \ {0}
      /\ DOMAIN s = 1 .. Len(s) /\ Tail(s) \in Seq(Calls) /\ Len(Tail(s)) = Len(s) - 1
      /\ \A i \in 1 .. Len(Tail(s)) : Tail(s)[i] = s[i + 1]
  BY HeadTailProperties, LenProperties, EmptySeq DEF StackOK
<1>2. s[1] \in Calls
  BY <1>1, ElementOfSeq
<1> DEFINE r == Tail(s)
           t == <<s[1]>> \o r
<1>3. /\ t \in Seq(Calls) /\ Len(t) = Len(r) + 1 /\ t[1] = s[1]
      /\ \A i \in 1 .. Len(r) : t[i + 1] = r[i]
  BY <1>1, <1>2, PrependProperties
<1> HIDE DEF t
<1>4. ASSUME NEW i \in 1 .. Len(s) PROVE t[i] = s[i]
  <2>1. CASE i = 1
    BY <2>1, <1>3
  <2>2. CASE i # 1
    <3>1. i - 1 \in 1 .. Len(r) /\ (i - 1) + 1 = i
      BY <1>1, <2>2
    <3>2. t[(i - 1) + 1] = r[i - 1] /\ r[i - 1] = s[(i - 1) + 1]
      BY <3>1, <1>1, <1>3
    <3> QED BY <3>1, <3>2
  <2> QED BY <2>1, <2>2
<1>5. Len(t) = Len(s)
  BY <1>1, <1>3
<1>6. t = s
  BY <1>1, <1>3, <1>4, <1>5, SeqEqual
<1>7. r # <<>> => Tail(r) \in Seq(Waiting)
  BY <1>1, HeadTailProperties
<1> QED BY <1>1, <1>2, <1>6, <1>7 DEF StackOK, t

\* What the loops go over, with one more call.
LEMMA LoopingWith ==
  ASSUME NEW f \in Calls, NEW s \in Seq(Waiting)
  PROVE  Looping(<<f>> \o s) = (IF f.at = "convert" THEN Ends(f.list) ELSE {}) \cup Looping(s)
<1> DEFINE t == <<f>> \o s
<1>1. /\ DOMAIN t = 1 .. Len(s) + 1 /\ t[1] = f /\ \A i \in 1 .. Len(s) : t[i + 1] = s[i]
      /\ Len(s) \in Nat /\ DOMAIN s = 1 .. Len(s)
  BY Push, LenProperties
<1> HIDE DEF t
<1>2. ASSUME NEW x \in Looping(t)
      PROVE  x \in (IF f.at = "convert" THEN Ends(f.list) ELSE {}) \cup Looping(s)
  <2>1. PICK k \in DOMAIN t : t[k].at = "convert" /\ x \in Ends(t[k].list)
    BY DEF Looping
  <2>2. CASE k = 1
    BY <1>1, <2>1, <2>2
  <2>3. CASE k # 1
    <3>1. k - 1 \in DOMAIN s /\ s[k - 1] = t[k]
      <4>1. k - 1 \in 1 .. Len(s) /\ (k - 1) + 1 = k
        BY <1>1, <2>3
      <4>2. t[(k - 1) + 1] = s[k - 1]
        BY <1>1, <4>1
      <4> QED BY <4>1, <4>2, <1>1
    <3> QED BY <3>1, <2>1 DEF Looping
  <2> QED BY <2>2, <2>3
<1>3. ASSUME NEW x \in Looping(s) PROVE x \in Looping(t)
  <2>1. PICK k \in DOMAIN s : s[k].at = "convert" /\ x \in Ends(s[k].list)
    BY DEF Looping
  <2>2. k + 1 \in DOMAIN t /\ t[k + 1] = s[k]
    BY <1>1
  <2> QED BY <2>1, <2>2 DEF Looping
<1>4. ASSUME f.at = "convert", NEW x \in Ends(f.list) PROVE x \in Looping(t)
  <2>1. 1 \in DOMAIN t
    BY <1>1
  <2> QED BY <1>1, <1>4, <2>1 DEF Looping
<1> QED BY <1>2, <1>3, <1>4 DEF t

\* The calls that are made.
LEMMA CallTypes ==
  ASSUME NEW p \in Property
  PROVE  /\ Modified(p) \in Waiting /\ Modified(p).at = "callbacks"
         /\ Call("collect", p) \in Calls
         /\ \A list \in Seq(Link) :
              Straight(list) /\ (list # <<>> => list[1][1] = p) =>
                /\ Converting(p, list) \in Waiting /\ Converting(p, list).at = "convert"
                /\ Converting(p, list).list = list /\ Converting(p, list).i = 1
                /\ Converting(p, list).prop = p
<1>1. <<>> \in Seq(Link)
  OBVIOUS
<1> QED BY <1>1 DEF Modified, Call, Calls, Waiting, Frame, Converting

\* A call goes on.
LEMMA Moves ==
  ASSUME NEW f \in Waiting
  PROVE  LET g == [f EXCEPT !.i = @ + 1]
         IN g \in Waiting /\ g.at = f.at /\ g.prop = f.prop /\ g.list = f.list /\ g.i = f.i + 1
BY DEF Calls, Waiting, Frame

LEMMA Evaluated ==
  ASSUME NEW f \in Calls
  PROVE  LET g == [f EXCEPT !.at = "owner"] IN g \in Waiting /\ g.at = "owner" /\ g.prop = f.prop
BY DEF Calls, Waiting, Frame

-----------------------------------------------------------------------------
(* Owners.                                                                 *)

LEMMA OwnerType ==
  ASSUME NEW p
  PROVE  /\ Owner(p) \in Composite \cup {NoProperty}
         /\ Owner(p) # NoProperty => Owner(p) \in Composite /\ Contains(children[Owner(p)], p)
         /\ (\E c \in Composite : Contains(children[c], p)) <=> Owner(p) # NoProperty
<1>1. NoProperty \notin Composite
  BY LinksAssumption DEF Property
<1> DEFINE owners == {c \in Composite : Contains(children[c], p)}
<1> HIDE DEF owners
<1>2. owners # {} => (CHOOSE c \in owners : TRUE) \in owners
  OBVIOUS
<1>3. Owner(p) = IF owners = {} THEN NoProperty ELSE CHOOSE c \in owners : TRUE
  BY DEF Owner, owners
<1> QED BY <1>1, <1>2, <1>3 DEF owners

\* A composite around p is the owner of p, or around the owner of p.
LEMMA EnclosesOwner ==
  ASSUME NEW p, Owner(p) # NoProperty
  PROVE  Encloses(Owner(p), p)
BY OwnerType DEF Encloses

LEMMA EnclosesUp ==
  ASSUME NEW p, NEW c, Encloses(c, p), Owner(c) # NoProperty
  PROVE  Encloses(Owner(c), p)
<1>1. CASE c = p
  BY <1>1, EnclosesOwner
<1>2. CASE c # p
  <2>1. Owner(c) \in Composite
    BY OwnerType
  <2>2. ASSUME NEW S \in SUBSET Composite, \A q \in S \cup {p} : Owner(q) \in S \cup {NoProperty}
        PROVE  Owner(c) \in S
    <3>1. c \in S
      BY <1>2, <2>2 DEF Encloses
    <3> QED BY <3>1, <2>2
  <2> QED BY <2>1, <2>2 DEF Encloses
<1> QED BY <1>1, <1>2

LEMMA EnclosesDown ==
  ASSUME NEW p, NEW c, Encloses(c, p), c # p
  PROVE  Owner(p) # NoProperty /\ Encloses(c, Owner(p))
<1>1. c \in Composite
  BY DEF Encloses
<1>2. ASSUME NEW S \in SUBSET Composite, \A q \in S \cup {p} : Owner(q) \in S \cup {NoProperty}
      PROVE  c \in S
  BY <1>2 DEF Encloses
<1>3. Owner(p) # NoProperty
  <2>1. SUFFICES ASSUME Owner(p) = NoProperty PROVE FALSE
    OBVIOUS
  <2>2. c \in {}
    <3>1. \A q \in {} \cup {p} : Owner(q) \in {} \cup {NoProperty}
      BY <2>1
    <3> QED BY <3>1, <1>2
  <2> QED BY <2>2
<1> DEFINE o == Owner(p)
<1>4. o \in Composite
  BY <1>3, OwnerType
<1> HIDE DEF o
<1>5. ASSUME NEW S \in SUBSET Composite, \A q \in S \cup {o} : Owner(q) \in S \cup {NoProperty}, c # o
      PROVE  c \in S
  <2>1. S \cup {o} \in SUBSET Composite
    BY <1>4
  <2>2. \A q \in (S \cup {o}) \cup {p} : Owner(q) \in (S \cup {o}) \cup {NoProperty}
    BY <1>5 DEF o
  <2>3. c \in S \cup {o}
    BY <2>1, <2>2, <1>2
  <2> QED BY <2>3, <1>5
<1>6. Encloses(c, o)
  BY <1>1, <1>5 DEF Encloses
<1> QED BY <1>3, <1>6 DEF o

\* The owners and the children of these properties are the same after a step.
SameOwners(X) ==
  \A x \in X : /\ Owner(x)' = Owner(x)
               /\ \A c \in Composite : Contains(children'[c], x) <=> Contains(children[c], x)

LEMMA SameChildren ==
  ASSUME UNCHANGED children
  PROVE  SameOwners(Property)
BY DEF SameOwners, Owner

LEMMA NearStays ==
  ASSUME NEW X \in SUBSET Property, Composite \subseteq X, SameOwners(X), NEW q \in X, NEW d \in X
  PROVE  Near(q, d)' <=> Near(q, d)
<1>1. \A x \in X : Owner(x)' = Owner(x)
  BY DEF SameOwners
<1>2. ASSUME NEW S \in SUBSET Composite
      PROVE  (\A x \in S \cup {d} : Owner(x)' \in S \cup {NoProperty})
               <=> (\A x \in S \cup {d} : Owner(x) \in S \cup {NoProperty})
  BY <1>1
<1>3. Encloses(q, d)' <=> Encloses(q, d)
  BY <1>2 DEF Encloses
<1>4. Contains(Children(d)', q) <=> Contains(Children(d), q)
  BY DEF Children, SameOwners
<1> QED BY <1>3, <1>4 DEF Near

\* A list is current still if the links are the same, and the owners of what is linked.
LEMMA ListStays ==
  ASSUME NEW X \in SUBSET Property, Composite \subseteq X, SameOwners(X), UNCHANGED links,
         \A link \in links : link[1] \in X /\ link[2] \in X,
         NEW p, NEW list \in Seq(Link), ListIsCurrent(p, list)
  PROVE  ListIsCurrent(p, list)'
<1>1. \A k \in DOMAIN list : list[k] \in links /\ list[k][2] \in X
  BY DEF ListIsCurrent
<1>2. Len(list) \in Nat /\ DOMAIN list = 1 .. Len(list)
  BY LenProperties
<1>3. ASSUME NEW q \in X, NEW k \in Nat, k <= Len(list)
      PROVE  Reaches(p, list, k, q)' <=> Reaches(p, list, k, q)
  <2>1. \A m \in 1 .. k : Near(q, list[m][2])' <=> Near(q, list[m][2])
    BY <1>1, <1>2, <1>3, NearStays
  <2> QED BY <2>1 DEF Reaches
<1>4. ASSUME NEW k \in DOMAIN list
      PROVE  Reaches(p, list, k - 1, list[k][1])' <=> Reaches(p, list, k - 1, list[k][1])
  <2>1. k - 1 \in Nat /\ k - 1 <= Len(list) /\ list[k][1] \in X
    BY <1>1, <1>2
  <2> QED BY <2>1, <1>3
<1>5. ASSUME NEW link \in links
      PROVE  Reaches(p, list, Len(list), link[1])' <=> Reaches(p, list, Len(list), link[1])
  BY <1>2, <1>3
<1> QED BY <1>4, <1>5 DEF ListIsCurrent, Ends

LEMMA PresentStays ==
  ASSUME NEW X \in SUBSET Property, SameOwners(X), NEW x \in X
  PROVE  x \in Present' <=> x \in Present
BY DEF SameOwners, Present

\* What it says of two properties that the links are those to the direct destinations.
LEMMA DirectForm ==
  ASSUME NEW set \in SUBSET Link, NEW dests \in [Property -> Seq(Property)]
  PROVE  set = UNION {{<<p, q>> : q \in ToSet(dests[p])} : p \in Property}
           <=> \A p, q \in Property : <<p, q>> \in set <=> q \in ToSet(dests[p])
<1>1. \A p \in Property : ToSet(dests[p]) \subseteq Property
  <2>1. ASSUME NEW p \in Property, NEW i \in DOMAIN dests[p] PROVE dests[p][i] \in Property
    <3>1. dests[p] \in Seq(Property)
      OBVIOUS
    <3> QED BY <3>1, LenProperties, ElementOfSeq
  <2> QED BY <2>1 DEF ToSet
<1> DEFINE direct == UNION {{<<p, q>> : q \in ToSet(dests[p])} : p \in Property}
<1>2. \A p, q \in Property : <<p, q>> \in direct <=> q \in ToSet(dests[p])
  OBVIOUS
<1>3. direct \subseteq Link
  BY <1>1 DEF Link
<1> HIDE DEF direct
<1>4. ASSUME \A p, q \in Property : <<p, q>> \in set <=> q \in ToSet(dests[p])
      PROVE  set = direct
  <2>1. ASSUME NEW x \in Link PROVE x \in set <=> x \in direct
    <3>1. PICK p \in Property, q \in Property : x = <<p, q>>
      BY DEF Link
    <3> QED BY <3>1, <1>2, <1>4
  <2> QED BY <2>1, <1>3
<1>5. ASSUME set = direct
      PROVE  \A p, q \in Property : <<p, q>> \in set <=> q \in ToSet(dests[p])
  BY <1>2, <1>5
<1> QED BY <1>4, <1>5 DEF direct

LEMMA PrimaryForm ==
  ASSUME links \subseteq Link, primary \in [Property -> Seq(Property)]
  PROVE  links = UNION {{<<p, q>> : q \in ToSet(primary[p])} : p \in Property}
           <=> \A p, q \in Property : <<p, q>> \in links <=> q \in ToSet(primary[p])
BY DirectForm

\* The ends of the links are properties, which are in the network.
LEMMA LinkEnds ==
  ASSUME LinksTypeOK, LinksOK, NEW link \in links
  PROVE  /\ link[1] \in Property /\ link[2] \in Property /\ link = <<link[1], link[2]>>
         /\ link[1] \in Present /\ link[2] \in Present
         /\ link[1] \in Leaf <=> link[2] \in Leaf
BY DEF LinksTypeOK, LinksOK, Link

-----------------------------------------------------------------------------
(* Steps that leave the network and the search alone.                      *)

LEMMA CacheQuiet ==
  ASSUME CacheInv, UNCHANGED <<children, networkVars>>
  PROVE  CacheIsCurrent' /\ LinksOK'
<1>1. SameOwners(Property)
  BY SameChildren
<1>2. \A link \in links : link[1] \in Property /\ link[2] \in Property
  BY LinkEnds DEF CacheInv, Types
<1>3. ASSUME NEW p \in DOMAIN secondary PROVE ListIsCurrent(p, secondary[p])'
  <2>1. secondary[p] \in Seq(Link) /\ ListIsCurrent(p, secondary[p]) /\ UNCHANGED <<links, secondary>>
    BY DEF CacheInv, Types, CacheIsCurrent, networkVars
  <2>2. PICK list \in Seq(Link) : list = secondary[p]
    BY <2>1
  <2>3. Composite \subseteq Property
    BY DEF Property
  <2>4. ListIsCurrent(p, list)'
    BY <1>1, <1>2, <2>1, <2>2, <2>3, ListStays
  <2> QED BY <2>1, <2>2, <2>4
<1>4. CacheIsCurrent'
  BY <1>3 DEF CacheIsCurrent, CacheInv, networkVars
<1>5. LinksOK'
  BY <1>1, <1>2, PresentStays DEF LinksOK, CacheInv, networkVars
<1> QED BY <1>4, <1>5

LEMMA Quiet ==
  ASSUME CacheInv, UNCHANGED <<children, networkVars, searchVars>>, StackOK(stack'),
         value' \in [Leaf -> Value], visited' \subseteq Looping(stack'),
         stack' # <<>> => stack'[1].at # "collect"
  PROVE  CacheInv'
<1>1. CacheIsCurrent' /\ LinksOK'
  BY CacheQuiet
<1>2. Types'
  BY DEF Types, CacheInv, LinksTypeOK, networkVars, searchVars, StackOK, Looping
<1>3. ~ InCall("collect")'
  BY DEF InCall, Top
<1> QED BY <1>1, <1>2, <1>3 DEF CacheInv

LEMMA OfWaiting ==
  ASSUME NEW s \in Seq(Waiting)
  PROVE  StackOK(s) /\ (s # <<>> => s[1].at # "collect")
<1>1. s \in Seq(Calls)
  BY WaitingAreCalls
<1>2. s # <<>> => s[1] \in Waiting /\ Tail(s) \in Seq(Waiting)
  BY HeadTailProperties, LenProperties, EmptySeq, ElementOfSeq
<1> QED BY <1>1, <1>2 DEF StackOK, Waiting

\* The elements of lists are leaves.
LEMMA ListElements ==
  ASSUME LinksTypeOK, NEW list \in List
  PROVE  /\ children[list] \in Seq(Leaf) /\ ToSet(children[list]) \subseteq Leaf
         /\ ToSet(Elements[list]) \subseteq Leaf
<1>1. list \in Composite /\ Elements[list] \in Seq(Leaf) /\ children[list] \in Seq(Property)
  BY LinksAssumption DEF LinksTypeOK
<1>2. ToSet(Elements[list]) \subseteq Leaf
  BY <1>1, LenProperties, ElementOfSeq DEF ToSet
<1>3. ToSet(children[list]) \subseteq Leaf
  BY <1>1, <1>2 DEF LinksTypeOK
<1>4. Len(children[list]) \in Nat /\ DOMAIN children[list] = 1 .. Len(children[list])
      /\ children[list] = [i \in 1 .. Len(children[list]) |-> children[list][i]]
  BY <1>1, LenProperties
<1>5. children[list] \in [1 .. Len(children[list]) -> Leaf]
  BY <1>3, <1>4 DEF ToSet
<1> QED BY <1>2, <1>3, <1>4, <1>5, SeqDef

LEMMA SettingType ==
  ASSUME LinksTypeOK, NEW dst \in Composite, NEW src \in Composite, dst \in List => src \in List
  PROVE  Setting(dst, src) \in Waiting /\ Setting(dst, src).at = "set"
<1>1. children[dst] \in Seq(Property) /\ children[src] \in Seq(Property)
  BY DEF LinksTypeOK
<1>2. Len(children[dst]) \in Nat /\ Len(children[src]) \in Nat
  BY <1>1, LenProperties
<1>3. dst \in List => children[dst] \in Seq(Leaf)
  BY ListElements
<1> DEFINE f == Setting(dst, src)
<1>4. /\ f.at = "set" /\ f.prop = dst /\ f.from = src /\ f.list = children[dst]
      /\ f.count \in {Len(children[src]), Len(children[dst])} /\ f.count <= Len(children[dst])
  BY <1>2 DEF Setting, Call
<1>5. f \in Frame
  <2>1. PICK n \in Nat : n = IF Len(children[src]) < Len(children[dst])
                            THEN Len(children[src]) ELSE Len(children[dst])
    BY <1>2
  <2>2. f = [at |-> "set", prop |-> dst, from |-> src, list |-> children[dst], count |-> n, i |-> 1]
    <3> DEFINE set(a, l, m) == [at |-> "set", prop |-> dst, from |-> a, list |-> l, count |-> m, i |-> 1]
    <3>1. /\ Call("set", dst) = set(NoProperty, <<>>, 0)
          /\ \A a, l, m, b : [set(a, l, m) EXCEPT !.from = b] = set(b, l, m)
          /\ \A a, l, m, b : [set(a, l, m) EXCEPT !.list = b] = set(a, b, m)
          /\ \A a, l, m, b : [set(a, l, m) EXCEPT !.count = b] = set(a, l, b)
      BY DEF Call
    <3> HIDE DEF set
    <3>2. f = [Call("set", dst) EXCEPT !.from = src, !.list = children[dst], !.count = n]
      BY <2>1 DEF Setting
    <3>3. PICK c : c = set(src, <<>>, 0)
      OBVIOUS
    <3>4. [Call("set", dst) EXCEPT !.from = src] = c
      BY <3>1, <3>3
    <3>5. PICK d : d = set(src, children[dst], 0)
      OBVIOUS
    <3>6. [c EXCEPT !.list = children[dst]] = d
      BY <3>1, <3>3, <3>5
    <3>7. [d EXCEPT !.count = n] = set(src, children[dst], n)
      BY <3>1, <3>5
    <3> QED BY <3>2, <3>4, <3>6, <3>7, Zenon DEF set
  <2> QED BY <1>1, <2>1, <2>2 DEF Frame, Property
<1> HIDE DEF f
<1>6. f \in Calls
  BY <1>1, <1>3, <1>4, <1>5 DEF Calls
<1> QED BY <1>4, <1>6 DEF Waiting, f

\* What remains the same, and what is called, when a property is set.
SetEffect(below) ==
  /\ StackOK(stack') /\ value' \in [Leaf -> Value] /\ Looping(stack') = Looping(below)
  /\ stack' # <<>> => stack'[1].at # "collect"

LEMMA PushQuiet ==
  ASSUME NEW f \in Waiting, NEW below \in Seq(Waiting), f.at # "convert",
         stack' = <<f>> \o below
  PROVE  /\ StackOK(stack') /\ Looping(stack') = Looping(below)
         /\ stack' # <<>> => stack'[1].at # "collect"
<1>1. f \in Calls /\ f.at # "collect"
  BY DEF Waiting
<1>2. StackOK(stack') /\ stack'[1] = f
  BY <1>1, Push
<1>3. Looping(<<f>> \o below) = Looping(below)
  BY <1>1, LoopingWith
<1> QED BY <1>1, <1>2, <1>3

LEMMA AssignEffect ==
  ASSUME LinksTypeOK, NEW p \in Leaf, NEW v \in Value, NEW below \in Seq(Waiting),
         Assign(p, v, below)
  PROVE  SetEffect(below)
<1>1. value' \in [Leaf -> Value]
  BY LinksAssumption DEF Assign, Clamp, LinksTypeOK
<1>2. CASE stack' = below
  BY <1>1, <1>2, OfWaiting DEF SetEffect
<1>3. CASE stack' = <<Modified(p)>> \o below
  <2>1. Modified(p) \in Waiting /\ Modified(p).at = "callbacks"
    BY CallTypes DEF Property
  <2> DEFINE f == Modified(p)
  <2> HIDE DEF f
  <2>2. f \in Waiting /\ f.at # "convert" /\ stack' = <<f>> \o below
    BY <2>1, <1>3 DEF f
  <2>3. /\ StackOK(stack') /\ Looping(stack') = Looping(below)
        /\ stack' # <<>> => stack'[1].at # "collect"
    BY <2>2, PushQuiet
  <2> QED BY <2>3, <1>1 DEF SetEffect
<1> QED BY <1>2, <1>3 DEF Assign

LEMMA SetFromEffect ==
  ASSUME LinksTypeOK, NEW dst, NEW src, NEW below \in Seq(Waiting), SetFrom(dst, src, below)
  PROVE  SetEffect(below)
<1>1. CASE {dst, src} \subseteq Leaf
  <2>1. value[src] \in Value /\ dst \in Leaf
    BY <1>1 DEF LinksTypeOK
  <2> QED BY <1>1, <2>1, AssignEffect DEF SetFrom
<1>2. CASE ~ ({dst, src} \subseteq Leaf) /\ stack' = below
  BY <1>2, OfWaiting DEF SetFrom, SetEffect, LinksTypeOK
<1>3. CASE /\ ~ ({dst, src} \subseteq Leaf) /\ stack' = <<Setting(dst, src)>> \o below
           /\ dst \in Composite /\ src \in Composite /\ (dst \in List => src \in List)
  <2>1. PICK f : f = Setting(dst, src)
    OBVIOUS
  <2>2. f \in Waiting /\ f.at # "convert" /\ stack' = <<f>> \o below
    BY <2>1, <1>3, SettingType
  <2>3. /\ StackOK(stack') /\ Looping(stack') = Looping(below)
        /\ stack' # <<>> => stack'[1].at # "collect"
    BY <2>2, PushQuiet
  <2> QED BY <2>3, <1>3 DEF SetEffect, SetFrom, LinksTypeOK
<1> QED BY <1>1, <1>2, <1>3, LinksAssumption DEF SetFrom

\* The call on top, and the calls below it.
LEMMA TopOf ==
  ASSUME CacheInv, stack # <<>>
  PROVE  /\ Top \in Calls /\ Rest \in Seq(Waiting) /\ stack = <<Top>> \o Rest
         /\ Looping(stack) = (IF Top.at = "convert" THEN Ends(Top.list) ELSE {}) \cup Looping(Rest)
         /\ Top.prop \in Property /\ Top.i \in Nat \ {0}
         /\ Top.at # "collect" => Top \in Waiting
<1>1. StackOK(stack)
  BY DEF CacheInv, Types
<1>2. Top \in Calls /\ Rest \in Seq(Waiting) /\ stack = <<Top>> \o Rest
  BY <1>1, Pop DEF Top, Rest
<1>3. /\ Looping(<<Top>> \o Rest)
           = (IF Top.at = "convert" THEN Ends(Top.list) ELSE {}) \cup Looping(Rest)
  BY <1>2, LoopingWith
<1> QED BY <1>2, <1>3 DEF Calls, Frame, Waiting

\* A call goes on, above the same ones.
LEMMA GoesOn ==
  ASSUME CacheInv, stack # <<>>, Top.at # "collect"
  PROVE  LET below == <<[Top EXCEPT !.i = @ + 1]>> \o Rest
         IN below \in Seq(Waiting) /\ Looping(below) = Looping(stack)
<1>1. /\ Top \in Waiting /\ Rest \in Seq(Waiting)
      /\ Looping(stack) = (IF Top.at = "convert" THEN Ends(Top.list) ELSE {}) \cup Looping(Rest)
  BY TopOf
<1> DEFINE g == [Top EXCEPT !.i = @ + 1]
<1>2. g \in Waiting /\ g.at = Top.at /\ g.list = Top.list
  BY <1>1, Moves
<1> HIDE DEF g
<1>3. g \in Calls
  BY <1>2 DEF Waiting
<1>4. <<g>> \o Rest \in Seq(Waiting)
  BY <1>1, <1>2, <1>3, Push
<1>5. Looping(<<g>> \o Rest) = (IF g.at = "convert" THEN Ends(g.list) ELSE {}) \cup Looping(Rest)
  BY <1>1, <1>3, LoopingWith
<1> QED BY <1>1, <1>2, <1>4, <1>5 DEF g

\* A property is set, and nothing else is done.
LEMMA QuietSet ==
  ASSUME CacheInv, UNCHANGED <<children, networkVars, searchVars, visited>>,
         NEW below \in Seq(Waiting), SetEffect(below), Looping(below) = Looping(stack)
  PROVE  CacheInv'
<1>1. visited' \subseteq Looping(stack')
  BY DEF SetEffect, CacheInv, Types, LinksTypeOK
<1> QED BY <1>1, Quiet DEF SetEffect

LEMMA StackWaits ==
  ASSUME CacheInv, stack # <<>> => Top.at # "collect"
  PROVE  stack \in Seq(Waiting)
<1>1. CASE stack = <<>>
  BY <1>1
<1>2. CASE stack # <<>>
  <2>1. Top \in Waiting /\ Rest \in Seq(Waiting) /\ stack = <<Top>> \o Rest
    BY <1>2, TopOf
  <2> DEFINE f == Top
             r == Rest
  <2> HIDE DEF f, r
  <2>2. f \in Waiting /\ f \in Calls /\ r \in Seq(Waiting) /\ stack = <<f>> \o r
    BY <2>1 DEF Waiting, f, r
  <2>3. <<f>> \o r \in Seq(Waiting)
    BY <2>2, Push
  <2> QED BY <2>2, <2>3
<1> QED BY <1>1, <1>2

LEMMA CurrentIsStraight ==
  ASSUME NEW p, NEW list \in Seq(Link), ListIsCurrent(p, list)
  PROVE  Straight(list) /\ (list # <<>> => list[1][1] = p)
<1>1. Straight(list)
  BY DEF ListIsCurrent, Straight
<1>2. ASSUME list # <<>> PROVE list[1][1] = p
  <2>1. 1 \in DOMAIN list /\ 1 - 1 = 0
    BY <1>2, LenProperties, EmptySeq
  <2>2. Reaches(p, list, 0, list[1][1])
    BY <2>1 DEF ListIsCurrent
  <2> QED BY <2>2 DEF Reaches
<1> QED BY <1>1, <1>2

\* A loop begins.
LEMMA LoopStarts ==
  ASSUME NEW p \in Property, NEW list \in Seq(Link), ListIsCurrent(p, list),
         NEW below \in Seq(Waiting), StartLoop(p, list, below)
  PROVE  /\ StackOK(stack') /\ Looping(stack') = Ends(list) \cup Looping(below)
         /\ stack'[1] = Converting(p, list) /\ Converting(p, list).at = "convert"
         /\ stack'[1].at # "collect"
<1> DEFINE f == Converting(p, list)
<1>1. f \in Waiting /\ f.at = "convert" /\ f.list = list
  BY CallTypes, CurrentIsStraight
<1>2. stack' = <<f>> \o below
  BY DEF StartLoop
<1> HIDE DEF f
<1>3. f \in Calls
  BY <1>1 DEF Waiting
<1>4. StackOK(stack') /\ stack'[1] = f
  BY <1>2, <1>3, Push
<1>5. Looping(stack') = Ends(list) \cup Looping(below)
  BY <1>1, <1>2, <1>3, LoopingWith
<1> QED BY <1>1, <1>4, <1>5 DEF f

\* The call on top goes on after its links, above the same ones.
LEMMA AtOwner ==
  ASSUME CacheInv, InCall("callbacks")
  PROVE  LET g == [Top EXCEPT !.at = "owner"]
         IN /\ g \in Waiting /\ g.at = "owner" /\ g.prop = Top.prop
            /\ <<g>> \o Rest \in Seq(Waiting) /\ Looping(<<g>> \o Rest) = Looping(stack)
<1>1. /\ Top \in Calls /\ Rest \in Seq(Waiting) /\ Top.at = "callbacks"
      /\ Looping(stack) = (IF Top.at = "convert" THEN Ends(Top.list) ELSE {}) \cup Looping(Rest)
  BY TopOf DEF InCall
<1> DEFINE g == [Top EXCEPT !.at = "owner"]
<1>2. g \in Waiting /\ g.at = "owner" /\ g.prop = Top.prop
  BY <1>1, Evaluated
<1> HIDE DEF g
<1>3. g \in Calls
  BY <1>2 DEF Waiting
<1>4. <<g>> \o Rest \in Seq(Waiting)
  BY <1>1, <1>2, <1>3, Push
<1>5. Looping(<<g>> \o Rest) = (IF g.at = "convert" THEN Ends(g.list) ELSE {}) \cup Looping(Rest)
  BY <1>1, <1>3, LoopingWith
<1> QED BY <1>1, <1>2, <1>4, <1>5 DEF g

LEMMA EvaluateQuiet ==
  ASSUME CacheInv, EvaluateLinks, Top.prop \in visited \cup DOMAIN secondary
  PROVE  CacheInv'
<1> DEFINE g == [Top EXCEPT !.at = "owner"]
           below == <<g>> \o Rest
<1>1. /\ g \in Waiting /\ g.at = "owner" /\ Rest \in Seq(Waiting)
      /\ below \in Seq(Waiting) /\ Looping(below) = Looping(stack) /\ Top.prop \in Property
  BY AtOwner, TopOf DEF EvaluateLinks, InCall
<1>2. visited \subseteq Looping(stack)
  BY DEF CacheInv, Types, LinksTypeOK
<1>3. CASE Top.prop \in visited
  <2>1. stack' = below /\ UNCHANGED <<visited, searchVars, children, value, networkVars>>
    BY <1>3 DEF EvaluateLinks
  <2> HIDE DEF below
  <2>2. StackOK(stack') /\ (stack' # <<>> => stack'[1].at # "collect")
    BY <1>1, <2>1, OfWaiting
  <2>3. value' \in [Leaf -> Value] /\ visited' \subseteq Looping(stack')
    BY <1>1, <1>2, <2>1 DEF CacheInv, Types, LinksTypeOK
  <2>4. UNCHANGED <<children, networkVars, searchVars>>
    BY <2>1
  <2> QED BY <2>2, <2>3, <2>4, Quiet
<1>4. CASE Top.prop \notin visited /\ Top.prop \in DOMAIN secondary
  <2>1. /\ StartLoop(Top.prop, secondary[Top.prop], below)
        /\ UNCHANGED <<searchVars, children, value, networkVars>>
    BY <1>4 DEF EvaluateLinks, Triggered
  <2> HIDE DEF below
  <2>2. PICK p \in Property, list \in Seq(Link), b \in Seq(Waiting) :
          p = Top.prop /\ list = secondary[p] /\ b = below
    BY <1>1, <1>4 DEF CacheInv, Types
  <2>3. ListIsCurrent(p, list)
    BY <2>2, <1>4 DEF CacheInv, CacheIsCurrent
  <2>4. StartLoop(p, list, b)
    BY <2>1, <2>2
  <2>5. /\ StackOK(stack') /\ Looping(stack') = Ends(list) \cup Looping(b)
        /\ stack'[1].at # "collect"
    BY <2>3, <2>4, LoopStarts
  <2>6. value' \in [Leaf -> Value] /\ visited' \subseteq Looping(stack')
    BY <1>1, <1>2, <2>1, <2>2, <2>4, <2>5 DEF CacheInv, Types, LinksTypeOK, StartLoop
  <2>7. UNCHANGED <<children, networkVars, searchVars>>
    BY <2>1
  <2> QED BY <2>5, <2>6, <2>7, Quiet
<1> QED BY <1>3, <1>4

LEMMA RemoveFromQuiet ==
  ASSUME CacheInv, NEW list \in List, NEW e \in Leaf, NEW below \in Seq(Waiting),
         Looping(below) = Looping(stack), RemoveFrom(list, e, below)
  PROVE  CacheInv'
<1>1. PICK f : f = [Call("remove", list) EXCEPT !.from = e]
  OBVIOUS
<1>2. f \in Waiting /\ f.at = "remove"
  <2>1. list \in Property /\ <<>> \in Seq(Property) /\ e \in Property
    BY LinksAssumption DEF Property
  <2>2. f = [at |-> "remove", prop |-> list, from |-> e, list |-> <<>>, count |-> 0, i |-> 1]
    BY <1>1 DEF Call
  <2> QED BY <2>1, <2>2 DEF Waiting, Calls, Frame
<1>3. stack' = <<f>> \o below
  BY <1>1 DEF RemoveFrom
<1>4. /\ StackOK(stack') /\ Looping(stack') = Looping(below)
      /\ stack' # <<>> => stack'[1].at # "collect"
  BY <1>2, <1>3, PushQuiet
<1>5. /\ value' \in [Leaf -> Value] /\ visited' \subseteq Looping(stack')
      /\ UNCHANGED <<children, networkVars, searchVars>>
  BY <1>4 DEF RemoveFrom, CacheInv, Types, LinksTypeOK
<1> QED BY <1>4, <1>5, Quiet

LEMMA QuietSteps ==
  ASSUME CacheInv,
         \/ Callback \/ InvalidateOwner \/ Convert \/ Converted \/ SetElement \/ SetDone
         \/ SetProperty \/ RemoveSurplus \/ RemoveElement
  PROVE  CacheInv'
<1>a. LinksTypeOK /\ visited \subseteq Looping(stack) /\ value \in [Leaf -> Value]
  BY DEF CacheInv, Types, LinksTypeOK
<1>1. CASE Callback
  <2>1. PICK p \in Leaf, v \in Value : Assign(p, v, stack)
    BY <1>1 DEF Callback
  <2>2. stack \in Seq(Waiting)
    BY <1>1, StackWaits DEF Callback, InCall
  <2>3. PICK s \in Seq(Waiting) : s = stack
    BY <2>2
  <2>4. Assign(p, v, s)
    BY <2>1, <2>3
  <2>5. SetEffect(s)
    BY <1>a, <2>4, AssignEffect
  <2>6. UNCHANGED <<children, networkVars, searchVars, visited>>
    BY <1>1 DEF Callback
  <2> QED BY <2>3, <2>5, <2>6, QuietSet
<1>2. CASE InvalidateOwner
  <2>1. Rest \in Seq(Waiting) /\ Looping(stack) = Looping(Rest)
    BY <1>2, TopOf DEF InvalidateOwner, InCall
  <2>2. PICK r \in Seq(Waiting) : r = Rest
    BY <2>1
  <2>3. UNCHANGED <<children, networkVars, searchVars, visited, value>>
    BY <1>2 DEF InvalidateOwner
  <2>4. CASE stack' = r
    <3>1. SetEffect(r)
      BY <1>a, <2>3, <2>4, OfWaiting DEF SetEffect
    <3> QED BY <2>1, <2>2, <2>3, <3>1, QuietSet
  <2>5. CASE Owner(Top.prop) # NoProperty /\ stack' = <<Modified(Owner(Top.prop))>> \o r
    <3>1. Owner(Top.prop) \in Property
      BY <2>5, OwnerType DEF Property
    <3>2. PICK f \in Waiting : f = Modified(Owner(Top.prop)) /\ f.at # "convert"
      BY <3>1, CallTypes
    <3>3. stack' = <<f>> \o r
      BY <2>5, <3>2
    <3>4. SetEffect(r)
      BY <1>a, <2>3, <3>2, <3>3, PushQuiet DEF SetEffect
    <3> QED BY <2>1, <2>2, <2>3, <3>4, QuietSet
  <2> QED BY <1>2, <2>2, <2>4, <2>5 DEF InvalidateOwner
<1>3. CASE Convert \/ SetElement
  <2>1. PICK b \in Seq(Waiting) :
          b = <<[Top EXCEPT !.i = @ + 1]>> \o Rest /\ Looping(b) = Looping(stack)
    BY <1>3, GoesOn DEF Convert, SetElement, InCall
  <2>2. PICK dst, src : SetFrom(dst, src, b)
    BY <1>3, <2>1 DEF Convert, SetElement
  <2>3. SetEffect(b)
    BY <1>a, <2>2, SetFromEffect
  <2>4. UNCHANGED <<children, networkVars, searchVars, visited>>
    BY <1>3 DEF Convert, SetElement
  <2> QED BY <2>1, <2>3, <2>4, QuietSet
<1>4. CASE Converted
  <2>1. Rest \in Seq(Waiting) /\ Looping(stack) = Ends(Top.list) \cup Looping(Rest)
    BY <1>4, TopOf DEF Converted, InCall
  <2>2. /\ stack' = Rest /\ visited' = visited \ Ends(Top.list)
        /\ UNCHANGED <<children, networkVars, searchVars, value>>
    BY <1>4 DEF Converted
  <2>3. StackOK(stack') /\ (stack' # <<>> => stack'[1].at # "collect")
    BY <2>1, <2>2, OfWaiting
  <2>4. visited' \subseteq Looping(stack')
    BY <1>a, <2>1, <2>2
  <2>5. value' \in [Leaf -> Value]
    BY <1>a, <2>2
  <2> QED BY <2>2, <2>3, <2>4, <2>5, Quiet
<1>5. CASE SetDone
  <2>1. Rest \in Seq(Waiting) /\ Looping(stack) = Looping(Rest) /\ Top.prop \in Property
    BY <1>5, TopOf DEF SetDone, InCall
  <2>2. PICK r \in Seq(Waiting) : r = Rest
    BY <2>1
  <2>3. PICK f \in Waiting : f = Modified(Top.prop) /\ f.at # "convert"
    BY <2>1, CallTypes
  <2>4. stack' = <<f>> \o r /\ UNCHANGED <<children, networkVars, searchVars, visited, value>>
    BY <1>5, <2>2, <2>3 DEF SetDone
  <2>5. SetEffect(r)
    BY <1>a, <2>3, <2>4, PushQuiet DEF SetEffect
  <2> QED BY <2>1, <2>2, <2>4, <2>5, QuietSet
<1>6. CASE SetProperty
  <2>1. PICK p \in Leaf, v \in Value : Assign(p, v, <<>>)
    BY <1>6 DEF SetProperty
  <2>2. <<>> \in Seq(Waiting) /\ stack = <<>>
    BY <1>6 DEF SetProperty
  <2>3. SetEffect(<<>>)
    BY <1>a, <2>1, <2>2, AssignEffect
  <2>4. UNCHANGED <<children, networkVars, searchVars, visited>>
    BY <1>6 DEF SetProperty
  <2> QED BY <2>2, <2>3, <2>4, QuietSet
<1>7. CASE RemoveSurplus
  <2>1. PICK b \in Seq(Waiting) :
          b = <<[Top EXCEPT !.i = @ + 1]>> \o Rest /\ Looping(b) = Looping(stack)
    BY <1>7, GoesOn DEF RemoveSurplus, InCall
  <2>2. Top.list \in Seq(Leaf) /\ Top.i \in 1 .. Len(Top.list)
    <3>1. Top \in Calls /\ Top.at = "set" /\ Top.prop \in List /\ Top.i \in Nat \ {0}
      BY <1>7, TopOf DEF RemoveSurplus, InCall
    <3>2. Top.list \in Seq(Leaf)
      BY <3>1 DEF Calls
    <3> QED BY <1>7, <3>1, <3>2, LenProperties DEF RemoveSurplus
  <2>3. Top.list[Top.i] \in Leaf
    BY <2>2, ElementOfSeq
  <2>4. RemoveFrom(Top.prop, Top.list[Top.i], b) /\ Top.prop \in List
    BY <1>7, <2>1 DEF RemoveSurplus
  <2>5. PICK list \in List, e \in Leaf : RemoveFrom(list, e, b)
    BY <2>3, <2>4
  <2> QED BY <2>1, <2>5, RemoveFromQuiet
<1>8. CASE RemoveElement
  <2>1. PICK list \in List : \E e \in ToSet(children[list]) : RemoveFrom(list, e, <<>>)
    BY <1>8 DEF RemoveElement
  <2>2. PICK e \in Leaf : RemoveFrom(list, e, <<>>)
    BY <1>a, <2>1, ListElements
  <2>3. <<>> \in Seq(Waiting) /\ stack = <<>>
    BY <1>8 DEF RemoveElement
  <2> QED BY <2>2, <2>3, RemoveFromQuiet
<1> QED BY <1>1, <1>2, <1>3, <1>4, <1>5, <1>6, <1>7, <1>8

-----------------------------------------------------------------------------
(* Making a list.                                                          *)

LEMMA SearchStays ==
  ASSUME UNCHANGED <<children, links>>, NEW p, NEW list, NEW items, SearchFor(p, list, items)
  PROVE  SearchFor(p, list, items)'
BY DEF SearchFor, Leading, ItemOK, Pending, Reaches, Near, Encloses, Owner, Children

\* What is looked at for a property.
LEMMA ItemsOf ==
  ASSUME CacheInv, NEW p \in Property
  PROVE  /\ Outgoing(p) \in Seq(Items) /\ Onward(p) \in Seq(Items) /\ Below(p) \in Seq(Items)
         /\ ToSet(Outgoing(p)) = {Item("look", p, q) : q \in {r \in Property : <<p, r>> \in links}}
         /\ ToSet(Onward(p)) = ToSet(Outgoing(p)) \cup
              {Item("climb", q, NoProperty) : q \in {Owner(p)} \cap Composite}
         /\ ToSet(Below(p)) = {Item("follow", q, NoProperty) : q \in ToSet(Children(p))}
         /\ \A q : q \in ToSet(Children(p)) <=> Contains(Children(p), q)
         /\ ToSet(Children(p)) \subseteq Property
<1>1. primary \in [Property -> Seq(Property)] /\ links \subseteq Link
  BY DEF CacheInv, Types, LinksTypeOK
<1>2. \A q, r \in Property : <<q, r>> \in links <=> r \in ToSet(primary[q])
  BY <1>1, PrimaryForm DEF CacheInv, CacheIsCurrent
<1>3. Children(p) \in Seq(Property)
  BY DEF Children, CacheInv, Types, LinksTypeOK
<1>4. ASSUME NEW s \in Seq(Property)
      PROVE  /\ Len(s) \in Nat /\ DOMAIN s = 1 .. Len(s) /\ ToSet(s) \subseteq Property
             /\ \A k \in DOMAIN s : s[k] \in Property
  BY LenProperties, ElementOfSeq DEF ToSet
<1>5. \A q \in Property : /\ Item("climb", q, NoProperty) \in Items /\ Item("follow", q, NoProperty) \in Items
                          /\ \A r \in Property : Item("look", q, r) \in Items
  BY DEF Item, Items
<1>6. Outgoing(p) \in Seq(Items)
  <2>1. PICK s \in Seq(Property) : s = primary[p]
    BY <1>1
  <2>2. Outgoing(p) = [k \in 1 .. Len(s) |-> Item("look", p, s[k])]
    BY <1>4, <2>1 DEF Outgoing
  <2>3. Outgoing(p) \in [1 .. Len(s) -> Items]
    BY <1>4, <1>5, <2>1, <2>2
  <2> QED BY <1>4, <2>3, SeqDef
<1>7. Below(p) \in Seq(Items)
  <2>1. PICK s \in Seq(Property) : s = Children(p)
    BY <1>3
  <2>2. Below(p) = [k \in 1 .. Len(s) |-> Item("follow", s[k], NoProperty)]
    BY <1>4, <2>1 DEF Below
  <2>3. Below(p) \in [1 .. Len(s) -> Items]
    BY <1>4, <1>5, <2>1, <2>2
  <2> QED BY <1>4, <2>3, SeqDef
<1>8. ToSet(Outgoing(p)) = {Item("look", p, q) : q \in {r \in Property : <<p, r>> \in links}}
  <2>1. ToSet(Outgoing(p)) = {Item("look", p, q) : q \in ToSet(primary[p])}
    BY DEF Outgoing, ToSet
  <2>2. ToSet(primary[p]) = {r \in Property : <<p, r>> \in links}
    BY <1>1, <1>2, <1>4
  <2> QED BY <2>1, <2>2
<1>9. ToSet(Below(p)) = {Item("follow", q, NoProperty) : q \in ToSet(Children(p))}
  BY DEF Below, ToSet
<1>10. /\ Onward(p) \in Seq(Items)
       /\ ToSet(Onward(p)) = ToSet(Outgoing(p)) \cup
            {Item("climb", q, NoProperty) : q \in {Owner(p)} \cap Composite}
  <2> DEFINE up == IF Owner(p) = NoProperty THEN <<>> ELSE <<Item("climb", Owner(p), NoProperty)>>
  <2>1. Onward(p) = Outgoing(p) \o up
    BY DEF Onward
  <2>2. CASE Owner(p) = NoProperty
    <3>1. up = <<>> /\ Owner(p) \notin Composite
      BY <2>2, LinksAssumption DEF Property
    <3>2. Outgoing(p) \o <<>> = Outgoing(p)
      BY <1>6, ConcatEmptySeq
    <3> QED BY <1>6, <2>1, <3>1, <3>2
  <2>3. CASE Owner(p) # NoProperty
    <3>1. PICK x \in Items : x = Item("climb", Owner(p), NoProperty) /\ Owner(p) \in Composite
      BY <2>3, <1>5, OwnerType DEF Property
    <3>2. up = <<x>>
      BY <2>3, <3>1
    <3>3. <<x>> \in Seq(Items) /\ ToSet(<<x>>) = {x}
      BY DEF ToSet
    <3> HIDE DEF up
    <3>4. PICK s \in Seq(Items), t \in Seq(Items) : s = Outgoing(p) /\ t = <<x>>
      BY <1>6, <3>3
    <3>5. s \o t \in Seq(Items) /\ ToSet(s \o t) = ToSet(s) \cup ToSet(t)
      BY ToSetConcat, ConcatProperties
    <3> QED BY <2>1, <3>1, <3>2, <3>3, <3>4, <3>5
  <2> QED BY <2>2, <2>3
<1>11. \A q : q \in ToSet(Children(p)) <=> Contains(Children(p), q)
  BY <1>3, <1>4 DEF ToSet, Contains
<1> QED BY <1>3, <1>4, <1>6, <1>7, <1>8, <1>9, <1>10, <1>11

\* A new search.
LEMMA SearchBegins ==
  ASSUME CacheInv, NEW p \in Property
  PROVE  SearchFor(p, <<>>, ToSet(Outgoing(p)))
<1>1. DOMAIN <<>> = {} /\ Len(<<>>) = 0
  OBVIOUS
<1>2. \A q : Reaches(p, <<>>, Len(<<>>), q) <=> q = p
  BY <1>1 DEF Reaches
<1>3. ToSet(Outgoing(p)) = {Item("look", p, q) : q \in {r \in Property : <<p, r>> \in links}}
  BY ItemsOf
<1>4. ASSUME NEW item \in ToSet(Outgoing(p)) PROVE ItemOK(p, <<>>, item)
  <2>1. PICK q \in Property : <<p, q>> \in links /\ item = Item("look", p, q)
    BY <1>3
  <2>2. item.op = "look" /\ item.prop = p /\ item.to = q
    BY <2>1 DEF Item
  <2> QED BY <1>2, <2>1, <2>2 DEF ItemOK
<1>5. ASSUME NEW link \in links, link[1] = p
      PROVE  \E item \in ToSet(Outgoing(p)) : Pending(link, item)
  <2>1. link = <<p, link[2]>> /\ link[2] \in Property
    BY <1>5, LinkEnds DEF CacheInv, Types
  <2>2. Item("look", p, link[2]) \in ToSet(Outgoing(p))
    BY <1>3, <1>5, <2>1
  <2>3. Pending(link, Item("look", p, link[2]))
    BY <2>1 DEF Pending, Item
  <2> QED BY <2>2, <2>3
<1> QED BY <1>1, <1>2, <1>4, <1>5 DEF SearchFor, Straight, Leading

\* Where a list leads with one more link.
LEMMA ReachesMore ==
  ASSUME NEW p, NEW list \in Seq(Link), NEW link \in Link
  PROVE  LET more == Append(list, link)
         IN /\ more \in Seq(Link) /\ Len(more) = Len(list) + 1 /\ Len(list) \in Nat
            /\ DOMAIN more = 1 .. Len(list) + 1 /\ DOMAIN list = 1 .. Len(list)
            /\ \A k \in 1 .. Len(list) : more[k] = list[k]
            /\ more[Len(list) + 1] = link
            /\ Ends(more) = Ends(list) \cup {link[1], link[2]}
            /\ \A q : \A k \in 0 .. Len(list) : Reaches(p, more, k, q) <=> Reaches(p, list, k, q)
            /\ \A q : Reaches(p, more, Len(list) + 1, q)
                        <=> Reaches(p, list, Len(list), q) \/ Near(q, link[2])
<1> DEFINE more == Append(list, link)
<1>1. /\ more \in Seq(Link) /\ Len(more) = Len(list) + 1 /\ more[Len(list) + 1] = link
      /\ \A k \in 1 .. Len(list) : more[k] = list[k]
  BY AppendProperties
<1>2. Len(list) \in Nat /\ DOMAIN list = 1 .. Len(list) /\ DOMAIN more = 1 .. Len(list) + 1
  BY <1>1, LenProperties
<1> HIDE DEF more
<1>3. Ends(more) = Ends(list) \cup {link[1], link[2]}
  <2>1. \A k \in DOMAIN more : k \in DOMAIN list \/ k = Len(list) + 1
    BY <1>2
  <2>2. \A k \in DOMAIN list : k \in DOMAIN more
    BY <1>2
  <2>3. Len(list) + 1 \in DOMAIN more
    BY <1>2
  <2> QED BY <1>1, <1>2, <2>1, <2>2, <2>3 DEF Ends
<1>4. ASSUME NEW q, NEW k \in 0 .. Len(list)
      PROVE  Reaches(p, more, k, q) <=> Reaches(p, list, k, q)
  BY <1>1, <1>2 DEF Reaches
<1>5. ASSUME NEW q
      PROVE  Reaches(p, more, Len(list) + 1, q)
               <=> Reaches(p, list, Len(list), q) \/ Near(q, link[2])
  <2>1. \A m \in 1 .. Len(list) + 1 : m \in 1 .. Len(list) \/ m = Len(list) + 1
    BY <1>2
  <2>2. Len(list) + 1 \in 1 .. Len(list) + 1 /\ \A m \in 1 .. Len(list) : m \in 1 .. Len(list) + 1
    BY <1>2
  <2> QED BY <1>1, <2>1, <2>2 DEF Reaches
<1> QED BY <1>1, <1>2, <1>3, <1>4, <1>5 DEF more

\* A link to what the list has already is left.
LEMMA SearchSkips ==
  ASSUME NEW p, NEW list, NEW items, NEW item, SearchFor(p, list, items \cup {item}),
         item.op = "look", item.to = item.prop \/ item.to \in Ends(list)
  PROVE  SearchFor(p, list, items)
<1>1. ASSUME NEW link \in links, link[1] # link[2], Pending(link, item) PROVE link[2] \in Ends(list)
  <2>1. <<item.prop, item.to>> = link
    BY <1>1 DEF Pending
  <2>2. link[1] = item.prop /\ link[2] = item.to
    BY <2>1
  <2> QED BY <1>1, <2>2
<1> QED BY <1>1 DEF SearchFor

\* Another link is added, and what its destination leads to is to be looked at.
LEMMA SearchAdds ==
  ASSUME CacheInv, NEW p, NEW list \in Seq(Link), NEW items, NEW item \in Items,
         SearchFor(p, list, items \cup {item}),
         item.op = "look", item.to # item.prop, item.to \notin Ends(list)
  PROVE  SearchFor(p, Append(list, <<item.prop, item.to>>),
                   (ToSet(Onward(item.to)) \cup ToSet(Below(item.to))) \cup items)
<1> DEFINE q == item.to
           link == <<item.prop, q>>
           more == Append(list, link)
           next == (ToSet(Onward(q)) \cup ToSet(Below(q))) \cup items
           n == Len(list)
<1>1. link \in links /\ Reaches(p, list, n, item.prop)
  BY DEF SearchFor, ItemOK
<1>2. link \in Link /\ link[1] = item.prop /\ link[2] = q /\ q \in Property
  <2>1. PICK l \in links : l = link
    BY <1>1
  <2>2. l[1] \in Property /\ l[2] \in Property
    BY LinkEnds DEF CacheInv, Types
  <2>3. l[1] = item.prop /\ l[2] = q
    BY <2>1
  <2> QED BY <2>2, <2>3 DEF Link
<1> HIDE DEF link, q
<1>3. /\ n \in Nat /\ Len(more) = n + 1 /\ DOMAIN more = 1 .. n + 1 /\ DOMAIN list = 1 .. n
      /\ more \in Seq(Link) /\ \A k \in 1 .. n : more[k] = list[k]
      /\ more[n + 1] = link /\ Ends(more) = Ends(list) \cup {item.prop, q}
      /\ \A x : \A k \in 0 .. n : Reaches(p, more, k, x) <=> Reaches(p, list, k, x)
      /\ \A x : Reaches(p, more, n + 1, x) <=> Reaches(p, list, n, x) \/ Near(x, q)
  <2>1. link \in Link
    BY <1>2
  <2> HIDE DEF more, n
  <2>2. /\ more \in Seq(Link) /\ Len(more) = n + 1 /\ n \in Nat
        /\ DOMAIN more = 1 .. n + 1 /\ DOMAIN list = 1 .. n
        /\ \A k \in 1 .. n : more[k] = list[k]
        /\ more[n + 1] = link
        /\ Ends(more) = Ends(list) \cup {link[1], link[2]}
        /\ \A x : \A k \in 0 .. n : Reaches(p, more, k, x) <=> Reaches(p, list, k, x)
        /\ \A x : Reaches(p, more, n + 1, x) <=> Reaches(p, list, n, x) \/ Near(x, link[2])
    BY <2>1, ReachesMore DEF more, n
  <2> QED BY <1>2, <2>2
<1> HIDE DEF more, n
<1>4. Straight(more)
  <2>1. ASSUME NEW k \in 1 .. n
        PROVE  /\ more[k][2] # more[k][1]
               /\ \A j \in 1 .. k - 1 : more[k][2] \notin {more[j][1], more[j][2]}
    <3>1. k \in DOMAIN list /\ \A j \in 1 .. k - 1 : j \in 1 .. n
      BY <1>3
    <3> QED BY <3>1, <1>3 DEF SearchFor, Straight
  <2>2. /\ more[n + 1][2] # more[n + 1][1]
        /\ \A j \in 1 .. (n + 1) - 1 : more[n + 1][2] \notin {more[j][1], more[j][2]}
    <3>1. item.to \notin Ends(list) /\ item.to # item.prop
      OBVIOUS
    <3>2. \A j \in 1 .. (n + 1) - 1 : j \in 1 .. n /\ j \in DOMAIN list
      BY <1>3
    <3>3. \A j \in DOMAIN list : q \notin {list[j][1], list[j][2]}
      BY <3>1 DEF q, Ends
    <3> QED BY <3>1, <3>2, <3>3, <1>2, <1>3 DEF q
  <2>3. \A k \in 1 .. n + 1 : k \in 1 .. n \/ k = n + 1
    BY <1>3
  <2> QED BY <1>3, <2>1, <2>2, <2>3 DEF Straight
<1>5. Leading(p, more)
  <2>1. ASSUME NEW k \in 1 .. n PROVE more[k] \in links /\ Reaches(p, more, k - 1, more[k][1])
    <3>1. k \in DOMAIN list /\ k - 1 \in 0 .. n
      BY <1>3
    <3> QED BY <3>1, <1>3 DEF SearchFor, Leading
  <2>2. n + 1 - 1 = n /\ n \in 0 .. n
    BY <1>3
  <2>3. more[n + 1] \in links /\ Reaches(p, more, n + 1 - 1, more[n + 1][1])
    BY <1>1, <1>2, <1>3, <2>2 DEF n
  <2>4. \A k \in 1 .. n + 1 : k \in 1 .. n \/ k = n + 1
    BY <1>3
  <2> QED BY <1>3, <2>1, <2>3, <2>4 DEF Leading
<1>6. /\ ToSet(Outgoing(q)) = {Item("look", q, r) : r \in {r \in Property : <<q, r>> \in links}}
      /\ ToSet(Onward(q)) = ToSet(Outgoing(q)) \cup
           {Item("climb", c, NoProperty) : c \in {Owner(q)} \cap Composite}
      /\ ToSet(Below(q)) = {Item("follow", c, NoProperty) : c \in ToSet(Children(q))}
      /\ \A c : c \in ToSet(Children(q)) <=> Contains(Children(q), c)
  BY <1>2, ItemsOf
<1>7. Near(q, q) /\ \A c : Contains(Children(q), c) => Near(c, q)
  BY DEF Near, Encloses
<1>8. ASSUME NEW x \in next PROVE ItemOK(p, more, x)
  <2>1. CASE x \in ToSet(Outgoing(q))
    <3>1. PICK r \in Property : <<q, r>> \in links /\ x = Item("look", q, r)
      BY <1>6, <2>1
    <3>2. x.op = "look" /\ x.prop = q /\ x.to = r
      BY <3>1 DEF Item
    <3> QED BY <1>3, <1>7, <3>1, <3>2 DEF ItemOK
  <2>2. CASE x \in ToSet(Below(q))
    <3>1. PICK c \in ToSet(Children(q)) : x = Item("follow", c, NoProperty)
      BY <1>6, <2>2
    <3>2. x.op = "follow" /\ x.prop = c
      BY <3>1 DEF Item
    <3> QED BY <1>3, <1>6, <1>7, <3>1, <3>2 DEF ItemOK
  <2>3. CASE x \in {Item("climb", c, NoProperty) : c \in {Owner(q)} \cap Composite}
    <3>1. PICK c \in {Owner(q)} \cap Composite : x = Item("climb", c, NoProperty)
      BY <2>3
    <3>2. x.op = "climb" /\ x.prop = Owner(q)
      BY <3>1 DEF Item
    <3>3. Owner(q) # NoProperty
      BY <3>1, LinksAssumption DEF Property
    <3>4. Encloses(Owner(q), q)
      BY <3>3, EnclosesOwner
    <3>5. n + 1 \in DOMAIN more /\ more[n + 1][2] = q
      BY <1>2, <1>3
    <3> QED BY <3>2, <3>4, <3>5 DEF ItemOK
  <2>4. CASE x \in items
    <3>1. ItemOK(p, list, x)
      BY <2>4 DEF SearchFor
    <3>2. \A m \in DOMAIN list : m \in DOMAIN more /\ more[m] = list[m]
      BY <1>3
    <3> QED BY <1>3, <3>1, <3>2 DEF ItemOK, n
  <2> QED BY <1>6, <2>1, <2>2, <2>3, <2>4
<1>9. ASSUME NEW l \in links, l[1] # l[2], Reaches(p, more, n + 1, l[1])
      PROVE  l[2] \in Ends(more) \/ \E x \in next : Pending(l, x)
  <2>0. l = <<l[1], l[2]>> /\ l[1] \in Property /\ l[2] \in Property
    BY LinkEnds DEF CacheInv, Types
  <2>1. CASE Reaches(p, list, n, l[1])
    <3>1. l[2] \in Ends(list) \/ \E x \in items \cup {item} : Pending(l, x)
      BY <1>9, <2>1 DEF SearchFor, n
    <3>2. ASSUME Pending(l, item) PROVE l[2] = q
      BY <3>2, <2>0 DEF Pending, q
    <3> QED BY <1>3, <3>1, <3>2
  <2>2. CASE l[1] = q
    <3>1. Item("look", q, l[2]) \in next
      BY <1>6, <2>0, <2>2
    <3>2. Pending(l, Item("look", q, l[2]))
      BY <2>0, <2>2 DEF Pending, Item
    <3> QED BY <3>1, <3>2
  <2>3. CASE l[1] # q /\ Encloses(l[1], q)
    <3>1. Owner(q) # NoProperty /\ Encloses(l[1], Owner(q))
      BY <2>3, EnclosesDown
    <3>2. Item("climb", Owner(q), NoProperty) \in next
      BY <1>6, <3>1, OwnerType
    <3>3. Pending(l, Item("climb", Owner(q), NoProperty))
      BY <3>1 DEF Pending, Item
    <3> QED BY <3>2, <3>3
  <2>4. CASE Contains(Children(q), l[1])
    <3>1. Item("follow", l[1], NoProperty) \in next
      BY <1>6, <2>4
    <3>2. Pending(l, Item("follow", l[1], NoProperty))
      BY DEF Pending, Item
    <3> QED BY <3>1, <3>2
  <2> QED BY <1>3, <1>9, <2>1, <2>2, <2>3, <2>4 DEF Near
<1>10. SearchFor(p, more, next)
  BY <1>3, <1>4, <1>5, <1>8, <1>9 DEF SearchFor
<1> QED BY <1>10 DEF more, link, q

\* The links of a composite, and then those of what it is in.
LEMMA SearchClimbs ==
  ASSUME CacheInv, NEW p, NEW list \in Seq(Link), NEW items, NEW item \in Items,
         SearchFor(p, list, items \cup {item}), item.op = "climb"
  PROVE  SearchFor(p, list, ToSet(Onward(item.prop)) \cup items)
<1>1. PICK q \in Property : q = item.prop
  BY DEF Items
<1>2. PICK m \in DOMAIN list : Encloses(q, list[m][2])
  BY <1>1 DEF SearchFor, ItemOK
<1>3. /\ ToSet(Outgoing(q)) = {Item("look", q, r) : r \in {r \in Property : <<q, r>> \in links}}
      /\ ToSet(Onward(q)) = ToSet(Outgoing(q)) \cup
           {Item("climb", c, NoProperty) : c \in {Owner(q)} \cap Composite}
  BY ItemsOf
<1>4. Reaches(p, list, Len(list), q)
  BY <1>2, LenProperties DEF Reaches, Near
<1>5. ASSUME NEW x \in ToSet(Onward(q)) PROVE ItemOK(p, list, x)
  <2>1. CASE x \in ToSet(Outgoing(q))
    <3>1. PICK r \in Property : <<q, r>> \in links /\ x = Item("look", q, r)
      BY <1>3, <2>1
    <3>2. x.op = "look" /\ x.prop = q /\ x.to = r
      BY <3>1 DEF Item
    <3> QED BY <1>4, <3>1, <3>2 DEF ItemOK
  <2>2. CASE x \in {Item("climb", c, NoProperty) : c \in {Owner(q)} \cap Composite}
    <3>1. PICK c \in {Owner(q)} \cap Composite : x = Item("climb", c, NoProperty)
      BY <2>2
    <3>2. x.op = "climb" /\ x.prop = Owner(q) /\ Owner(q) # NoProperty
      BY <3>1, LinksAssumption DEF Item, Property
    <3>3. Encloses(Owner(q), list[m][2])
      BY <1>2, <3>2, EnclosesUp
    <3> QED BY <3>2, <3>3 DEF ItemOK
  <2> QED BY <1>3, <2>1, <2>2
<1>6. ASSUME NEW l \in links, Pending(l, item)
      PROVE  \E x \in ToSet(Onward(q)) : Pending(l, x)
  <2>0. l = <<l[1], l[2]>> /\ l[1] \in Property /\ l[2] \in Property
    BY LinkEnds DEF CacheInv, Types
  <2>1. Encloses(l[1], q)
    BY <1>1, <1>6 DEF Pending
  <2>2. CASE l[1] = q
    <3>1. Item("look", q, l[2]) \in ToSet(Onward(q))
      BY <1>3, <2>0, <2>2
    <3>2. Pending(l, Item("look", q, l[2]))
      BY <2>0, <2>2 DEF Pending, Item
    <3> QED BY <3>1, <3>2
  <2>3. CASE l[1] # q
    <3>1. Owner(q) # NoProperty /\ Encloses(l[1], Owner(q))
      BY <2>1, <2>3, EnclosesDown
    <3>2. Item("climb", Owner(q), NoProperty) \in ToSet(Onward(q))
      BY <1>3, <3>1, OwnerType
    <3>3. Pending(l, Item("climb", Owner(q), NoProperty))
      BY <3>1 DEF Pending, Item
    <3> QED BY <3>2, <3>3
  <2> QED BY <2>2, <2>3
<1> QED BY <1>1, <1>5, <1>6 DEF SearchFor

\* The links of an element.
LEMMA SearchFollows ==
  ASSUME CacheInv, NEW p, NEW list \in Seq(Link), NEW items, NEW item \in Items,
         SearchFor(p, list, items \cup {item}), item.op = "follow"
  PROVE  SearchFor(p, list, ToSet(Outgoing(item.prop)) \cup items)
<1>1. PICK q \in Property : q = item.prop
  BY DEF Items
<1>2. ToSet(Outgoing(q)) = {Item("look", q, r) : r \in {r \in Property : <<q, r>> \in links}}
  BY ItemsOf
<1>3. Reaches(p, list, Len(list), q)
  BY <1>1 DEF SearchFor, ItemOK
<1>4. ASSUME NEW x \in ToSet(Outgoing(q)) PROVE ItemOK(p, list, x)
  <2>1. PICK r \in Property : <<q, r>> \in links /\ x = Item("look", q, r)
    BY <1>2, <1>4
  <2>2. x.op = "look" /\ x.prop = q /\ x.to = r
    BY <2>1 DEF Item
  <2> QED BY <1>3, <2>1, <2>2 DEF ItemOK
<1>5. ASSUME NEW l \in links, Pending(l, item)
      PROVE  \E x \in ToSet(Outgoing(q)) : Pending(l, x)
  <2>1. l = <<l[1], l[2]>> /\ l[2] \in Property /\ l[1] = q
    BY <1>1, <1>5, LinkEnds DEF CacheInv, Types, Pending
  <2>2. Item("look", q, l[2]) \in ToSet(Outgoing(q))
    BY <1>2, <2>1
  <2>3. Pending(l, Item("look", q, l[2]))
    BY <2>1 DEF Pending, Item
  <2> QED BY <2>2, <2>3
<1> QED BY <1>1, <1>4, <1>5 DEF SearchFor

\* A search with nothing left to look at has made a list that is current.
LEMMA SearchEnds ==
  ASSUME NEW p, NEW list, SearchFor(p, list, {})
  PROVE  ListIsCurrent(p, list)
BY DEF SearchFor, ListIsCurrent, Straight, Leading

-----------------------------------------------------------------------------
(* The steps that make a list.                                             *)

\* The rest of what is looked at.
LEMMA RestOfTodo ==
  ASSUME CacheInv, todo # <<>>
  PROVE  /\ Head(todo) \in Items /\ Tail(todo) \in Seq(Items)
         /\ ToSet(todo) = ToSet(Tail(todo)) \cup {Head(todo)}
<1>1. todo \in Seq(Items)
  BY DEF CacheInv, Types
<1> QED BY <1>1, ToSetTail, HeadTailProperties

LEMMA SearchStep ==
  ASSUME CacheInv, InCall("collect"), UNCHANGED <<children, value, networkVars, visited, stack>>,
         NEW list \in Seq(Link), NEW items \in Seq(Items), found' = list, todo' = items,
         SearchFor(Top.prop, list, ToSet(items))
  PROVE  CacheInv'
<1>1. CacheIsCurrent' /\ LinksOK'
  BY CacheQuiet
<1>2. Types'
  BY DEF Types, CacheInv, LinksTypeOK, networkVars, StackOK, Looping
<1>3. SearchFor(Top.prop, found, ToSet(todo))'
  <2>1. PICK p, s : p = Top.prop /\ s = ToSet(items) /\ SearchFor(p, list, s)
    OBVIOUS
  <2>2. SearchFor(p, list, s)'
    BY <2>1, SearchStays DEF networkVars
  <2>3. Top' = Top /\ ToSet(todo)' = s
    BY <2>1 DEF Top
  <2> QED BY <2>1, <2>2, <2>3
<1> QED BY <1>1, <1>2, <1>3 DEF CacheInv

LEMMA SearchSteps ==
  ASSUME CacheInv, LookAtLink \/ FollowLinks
  PROVE  CacheInv'
<1> DEFINE p == Top.prop
           item == Head(todo)
           rest == Tail(todo)
<1>1. /\ InCall("collect") /\ todo # <<>>
      /\ UNCHANGED <<children, value, networkVars, visited, stack>>
  BY DEF LookAtLink, FollowLinks
<1>2. /\ item \in Items /\ rest \in Seq(Items) /\ ToSet(todo) = ToSet(rest) \cup {item}
      /\ found \in Seq(Link) /\ SearchFor(p, found, ToSet(todo)) /\ p \in Property
  BY <1>1, RestOfTodo, TopOf DEF CacheInv, Types, InCall
<1>3. PICK i \in Items, r \in Seq(Items), f \in Seq(Link), c \in Property :
        i = item /\ r = rest /\ f = found /\ c = p /\ SearchFor(c, f, ToSet(r) \cup {i})
  BY <1>2
<1>4. CASE LookAtLink /\ (i.to = i.prop \/ i.to \in Ends(f))
  <2>1. i.op = "look" /\ found' = f /\ todo' = r
    BY <1>3, <1>4 DEF LookAtLink
  <2>2. SearchFor(c, f, ToSet(r))
    BY <1>3, <1>4, <2>1, SearchSkips
  <2> QED BY <1>1, <1>3, <2>1, <2>2, SearchStep
<1>5. CASE LookAtLink /\ i.to # i.prop /\ i.to \notin Ends(f)
  <2>1. /\ i.op = "look" /\ found' = Append(f, <<i.prop, i.to>>)
        /\ todo' = Onward(i.to) \o Below(i.to) \o r
    BY <1>3, <1>5 DEF LookAtLink
  <2>2. <<i.prop, i.to>> \in links /\ i.prop \in Property /\ i.to \in Property
    <3>1. <<i.prop, i.to>> \in links
      BY <1>3, <2>1 DEF SearchFor, ItemOK
    <3>2. PICK l \in links : l = <<i.prop, i.to>>
      BY <3>1
    <3>3. l[1] \in Property /\ l[2] \in Property
      BY LinkEnds DEF CacheInv, Types
    <3> QED BY <3>1, <3>2, <3>3
  <2>3. PICK o \in Seq(Items), b \in Seq(Items) : o = Onward(i.to) /\ b = Below(i.to)
    BY <2>2, ItemsOf
  <2>4. /\ o \o b \in Seq(Items) /\ ToSet(o \o b) = ToSet(o) \cup ToSet(b)
    BY ToSetConcat, ConcatProperties
  <2>5. PICK a \in Seq(Items) : a = o \o b /\ ToSet(a) = ToSet(o) \cup ToSet(b)
    BY <2>4
  <2>6. a \o r \in Seq(Items) /\ ToSet(a \o r) = ToSet(a) \cup ToSet(r)
    BY ToSetConcat, ConcatProperties
  <2>7. PICK t \in Seq(Items) : t = a \o r /\ ToSet(t) = (ToSet(o) \cup ToSet(b)) \cup ToSet(r)
    BY <2>5, <2>6
  <2>8. SearchFor(c, Append(f, <<i.prop, i.to>>), ToSet(t))
    <3>1. PICK s : s = ToSet(r) /\ SearchFor(c, f, s \cup {i})
      BY <1>3
    <3>2. SearchFor(c, Append(f, <<i.prop, i.to>>), (ToSet(Onward(i.to)) \cup ToSet(Below(i.to))) \cup s)
      BY <1>5, <2>1, <3>1, SearchAdds
    <3>3. ToSet(t) = (ToSet(Onward(i.to)) \cup ToSet(Below(i.to))) \cup s
      BY <2>3, <2>7, <3>1
    <3> QED BY <3>2, <3>3
  <2>9. PICK g \in Seq(Link) : g = Append(f, <<i.prop, i.to>>)
    BY <2>2, AppendProperties DEF Link
  <2>10. found' = g /\ todo' = t /\ SearchFor(Top.prop, g, ToSet(t))
    BY <1>3, <2>1, <2>3, <2>5, <2>7, <2>8, <2>9
  <2> QED BY <1>1, <2>10, SearchStep
<1>6. CASE FollowLinks /\ i.op = "climb"
  <2>1. found' = f /\ todo' = Onward(i.prop) \o r
    BY <1>3, <1>6 DEF FollowLinks
  <2>2. PICK o \in Seq(Items) : o = Onward(i.prop)
    BY ItemsOf DEF Items
  <2>3. o \o r \in Seq(Items) /\ ToSet(o \o r) = ToSet(o) \cup ToSet(r)
    BY ToSetConcat, ConcatProperties
  <2>4. PICK t \in Seq(Items) : t = o \o r /\ ToSet(t) = ToSet(o) \cup ToSet(r)
    BY <2>3
  <2>5. SearchFor(c, f, ToSet(t))
    <3>1. PICK s : s = ToSet(r) /\ SearchFor(c, f, s \cup {i})
      BY <1>3
    <3>2. SearchFor(c, f, ToSet(Onward(i.prop)) \cup s)
      BY <1>6, <3>1, SearchClimbs
    <3>3. ToSet(t) = ToSet(Onward(i.prop)) \cup s
      BY <2>2, <2>4, <3>1
    <3> QED BY <3>2, <3>3
  <2>6. found' = f /\ todo' = t /\ SearchFor(Top.prop, f, ToSet(t))
    BY <1>3, <2>1, <2>2, <2>4, <2>5
  <2> QED BY <1>1, <2>6, SearchStep
<1>7. CASE FollowLinks /\ i.op = "follow"
  <2>1. found' = f /\ todo' = Outgoing(i.prop) \o r
    BY <1>3, <1>7 DEF FollowLinks
  <2>2. PICK o \in Seq(Items) : o = Outgoing(i.prop)
    BY ItemsOf DEF Items
  <2>3. o \o r \in Seq(Items) /\ ToSet(o \o r) = ToSet(o) \cup ToSet(r)
    BY ToSetConcat, ConcatProperties
  <2>4. PICK t \in Seq(Items) : t = o \o r /\ ToSet(t) = ToSet(o) \cup ToSet(r)
    BY <2>3
  <2>5. SearchFor(c, f, ToSet(t))
    <3>1. PICK s : s = ToSet(r) /\ SearchFor(c, f, s \cup {i})
      BY <1>3
    <3>2. SearchFor(c, f, ToSet(Outgoing(i.prop)) \cup s)
      BY <1>7, <3>1, SearchFollows
    <3>3. ToSet(t) = ToSet(Outgoing(i.prop)) \cup s
      BY <2>2, <2>4, <3>1
    <3> QED BY <3>2, <3>3
  <2>6. found' = f /\ todo' = t /\ SearchFor(Top.prop, f, ToSet(t))
    BY <1>3, <2>1, <2>2, <2>4, <2>5
  <2> QED BY <1>1, <2>6, SearchStep
<1>8. FollowLinks => i.op \in {"climb", "follow"}
  BY <1>3 DEF FollowLinks
<1> QED BY <1>4, <1>5, <1>6, <1>7, <1>8

\* A property without a list in the cache gets one.
LEMMA EvaluateNew ==
  ASSUME CacheInv, EvaluateLinks, Top.prop \notin visited \cup DOMAIN secondary
  PROVE  CacheInv'
<1> DEFINE below == <<[Top EXCEPT !.at = "owner"]>> \o Rest
<1>1. /\ below \in Seq(Waiting) /\ Looping(below) = Looping(stack) /\ Top.prop \in Property
  BY AtOwner, TopOf DEF EvaluateLinks, InCall
<1>2. /\ stack' = <<Call("collect", Top.prop)>> \o below
      /\ found' = <<>> /\ todo' = Outgoing(Top.prop)
      /\ UNCHANGED <<visited, children, value, networkVars>>
  BY DEF EvaluateLinks, Triggered
<1> HIDE DEF below
<1>3. PICK p \in Property, b \in Seq(Waiting), items \in Seq(Items) :
        p = Top.prop /\ b = below /\ items = Outgoing(p) /\ SearchFor(p, <<>>, ToSet(items))
  BY <1>1, ItemsOf, SearchBegins
<1>4. PICK f \in Calls : f = Call("collect", p) /\ f.at = "collect" /\ f.prop = p
  BY CallTypes DEF Call
<1>5. stack' = <<f>> \o b
  BY <1>2, <1>3, <1>4
<1>6. StackOK(stack') /\ stack'[1] = f /\ Looping(stack') = Looping(b)
  <2>1. StackOK(<<f>> \o b) /\ (<<f>> \o b)[1] = f
    BY Push
  <2>2. Looping(<<f>> \o b) = Looping(b)
    BY <1>4, LoopingWith
  <2> QED BY <1>5, <2>1, <2>2
<1>7. CacheIsCurrent' /\ LinksOK'
  BY <1>2, CacheQuiet
<1>8. Types'
  <2>1. /\ found' \in Seq(Link) /\ todo' \in Seq(Items)
    BY <1>2, <1>3
  <2>2. visited' \subseteq Looping(stack')
    BY <1>1, <1>2, <1>3, <1>6 DEF CacheInv, Types, LinksTypeOK
  <2> QED BY <1>2, <1>6, <2>1, <2>2 DEF Types, CacheInv, LinksTypeOK, networkVars, StackOK, Looping
<1>9. SearchFor(Top.prop, found, ToSet(todo))'
  <2>1. PICK s : s = ToSet(items)
    OBVIOUS
  <2>2. SearchFor(p, <<>>, s)'
    BY <1>2, <1>3, <2>1, SearchStays DEF networkVars
  <2>3. Top'.prop = p /\ ToSet(todo)' = s
    BY <1>2, <1>3, <1>4, <1>6, <2>1 DEF Top
  <2> QED BY <1>2, <2>2, <2>3
<1> QED BY <1>7, <1>8, <1>9 DEF CacheInv

\* The list is complete.
LEMMA CollectedStep ==
  ASSUME CacheInv, Collected
  PROVE  CacheInv'
<1>1. /\ Top.prop \in Property /\ Rest \in Seq(Waiting) /\ Looping(stack) = Looping(Rest)
      /\ found \in Seq(Link) /\ ToSet(todo) = {}
      /\ SearchFor(Top.prop, found, ToSet(todo))
  BY TopOf DEF Collected, InCall, CacheInv, Types, ToSet
<1>2. PICK p \in Property, r \in Seq(Waiting), list \in Seq(Link) :
        p = Top.prop /\ r = Rest /\ list = found /\ SearchFor(p, list, {})
  BY <1>1
<1>3. ListIsCurrent(p, list) /\ StartLoop(p, list, r)
  BY <1>2, SearchEnds DEF Collected
<1>4. /\ StackOK(stack') /\ Looping(stack') = Ends(list) \cup Looping(r) /\ stack'[1].at # "collect"
  BY <1>3, LoopStarts
<1>5. /\ secondary' = [q \in DOMAIN secondary \cup {p} |-> IF q = p THEN list ELSE secondary[q]]
      /\ found' = <<>> /\ visited' = visited \cup Ends(list)
      /\ UNCHANGED <<children, value, links, primary, todo>>
  BY <1>2, <1>3 DEF Collected, StartLoop
<1>6. SameOwners(Property) /\ Composite \subseteq Property
  BY <1>5, SameChildren DEF Property
<1>7. \A link \in links : link[1] \in Property /\ link[2] \in Property
  BY LinkEnds DEF CacheInv, Types
<1>8. ASSUME NEW q \in DOMAIN secondary' PROVE secondary'[q] \in Seq(Link) /\ ListIsCurrent(q, secondary[q])'
  <2>1. PICK l \in Seq(Link) : l = secondary'[q] /\ ListIsCurrent(q, l)
    <3>1. CASE q = p
      BY <1>2, <1>3, <1>5, <3>1
    <3>2. CASE q # p
      BY <1>5, <1>8, <3>2 DEF CacheInv, Types, CacheIsCurrent
    <3> QED BY <3>1, <3>2
  <2>2. ListIsCurrent(q, l)'
    BY <1>5, <1>6, <1>7, <2>1, ListStays
  <2> QED BY <2>1, <2>2
<1>9. CacheIsCurrent'
  <2>1. (links = UNION {{<<x, y>> : y \in ToSet(primary[x])} : x \in Property})'
    BY <1>5 DEF CacheIsCurrent, CacheInv
  <2>2. \A q \in DOMAIN secondary' : ListIsCurrent(q, secondary[q])'
    BY <1>8
  <2> QED BY <2>1, <2>2 DEF CacheIsCurrent
<1>10. LinksOK'
  BY <1>5, <1>6, <1>7, PresentStays DEF LinksOK, CacheInv
<1>11. Types'
  <2>1. visited' \subseteq Looping(stack')
    BY <1>1, <1>2, <1>4, <1>5 DEF CacheInv, Types, LinksTypeOK
  <2>2. DOMAIN secondary' \subseteq Property /\ found' \in Seq(Link)
    BY <1>5 DEF CacheInv, Types, LinksTypeOK
  <2>3. LinksTypeOK'
    BY <1>5, <2>1, <2>2 DEF LinksTypeOK, Types, CacheInv
  <2> QED BY <1>4, <1>5, <1>8, <2>2, <2>3 DEF Types, CacheInv
<1>12. ~ InCall("collect")'
  BY <1>4 DEF InCall, Top
<1> QED BY <1>9, <1>10, <1>11, <1>12 DEF CacheInv

-----------------------------------------------------------------------------
(* Elements that come and go.                                              *)

\* An element that is not linked is added to a list, or removed from it.
LEMMA ElementChange ==
  ASSUME CacheInv, UNCHANGED <<networkVars, searchVars>>,
         NEW e \in Leaf, \A link \in links : link[1] # e /\ link[2] # e,
         NEW list \in List, NEW new \in Seq(Property), children' = [children EXCEPT ![list] = new],
         ToSet(new) \subseteq ToSet(Elements[list]),
         \A x : x # e => (Contains(new, x) <=> Contains(children[list], x)),
         StackOK(stack'), stack' # <<>> => stack'[1].at # "collect",
         value' \in [Leaf -> Value], visited' \subseteq Looping(stack')
  PROVE  CacheInv'
<1> DEFINE X == Property \ {e}
<1>0. LinksTypeOK /\ Types /\ LinksOK
  BY DEF CacheInv, Types
<1>1. list \in Composite /\ Composite \subseteq X /\ X \subseteq Property
  BY LinksAssumption DEF Property
<1>2. /\ children' \in [Composite -> Seq(Property)] /\ children'[list] = new
      /\ \A c \in Composite : c # list => children'[c] = children[c]
  BY <1>0, <1>1 DEF LinksTypeOK
<1>3. \A x \in X : \A c \in Composite : Contains(children'[c], x) <=> Contains(children[c], x)
  BY <1>1, <1>2
<1>4. ASSUME NEW x \in X PROVE Owner(x)' = Owner(x)
  <2>1. PICK o : o = {c \in Composite : Contains(children[c], x)}
    OBVIOUS
  <2>2. {c \in Composite : Contains(children'[c], x)} = o
    BY <1>3, <2>1
  <2>3. Owner(x) = IF o = {} THEN NoProperty ELSE CHOOSE c \in o : TRUE
    BY <2>1 DEF Owner
  <2>4. Owner(x)' = IF o = {} THEN NoProperty ELSE CHOOSE c \in o : TRUE
    <3>1. PICK n : n = {c \in Composite : Contains(children'[c], x)}
      OBVIOUS
    <3>2. Owner(x)' = IF n = {} THEN NoProperty ELSE CHOOSE c \in n : TRUE
      BY <3>1 DEF Owner
    <3> QED BY <2>2, <3>1, <3>2
  <2> QED BY <2>3, <2>4
<1>5. SameOwners(X)
  BY <1>3, <1>4 DEF SameOwners
<1>6. \A link \in links : link[1] \in X /\ link[2] \in X
  BY <1>0, LinkEnds
<1> HIDE DEF X
<1>7. ASSUME NEW p \in DOMAIN secondary PROVE ListIsCurrent(p, secondary[p])'
  <2>1. secondary[p] \in Seq(Link) /\ ListIsCurrent(p, secondary[p]) /\ UNCHANGED <<links, secondary>>
    BY DEF CacheInv, Types, CacheIsCurrent, networkVars
  <2>2. PICK l \in Seq(Link) : l = secondary[p]
    BY <2>1
  <2>3. ListIsCurrent(p, l)'
    BY <1>1, <1>5, <1>6, <2>1, <2>2, ListStays
  <2> QED BY <2>1, <2>2, <2>3
<1>8. CacheIsCurrent'
  BY <1>7 DEF CacheIsCurrent, CacheInv, networkVars
<1>9. LinksOK'
  <2>1. \A x \in X : x \in Present' <=> x \in Present
    BY <1>1, <1>5, PresentStays
  <2>2. \A link \in links : {link[1], link[2]} \subseteq Present'
    BY <1>0, <1>6, <2>1 DEF LinksOK
  <2> QED BY <1>0, <2>2 DEF LinksOK, networkVars
<1>10. Types'
  <2>1. \A c \in Composite : ToSet(children'[c]) \subseteq ToSet(Elements[c])
    BY <1>0, <1>2 DEF LinksTypeOK
  <2>2. LinksTypeOK'
    BY <1>0, <1>2, <2>1 DEF LinksTypeOK, networkVars
  <2>3. \A c \in Composite \ List : children'[c] = Elements[c]
    BY <1>0, <1>2 DEF Types
  <2> QED BY <1>0, <2>2, <2>3 DEF Types, networkVars, searchVars
<1>11. ~ InCall("collect")'
  BY DEF InCall, Top
<1> QED BY <1>8, <1>9, <1>10, <1>11 DEF CacheInv

\* A property that only lists have, and that is in none, is not linked.
LEMMA AbsentIsNotLinked ==
  ASSUME CacheInv, NEW list \in List, NEW k \in DOMAIN Elements[list],
         ~ Contains(children[list], Elements[list][k])
  PROVE  \A link \in links : link[1] # Elements[list][k] /\ link[2] # Elements[list][k]
<1> DEFINE e == Elements[list][k]
<1>0. LinksTypeOK /\ LinksOK /\ list \in Composite
  BY LinksAssumption DEF CacheInv, Types
<1>1. Elements[list] \in Seq(Property)
  BY <1>0, LinksAssumption
<1>2. Contains(Elements[list], e)
  BY <1>1, LenProperties DEF Contains
<1>3. Owner(e) = NoProperty
  <2>1. SUFFICES ASSUME NEW c \in Composite, Contains(children[c], e) PROVE FALSE
    BY OwnerType
  <2>2. children[c] \in Seq(Property) /\ ToSet(children[c]) \subseteq ToSet(Elements[c])
    BY <1>0 DEF LinksTypeOK
  <2>3. e \in ToSet(children[c])
    BY <2>1, <2>2, LenProperties DEF Contains, ToSet
  <2>4. PICK j \in DOMAIN Elements[c] : Elements[c][j] = e
    BY <2>2, <2>3 DEF ToSet
  <2>5. c = list
    BY <1>0, <2>4, LinksAssumption
  <2> QED BY <2>1, <2>5
<1>4. e \notin Present
  BY <1>0, <1>2, <1>3 DEF Present
<1>5. \A link \in links : link[1] # e /\ link[2] # e
  BY <1>0, <1>4, LinkEnds
<1> QED BY <1>5

LEMMA InsertStep ==
  ASSUME CacheInv, NEW list \in List, NEW v \in Value, NEW below \in Seq(Waiting),
         Looping(below) = Looping(stack), Insert(list, v, below)
  PROVE  CacheInv'
<1>0. LinksTypeOK /\ list \in Composite /\ children[list] \in Seq(Property)
      /\ Elements[list] \in Seq(Property) /\ list \in Property
  BY LinksAssumption DEF CacheInv, Types, LinksTypeOK, Property
<1>1. PICK k \in DOMAIN Elements[list] :
        /\ ~ Contains(children[list], Elements[list][k])
        /\ children' = [children EXCEPT ![list] = Append(@, Elements[list][k])]
        /\ value' = [value EXCEPT ![Elements[list][k]] = v]
  BY DEF Insert
<1>2. PICK e \in Leaf : e = Elements[list][k] /\ e \in ToSet(Elements[list])
  BY <1>0, ListElements DEF ToSet
<1>3. \A link \in links : link[1] # e /\ link[2] # e
  BY <1>1, <1>2, AbsentIsNotLinked
<1> DEFINE new == Append(children[list], e)
<1>4. /\ new \in Seq(Property) /\ ToSet(new) = ToSet(children[list]) \cup {e}
      /\ children' = [children EXCEPT ![list] = new]
  BY <1>0, <1>1, <1>2, AppendProperties, ToSetAppend DEF Property
<1> HIDE DEF new
<1>5. \A x : x # e => (Contains(new, x) <=> Contains(children[list], x))
  <2>1. \A s \in Seq(Property) : \A x : Contains(s, x) <=> x \in ToSet(s)
    BY LenProperties DEF Contains, ToSet
  <2> QED BY <1>0, <1>4, <2>1
<1>6. ToSet(new) \subseteq ToSet(Elements[list])
  BY <1>0, <1>2, <1>4 DEF LinksTypeOK
<1>7. value' \in [Leaf -> Value]
  BY <1>0, <1>1, <1>2 DEF LinksTypeOK
<1>8. PICK f \in Waiting : f = Modified(list) /\ f.at # "convert"
  BY <1>0, CallTypes
<1>9. stack' = <<f>> \o below /\ UNCHANGED <<networkVars, searchVars, visited>>
  BY <1>8 DEF Insert
<1>10. /\ StackOK(stack') /\ Looping(stack') = Looping(below)
       /\ stack' # <<>> => stack'[1].at # "collect"
  BY <1>8, <1>9, PushQuiet
<1>11. visited' \subseteq Looping(stack')
  BY <1>0, <1>9, <1>10 DEF LinksTypeOK
<1> QED BY <1>3, <1>4, <1>5, <1>6, <1>7, <1>9, <1>10, <1>11, ElementChange

\* What the call on top holds when a list is set from another one.
LEMMA SettingLists ==
  ASSUME CacheInv, InCall("set"), Top.prop \in List
  PROVE  Top.from \in List /\ Top.list \in Seq(Leaf)
<1>1. Top \in Calls /\ Top.at = "set"
  BY TopOf DEF InCall
<1> QED BY <1>1 DEF Calls

LEMMA InsertSteps ==
  ASSUME CacheInv, AddElement \/ CloneMissing
  PROVE  CacheInv'
<1>0. LinksTypeOK
  BY DEF CacheInv, Types
<1>1. CASE AddElement
  <2>1. PICK list \in List : Insert(list, 0, <<>>)
    BY <1>1 DEF AddElement
  <2>2. 0 \in Value /\ <<>> \in Seq(Waiting) /\ stack = <<>>
    BY <1>1, LinksAssumption DEF AddElement
  <2> QED BY <2>1, <2>2, InsertStep
<1>2. CASE CloneMissing
  <2>1. InCall("set") /\ Top.prop \in List /\ Len(children[Top.prop]) < Len(children[Top.from])
    <3>1. InCall("set") /\ Top.prop \in List /\ ~ (Len(children[Top.prop]) >= Len(children[Top.from]))
      BY <1>2 DEF CloneMissing, Filled
    <3>2. Top.from \in List
      BY <3>1, SettingLists
    <3>3. children[Top.prop] \in Seq(Leaf) /\ children[Top.from] \in Seq(Leaf)
      BY <1>0, <3>1, <3>2, ListElements
    <3> QED BY <3>1, <3>3, LenProperties
  <2>2. PICK list \in List, from \in List : list = Top.prop /\ from = Top.from
    BY <2>1, SettingLists
  <2>3. children[list] \in Seq(Leaf) /\ children[from] \in Seq(Leaf)
    BY <1>0, ListElements
  <2>4. Len(children[list]) + 1 \in 1 .. Len(children[from])
    BY <2>1, <2>2, <2>3, LenProperties
  <2>5. children[from][Len(children[list]) + 1] \in Leaf
    BY <2>3, <2>4, ElementOfSeq
  <2>6. PICK v \in Value : v = value[children[from][Len(children[list]) + 1]]
    BY <1>0, <2>5 DEF LinksTypeOK
  <2>7. Insert(list, v, stack)
    BY <1>2, <2>2, <2>6 DEF CloneMissing
  <2>8. PICK b \in Seq(Waiting) : b = stack
    BY <2>1, StackWaits DEF InCall
  <2>9. Insert(list, v, b)
    BY <2>7, <2>8
  <2> QED BY <2>8, <2>9, InsertStep
<1> QED BY <1>1, <1>2

LEMMA ElementRemovedStep ==
  ASSUME CacheInv, ElementRemoved
  PROVE  CacheInv'
<1>0. LinksTypeOK /\ InCall("remove")
  BY DEF CacheInv, Types, ElementRemoved
<1>1. /\ Top.prop \in List /\ Top.from \in Leaf /\ Rest \in Seq(Waiting)
      /\ Looping(stack) = Looping(Rest) /\ Top.prop \in Property
  <2>1. Top \in Calls /\ Top.at = "remove"
    BY <1>0, TopOf DEF InCall
  <2>2. Top.prop \in List /\ Top.from \in Leaf
    BY <2>1 DEF Calls
  <2> QED BY <1>0, <2>1, <2>2, TopOf DEF InCall
<1>2. PICK list \in List, e \in Leaf, r \in Seq(Waiting) : list = Top.prop /\ e = Top.from /\ r = Rest
  BY <1>1
<1>3. \A link \in links : link[1] # e /\ link[2] # e
  BY <1>2 DEF ElementRemoved, Involving
<1>4. PICK f \in Waiting : f = Modified(Top.prop) /\ f.at # "convert"
  BY <1>1, CallTypes
<1>5. stack' = <<f>> \o r /\ UNCHANGED <<networkVars, searchVars, visited, value>>
  BY <1>2, <1>4 DEF ElementRemoved
<1>6. /\ StackOK(stack') /\ Looping(stack') = Looping(r)
      /\ stack' # <<>> => stack'[1].at # "collect"
  BY <1>4, <1>5, PushQuiet
<1>7. visited' \subseteq Looping(stack') /\ value' \in [Leaf -> Value]
  BY <1>0, <1>1, <1>2, <1>5, <1>6 DEF LinksTypeOK
<1>8. CASE UNCHANGED children
  BY <1>5, <1>6, <1>7, <1>8, Quiet
<1>9. CASE \E k \in DOMAIN children[list] :
             /\ children[list][k] = e
             /\ children' = [children EXCEPT ![list] = RemoveAt(@, k)]
  <2>1. PICK k \in DOMAIN children[list] :
          children[list][k] = e /\ children' = [children EXCEPT ![list] = RemoveAt(@, k)]
    BY <1>9
  <2>2. PICK s \in Seq(Property) : s = children[list] /\ ToSet(s) \subseteq ToSet(Elements[list])
    BY <1>0, LinksAssumption DEF LinksTypeOK
  <2>3. k \in 1 .. Len(s)
    BY <2>1, <2>2, LenProperties
  <2> DEFINE new == RemoveAt(s, k)
  <2>4. new \in Seq(Property) /\ children' = [children EXCEPT ![list] = new]
    BY <2>1, <2>2, <2>3, RemoveAtProperties
  <2>5. /\ \A j \in DOMAIN new : \E i \in DOMAIN s : i # k /\ new[j] = s[i]
        /\ \A i \in DOMAIN s : i # k => \E j \in DOMAIN new : s[i] = new[j]
    <3>1. PICK m \in 1 .. Len(s) : m = k
      BY <2>3
    <3>2. /\ \A i, j \in DOMAIN RemoveAt(s, m) : i < j =>
               \E a, b \in DOMAIN s : a < b /\ RemoveAt(s, m)[i] = s[a] /\ RemoveAt(s, m)[j] = s[b]
          /\ \A j \in DOMAIN RemoveAt(s, m) : \E i \in DOMAIN s : i # m /\ RemoveAt(s, m)[j] = s[i]
          /\ \A i \in DOMAIN s : i # m => \E j \in DOMAIN RemoveAt(s, m) : s[i] = RemoveAt(s, m)[j]
      BY ONLY s \in Seq(Property), m \in 1 .. Len(s), RemoveAtElements
    <3> QED BY <3>1, <3>2
  <2> HIDE DEF new
  <2>6. \A t \in Seq(Property) : \A x : Contains(t, x) <=> x \in ToSet(t)
    BY LenProperties DEF Contains, ToSet
  <2>7. \A x : x # e => (Contains(new, x) <=> Contains(children[list], x))
    <3>1. ASSUME NEW x, x # e PROVE x \in ToSet(new) <=> x \in ToSet(s)
      <4>1. ASSUME NEW j \in DOMAIN new, x = new[j] PROVE x \in ToSet(s)
        BY <4>1, <2>5 DEF ToSet
      <4>2. ASSUME NEW i \in DOMAIN s, x = s[i] PROVE x \in ToSet(new)
        BY <4>2, <3>1, <2>1, <2>2, <2>5 DEF ToSet
      <4> QED BY <4>1, <4>2 DEF ToSet
    <3> QED BY <2>2, <2>4, <2>6, <3>1
  <2>8. ToSet(new) \subseteq ToSet(Elements[list])
    <3>1. ToSet(new) \subseteq ToSet(s)
      BY <2>5 DEF ToSet
    <3> QED BY <2>2, <3>1
  <2> QED BY <1>3, <1>5, <1>6, <1>7, <2>4, <2>7, <2>8, ElementChange
<1> QED BY <1>2, <1>8, <1>9 DEF ElementRemoved

-----------------------------------------------------------------------------
(* Links that are added and removed.                                       *)

\* The lists are forgotten when the links change, and the direct ones follow.
LEMMA LinksChange ==
  ASSUME CacheInv, ~ InCall("collect"), UNCHANGED <<children, value, visited, stack, searchVars>>,
         secondary' = <<>>, links' \subseteq Link, primary' \in [Property -> Seq(Property)],
         \A p, q \in Property : <<p, q>> \in links' <=> q \in ToSet(primary'[p]),
         \A p \in Property : \A i, j \in DOMAIN primary'[p] : primary'[p][i] = primary'[p][j] => i = j,
         \A link \in links' : {link[1], link[2]} \subseteq Present /\ (link[1] \in Leaf <=> link[2] \in Leaf)
  PROVE  CacheInv'
<1>1. DOMAIN secondary' = {}
  OBVIOUS
<1>2. CacheIsCurrent'
  <2>1. (links = UNION {{<<x, y>> : y \in ToSet(primary[x])} : x \in Property})'
    <3>1. PICK set \in SUBSET Link, dests \in [Property -> Seq(Property)] : set = links' /\ dests = primary'
      OBVIOUS
    <3>2. set = UNION {{<<x, y>> : y \in ToSet(dests[x])} : x \in Property}
      BY <3>1, DirectForm
    <3> QED BY <3>1, <3>2
  <2> QED BY <1>1, <2>1 DEF CacheIsCurrent
<1>3. SameOwners(Property)
  BY SameChildren
<1>4. Present' = Present
  BY <1>3, PresentStays DEF Present
<1>5. LinksOK'
  BY <1>4 DEF LinksOK
<1>6. Types'
  <2>1. LinksTypeOK'
    BY <1>1 DEF CacheInv, Types, LinksTypeOK, Looping
  <2>2. StackOK(stack')
    BY DEF CacheInv, Types
  <2> QED BY <1>1, <2>1, <2>2 DEF CacheInv, Types, searchVars
<1>7. ~ InCall("collect")'
  BY DEF InCall, Top
<1> QED BY <1>2, <1>5, <1>6, <1>7 DEF CacheInv

LEMMA AddLinkStep ==
  ASSUME CacheInv, ~ InCall("collect"), UNCHANGED <<children, value, visited, stack, searchVars>>,
         NEW src \in Property, NEW dst \in Property, AddLink(src, dst)
  PROVE  CacheInv'
<1>1. /\ primary \in [Property -> Seq(Property)] /\ links \subseteq Link /\ LinksOK
      /\ \A p, q \in Property : <<p, q>> \in links <=> q \in ToSet(primary[p])
  BY PrimaryForm DEF CacheInv, Types, LinksTypeOK, CacheIsCurrent
<1>2. /\ <<src, dst>> \notin links /\ canLink(src, dst) /\ {src, dst} \subseteq Present
      /\ links' = links \cup {<<src, dst>>} /\ secondary' = <<>>
      /\ primary' = [primary EXCEPT ![src] = Append(@, dst)]
  BY DEF AddLink
<1>3. PICK s \in Seq(Property) : s = primary[src]
  BY <1>1
<1>4. /\ Append(s, dst) \in Seq(Property) /\ ToSet(Append(s, dst)) = ToSet(s) \cup {dst}
      /\ Len(Append(s, dst)) = Len(s) + 1 /\ Append(s, dst)[Len(s) + 1] = dst
      /\ \A i \in 1 .. Len(s) : Append(s, dst)[i] = s[i]
  BY AppendProperties, ToSetAppend
<1>5. /\ Len(s) \in Nat /\ DOMAIN s = 1 .. Len(s) /\ DOMAIN Append(s, dst) = 1 .. Len(s) + 1
  BY <1>4, LenProperties
<1>6. /\ primary' \in [Property -> Seq(Property)] /\ primary'[src] = Append(s, dst)
      /\ \A p \in Property : p # src => primary'[p] = primary[p]
  BY <1>1, <1>2, <1>3, <1>4
<1>7. links' \subseteq Link
  BY <1>1, <1>2 DEF Link
<1>8. ASSUME NEW p \in Property, NEW q \in Property
      PROVE  <<p, q>> \in links' <=> q \in ToSet(primary'[p])
  <2>1. <<p, q>> = <<src, dst>> <=> p = src /\ q = dst
    OBVIOUS
  <2> QED BY <1>1, <1>2, <1>3, <1>4, <1>6, <2>1
<1>9. ASSUME NEW p \in Property, NEW i \in DOMAIN primary'[p], NEW j \in DOMAIN primary'[p],
             primary'[p][i] = primary'[p][j]
      PROVE  i = j
  <2>1. CASE p # src
    BY <1>1, <1>6, <1>9, <2>1 DEF LinksOK
  <2>2. CASE p = src
    <3>1. dst \notin ToSet(s)
      BY <1>1, <1>2, <1>3
    <3>2. \A n \in 1 .. Len(s) : s[n] # dst
      BY <1>5, <3>1 DEF ToSet
    <3>3. \A m, n \in 1 .. Len(s) : s[m] = s[n] => m = n
      BY <1>1, <1>3, <1>5 DEF LinksOK
    <3>4. i \in 1 .. Len(s) + 1 /\ j \in 1 .. Len(s) + 1 /\ Append(s, dst)[i] = Append(s, dst)[j]
      BY <1>5, <1>6, <1>9, <2>2
    <3>5. /\ i \in 1 .. Len(s) \/ i = Len(s) + 1
          /\ j \in 1 .. Len(s) \/ j = Len(s) + 1
      BY <1>5, <3>4
    <3> QED BY <1>4, <3>2, <3>3, <3>4, <3>5
  <2> QED BY <2>1, <2>2
<1>10. src \in Leaf <=> dst \in Leaf
  BY <1>2, LinksAssumption DEF canLink
<1>11. ASSUME NEW link \in links'
       PROVE  {link[1], link[2]} \subseteq Present /\ (link[1] \in Leaf <=> link[2] \in Leaf)
  BY <1>1, <1>2, <1>10 DEF LinksOK
<1> QED BY <1>2, <1>6, <1>7, <1>8, <1>9, <1>11, LinksChange

LEMMA RemoveLinkStep ==
  ASSUME CacheInv, ~ InCall("collect"), UNCHANGED <<children, value, visited, stack, searchVars>>,
         NEW link, RemoveLink(link)
  PROVE  CacheInv'
<1>1. /\ primary \in [Property -> Seq(Property)] /\ links \subseteq Link /\ LinksOK
      /\ \A p, q \in Property : <<p, q>> \in links <=> q \in ToSet(primary[p])
  BY PrimaryForm DEF CacheInv, Types, LinksTypeOK, CacheIsCurrent
<1>2. /\ link \in links /\ links' = links \ {link} /\ secondary' = <<>>
  BY DEF RemoveLink
<1>3. PICK src \in Property, dst \in Property : link = <<src, dst>>
  BY <1>1, <1>2 DEF Link
<1>4. link[1] = src /\ link[2] = dst
  BY <1>3
<1>5. PICK k \in DOMAIN primary[src] :
        primary[src][k] = dst /\ primary' = [primary EXCEPT ![src] = RemoveAt(@, k)]
  BY <1>4 DEF RemoveLink
<1>6. PICK s \in Seq(Property) : s = primary[src]
  BY <1>1
<1>7. k \in 1 .. Len(s) /\ Len(s) \in Nat /\ DOMAIN s = 1 .. Len(s)
  BY <1>5, <1>6, LenProperties
<1>8. PICK t \in Seq(Property) : t = RemoveAt(s, k)
  BY <1>7, RemoveAtProperties
<1>9. /\ \A i, j \in DOMAIN t : i < j => \E a, b \in DOMAIN s : a < b /\ t[i] = s[a] /\ t[j] = s[b]
      /\ \A j \in DOMAIN t : \E i \in DOMAIN s : i # k /\ t[j] = s[i]
      /\ \A i \in DOMAIN s : i # k => \E j \in DOMAIN t : s[i] = t[j]
  <2>1. PICK m \in 1 .. Len(s) : m = k
    BY <1>7
  <2>2. /\ \A i, j \in DOMAIN RemoveAt(s, m) : i < j =>
             \E a, b \in DOMAIN s : a < b /\ RemoveAt(s, m)[i] = s[a] /\ RemoveAt(s, m)[j] = s[b]
        /\ \A j \in DOMAIN RemoveAt(s, m) : \E i \in DOMAIN s : i # m /\ RemoveAt(s, m)[j] = s[i]
        /\ \A i \in DOMAIN s : i # m => \E j \in DOMAIN RemoveAt(s, m) : s[i] = RemoveAt(s, m)[j]
    BY ONLY s \in Seq(Property), m \in 1 .. Len(s), RemoveAtElements
  <2> QED BY <1>8, <2>1, <2>2
<1>10. \A m, n \in DOMAIN s : s[m] = s[n] => m = n
  BY <1>1, <1>6 DEF LinksOK
<1>11. /\ primary' \in [Property -> Seq(Property)] /\ primary'[src] = t
       /\ \A p \in Property : p # src => primary'[p] = primary[p]
  BY <1>1, <1>5, <1>6, <1>8
<1>12. ToSet(t) = ToSet(s) \ {dst}
  <2>1. ASSUME NEW x \in ToSet(t) PROVE x \in ToSet(s) \ {dst}
    <3>1. PICK j \in DOMAIN t : x = t[j]
      BY DEF ToSet
    <3>2. PICK i \in DOMAIN s : i # k /\ x = s[i]
      BY <1>9, <3>1
    <3> QED BY <1>5, <1>6, <1>7, <1>10, <3>2 DEF ToSet
  <2>2. ASSUME NEW x \in ToSet(s) \ {dst} PROVE x \in ToSet(t)
    <3>1. PICK i \in DOMAIN s : x = s[i]
      BY DEF ToSet
    <3>2. i # k
      BY <1>5, <1>6, <3>1
    <3>3. PICK j \in DOMAIN t : s[i] = t[j]
      BY <1>9, <3>2
    <3> QED BY <3>1, <3>3 DEF ToSet
  <2> QED BY <2>1, <2>2
<1>13. ASSUME NEW p \in Property, NEW q \in Property
       PROVE  <<p, q>> \in links' <=> q \in ToSet(primary'[p])
  <2>1. <<p, q>> = link <=> p = src /\ q = dst
    BY <1>3
  <2> QED BY <1>1, <1>2, <1>6, <1>11, <1>12, <2>1
<1>14. \A i, j \in DOMAIN t : t[i] = t[j] => i = j
  <2>1. DOMAIN t = 1 .. Len(t) /\ Len(t) \in Nat
    BY LenProperties
  <2>2. ASSUME NEW i \in DOMAIN t, NEW j \in DOMAIN t, i < j PROVE t[i] # t[j]
    <3>1. PICK a \in DOMAIN s, b \in DOMAIN s : a < b /\ t[i] = s[a] /\ t[j] = s[b]
      BY <1>9, <2>2
    <3> QED BY <1>7, <1>10, <3>1
  <2> QED BY <2>1, <2>2
<1>15. \A p \in Property : \A i, j \in DOMAIN primary'[p] : primary'[p][i] = primary'[p][j] => i = j
  BY <1>1, <1>11, <1>14 DEF LinksOK
<1>16. /\ links' \subseteq Link
       /\ \A l \in links' : {l[1], l[2]} \subseteq Present /\ (l[1] \in Leaf <=> l[2] \in Leaf)
  BY <1>1, <1>2 DEF LinksOK
<1> QED BY <1>2, <1>11, <1>13, <1>15, <1>16, LinksChange

LEMMA LinkSteps ==
  ASSUME CacheInv, ChangeLinks \/ RemoveLinkOfElement
  PROVE  CacheInv'
<1>1. ~ InCall("collect")
  BY DEF ChangeLinks, RemoveLinkOfElement, InCall
<1>2. UNCHANGED <<children, value, visited, stack, searchVars>>
  BY DEF ChangeLinks, RemoveLinkOfElement
<1>3. \/ \E p, q \in Property : AddLink(p, q)
      \/ \E link : RemoveLink(link)
  BY DEF ChangeLinks, RemoveLinkOfElement
<1> QED BY <1>1, <1>2, <1>3, AddLinkStep, RemoveLinkStep

-----------------------------------------------------------------------------
(* The caches are right, whatever is done.                                 *)

LEMMA CacheInit ==
  ASSUME LinksInit
  PROVE  CacheInv
<1>1. DOMAIN secondary = {} /\ DOMAIN stack = {} /\ ToSet(<<>>) = {}
  BY DEF LinksInit, ToSet
<1>2. \A c \in Composite : Elements[c] \in Seq(Property) /\ (c \in List => <<>> \in Seq(Property))
  BY LinksAssumption
<1>3. /\ children \in [Composite -> Seq(Property)]
      /\ \A c \in Composite : children[c] = IF c \in List THEN <<>> ELSE Elements[c]
  BY <1>2 DEF LinksInit
<1>4. \A c \in Composite : ToSet(children[c]) \subseteq ToSet(Elements[c])
  BY <1>1, <1>3
<1>5. /\ links = {} /\ primary = [p \in Property |-> <<>>]
      /\ primary \in [Property -> Seq(Property)] /\ value \in [Leaf -> Value]
  BY LinksAssumption DEF LinksInit
<1>6. LinksTypeOK
  BY <1>1, <1>3, <1>4, <1>5 DEF LinksTypeOK, LinksInit
<1>7. Types
  BY <1>1, <1>3, <1>6 DEF Types, StackOK, LinksInit
<1>8. LinksOK
  BY <1>5 DEF LinksOK
<1>9. CacheIsCurrent
  <2>1. \A p \in Property : ToSet(primary[p]) = {}
    BY <1>1, <1>5
  <2> QED BY <1>1, <1>5, <2>1 DEF CacheIsCurrent
<1> QED BY <1>7, <1>8, <1>9 DEF CacheInv, InCall, LinksInit

LEMMA CacheStep ==
  ASSUME CacheInv, [LinksNext]_linksVars
  PROVE  CacheInv'
<1>1. CASE UNCHANGED linksVars
  <2>1. UNCHANGED <<children, value, networkVars, visited, stack, searchVars>>
    BY <1>1 DEF linksVars
  <2>2. CASE InCall("collect")
    <3>1. found \in Seq(Link) /\ todo \in Seq(Items) /\ SearchFor(Top.prop, found, ToSet(todo))
      BY <2>2 DEF CacheInv, Types
    <3>2. PICK list \in Seq(Link), items \in Seq(Items) : list = found /\ items = todo
      BY <3>1
    <3>3. found' = list /\ todo' = items /\ SearchFor(Top.prop, list, ToSet(items))
      BY <2>1, <3>1, <3>2 DEF searchVars
    <3> QED BY <2>1, <2>2, <3>3, SearchStep
  <2>3. CASE ~ InCall("collect")
    <3>1. /\ StackOK(stack') /\ value' \in [Leaf -> Value]
          /\ stack' # <<>> => stack'[1].at # "collect"
      BY <2>1, <2>3 DEF CacheInv, Types, LinksTypeOK, InCall, Top
    <3>2. visited' \subseteq Looping(stack')
      BY <2>1 DEF CacheInv, Types, LinksTypeOK
    <3> QED BY <2>1, <3>1, <3>2, Quiet
  <2> QED BY <2>2, <2>3
<1>2. CASE EvaluateLinks
  BY <1>2, EvaluateQuiet, EvaluateNew
<1> QED BY <1>1, <1>2, QuietSteps, SearchSteps, CollectedStep, InsertSteps, ElementRemovedStep,
           LinkSteps DEF LinksNext, LinksStep, User

\* Both caches of the network lead where a change has to go, at any time of any run.
THEOREM CacheCurrent == LinksSpec => []CacheIsCurrent
<1>1. LinksInit => CacheInv
  BY CacheInit
<1>2. CacheInv /\ [LinksNext]_linksVars => CacheInv'
  BY CacheStep
<1>3. CacheInv => CacheIsCurrent
  BY DEF CacheInv
<1> QED BY <1>1, <1>2, <1>3, PTL DEF LinksSpec

\* Values are in their range, and what is visited belongs to a loop in progress.
THEOREM LinksTypeCorrect == LinksSpec => []LinksTypeOK
<1>1. LinksInit => CacheInv
  BY CacheInit
<1>2. CacheInv /\ [LinksNext]_linksVars => CacheInv'
  BY CacheStep
<1>3. CacheInv => LinksTypeOK
  BY DEF CacheInv, Types
<1> QED BY <1>1, <1>2, <1>3, PTL DEF LinksSpec

-----------------------------------------------------------------------------
(* Links between properties with a value.                                  *)

\* One more call.
LEMMA ProperPush ==
  ASSUME NEW f \in Calls, NEW r \in Seq(Waiting), NEW seen, NEW val, Above(f, r),
         f.at = "convert" => Agree(f, val), AllAgree(r, val),
         seen = (IF f.at = "convert" THEN Ends(f.list) ELSE {}) \cup Looping(r)
  PROVE  Proper(<<f>> \o r, seen, val)
<1> DEFINE t == <<f>> \o r
<1>1. /\ t[1] = f /\ Tail(t) = r /\ DOMAIN t = 1 .. Len(r) + 1
      /\ \A k \in 1 .. Len(r) : t[k + 1] = r[k]
  BY Push
<1>2. seen = Looping(t)
  BY LoopingWith
<1> HIDE DEF t
<1>3. Len(r) \in Nat /\ DOMAIN r = 1 .. Len(r)
  BY LenProperties
<1>4. ASSUME NEW k \in DOMAIN t, t[k].at = "convert" PROVE Agree(t[k], val)
  <2>1. CASE k = 1
    BY <1>1, <1>4, <2>1
  <2>2. CASE k # 1
    <3>1. k - 1 \in 1 .. Len(r) /\ (k - 1) + 1 = k
      BY <1>1, <1>3, <2>2
    <3>2. t[k] = r[k - 1]
      BY <1>1, <3>1
    <3> QED BY <1>3, <1>4, <3>1, <3>2 DEF AllAgree
  <2> QED BY <2>1, <2>2
<1> QED BY <1>1, <1>2, <1>4 DEF Proper, AllAgree, t

\* The call on top, and those below it.
LEMMA ProperTop ==
  ASSUME CacheInv, stack # <<>>, Proper(stack, visited, value)
  PROVE  /\ Top \in Calls /\ Rest \in Seq(Waiting) /\ Above(Top, Rest)
         /\ Top.prop \in Property /\ Top.i \in Nat \ {0}
         /\ Top.at = "convert" => Agree(Top, value)
         /\ AllAgree(Rest, value) /\ Len(Rest) \in Nat
         /\ visited = (IF Top.at = "convert" THEN Ends(Top.list) ELSE {}) \cup Looping(Rest)
<1>1. StackOK(stack)
  BY DEF CacheInv, Types
<1>2. /\ DOMAIN stack = 1 .. Len(Rest) + 1 /\ \A k \in 1 .. Len(Rest) : Rest[k] = stack[k + 1]
      /\ Rest \in Seq(Waiting)
  BY <1>1, Pop DEF Rest
<1>3. Len(Rest) \in Nat /\ DOMAIN Rest = 1 .. Len(Rest)
  BY <1>2, LenProperties
<1>4. AllAgree(Rest, value)
  <2>1. \A k \in 1 .. Len(Rest) : k + 1 \in DOMAIN stack
    BY <1>2, <1>3
  <2> QED BY <1>2, <1>3, <2>1 DEF AllAgree, Proper
<1>5. Top.at = "convert" => Agree(Top, value)
  <2>1. 1 \in DOMAIN stack
    BY <1>2, <1>3
  <2> QED BY <2>1 DEF AllAgree, Proper, Top
<1>6. Above(Top, Rest) /\ visited = Looping(stack)
  BY DEF Proper, Top, Rest
<1> QED BY <1>3, <1>4, <1>5, <1>6, TopOf

\* The call on top returns.
LEMMA ProperPop ==
  ASSUME NEW r \in Seq(Waiting), NEW val, AllAgree(r, val),
         \/ r = <<>>
         \/ Len(r) = 1 /\ r[1].at = "owner"
         \/ Len(r) = 2 /\ Loops(r[1]) /\ r[2].at = "owner"
         \/ Len(r) = 3 /\ r[1].at = "owner" /\ Loops(r[2]) /\ r[3].at = "owner"
  PROVE  Proper(r, Looping(r), val)
<1>1. ASSUME r # <<>> PROVE Above(r[1], Tail(r))
  <2>1. StackOK(r)
    BY OfWaiting
  <2>2. /\ Len(r) = Len(Tail(r)) + 1 /\ \A k \in 1 .. Len(Tail(r)) : Tail(r)[k] = r[k + 1]
        /\ Tail(r) \in Seq(Waiting)
    BY <1>1, <2>1, Pop
  <2>3. PICK s \in Seq(Waiting) : s = Tail(r)
    BY <2>2
  <2>4. /\ Len(r) = Len(s) + 1 /\ Len(s) \in Nat /\ (Len(s) = 0 => s = <<>>)
        /\ \A k \in 1 .. Len(s) : s[k] = r[k + 1]
    BY <2>2, <2>3, LenProperties, EmptySeq
  <2>5. CASE Len(r) = 1 /\ r[1].at = "owner"
    BY <2>3, <2>4, <2>5 DEF Above
  <2>6. CASE Len(r) = 2 /\ Loops(r[1]) /\ r[2].at = "owner"
    <3>1. Len(s) = 1 /\ s[1] = r[2]
      <4>0. PICK n \in Nat : n = Len(s) /\ n + 1 = 2
        BY <2>4, <2>6
      <4>1. Len(s) = 1 /\ 1 \in 1 .. Len(s) /\ 1 + 1 = 2
        BY <4>0
      <4>2. s[1] = r[1 + 1]
        BY <2>4, <4>1
      <4> QED BY <4>1, <4>2
    <3> QED BY <2>3, <2>6, <3>1 DEF Above, Links, Loops
  <2>7. CASE Len(r) = 3 /\ r[1].at = "owner" /\ Loops(r[2]) /\ r[3].at = "owner"
    <3>1. Len(s) = 2 /\ s[1] = r[2] /\ s[2] = r[3]
      <4>0. PICK n \in Nat : n = Len(s) /\ n + 1 = 3
        BY <2>4, <2>7
      <4>1. Len(s) = 2 /\ 1 \in 1 .. Len(s) /\ 2 \in 1 .. Len(s) /\ 1 + 1 = 2 /\ 2 + 1 = 3
        BY <4>0
      <4>2. s[1] = r[1 + 1] /\ s[2] = r[2 + 1]
        BY <2>4, <4>1
      <4> QED BY <4>1, <4>2
    <3> QED BY <2>3, <2>7, <3>1 DEF Above, Changed
  <2> QED BY <1>1, <2>5, <2>6, <2>7
<1> QED BY <1>1 DEF Proper

\* A first call.
LEMMA ProperFirst ==
  ASSUME NEW f \in Waiting, f.at \in {"callbacks", "remove"}, NEW val
  PROVE  Proper(<<f>> \o <<>>, {}, val)
<1>1. <<>> \in Seq(Waiting) /\ f \in Calls
  BY DEF Waiting
<1>2. Above(f, <<>>)
  BY DEF Above
<1>3. Looping(<<>>) = {} /\ AllAgree(<<>>, val)
  BY DEF Looping, AllAgree
<1> QED BY <1>1, <1>2, <1>3, ProperPush

\* Nothing is visited between two changes.
LEMMA ProperIdle ==
  ASSUME LinksTypeOK, stack = <<>>
  PROVE  visited = {} /\ \A val : Proper(<<>>, {}, val)
<1>1. Looping(<<>>) = {}
  BY DEF Looping
<1> QED BY <1>1 DEF LinksTypeOK, Proper, AllAgree

LEMMA ProperUser ==
  ASSUME CacheInv, User
  PROVE  Proper(stack', visited', value')
<1>0. LinksTypeOK /\ stack = <<>> /\ visited' = visited
  BY DEF CacheInv, Types, User, SetProperty, ChangeLinks, AddElement, RemoveElement, Insert, RemoveFrom
<1>1. visited' = {} /\ \A val : Proper(<<>>, {}, val)
  BY <1>0, ProperIdle
<1>2. CASE stack' = <<>>
  BY <1>1, <1>2
<1>3. CASE \E p \in Property : stack' = <<Modified(p)>> \o <<>>
  <2>1. PICK p \in Property, f \in Waiting : stack' = <<f>> \o <<>> /\ f.at = "callbacks"
    BY <1>3, CallTypes
  <2> QED BY <1>1, <2>1, ProperFirst
<1>4. CASE RemoveElement
  <2>a. PICK list \in List : \E e \in ToSet(children[list]) : RemoveFrom(list, e, <<>>)
    BY <1>4 DEF RemoveElement
  <2>1. PICK e \in ToSet(children[list]) : stack' = <<[Call("remove", list) EXCEPT !.from = e]>> \o <<>>
    BY <2>a DEF RemoveFrom
  <2>2. e \in Leaf /\ list \in Property /\ e \in Property
    BY <1>0, ListElements, LinksAssumption DEF Property
  <2>3. PICK f : f = [Call("remove", list) EXCEPT !.from = e]
    OBVIOUS
  <2>4. f \in Waiting /\ f.at = "remove"
    <3>1. f = [at |-> "remove", prop |-> list, from |-> e, list |-> <<>>, count |-> 0, i |-> 1]
      BY <2>3 DEF Call
    <3>2. <<>> \in Seq(Property)
      OBVIOUS
    <3> QED BY <2>2, <3>1, <3>2 DEF Waiting, Calls, Frame
  <2> QED BY <1>1, <2>1, <2>3, <2>4, ProperFirst
<1>5. CASE ChangeLinks
  BY <1>0, <1>2, <1>5 DEF ChangeLinks
<1>6. CASE SetProperty
  <2>1. PICK p \in Leaf : stack' = <<>> \/ stack' = <<Modified(p)>> \o <<>>
    BY <1>6 DEF SetProperty, Assign
  <2> QED BY <1>2, <1>3, <2>1 DEF Property
<1>7. CASE AddElement
  <2>1. PICK list \in List : stack' = <<Modified(list)>> \o <<>>
    BY <1>7 DEF AddElement, Insert
  <2>2. list \in Property
    BY LinksAssumption DEF Property
  <2> QED BY <1>3, <2>1, <2>2
<1> QED BY <1>4, <1>5, <1>6, <1>7 DEF User

\* A loop over the list of p, in which no composites are linked.
LEMMA ProperLoop ==
  ASSUME CacheInv, Plain, NEW p \in Property, NEW list \in Seq(Link), ListIsCurrent(p, list),
         NEW r \in Seq(Waiting), StartLoop(p, list, r), NEW val, AllAgree(r, val),
         visited = Looping(r),
         \/ Len(r) = 1 /\ r[1].at = "owner"
         \/ /\ Len(r) = 3 /\ r[1].at = "owner" /\ Loops(r[2]) /\ r[3].at = "owner"
            /\ p \in Composite
  PROVE  Proper(stack', visited', val)
<1>1. PICK f \in Calls : /\ f = Converting(p, list) /\ f.at = "convert" /\ f.list = list
                         /\ f.i = 1 /\ f.prop = p
  BY CallTypes, CurrentIsStraight DEF Waiting
<1>2. \A k \in DOMAIN list : list[k] \in Leaf \X Leaf
  BY DEF ListIsCurrent, Plain
<1>3. \A k \in DOMAIN list : k \in Nat \ {0}
  BY LenProperties
<1>4. Agree(f, val)
  BY <1>1, <1>2, <1>3 DEF Agree
<1>5. list # <<>> => p \in Leaf
  <2>1. list # <<>> => 1 \in DOMAIN list /\ list[1][1] = p
    BY CurrentIsStraight, LenProperties, EmptySeq
  <2> QED BY <1>2, <2>1
<1>6. Above(f, r)
  BY <1>1, <1>5 DEF Above, Links
<1>7. stack' = <<f>> \o r /\ visited' = Ends(f.list) \cup Looping(r)
  BY <1>1 DEF StartLoop
<1> QED BY <1>1, <1>4, <1>6, <1>7, ProperPush

\* The loop over the links, or the making of its list, begins above the call it is made from.
LEMMA ProperEvaluate ==
  ASSUME CacheInv, Plain, Proper(stack, visited, value), EvaluateLinks
  PROVE  Proper(stack', visited', value')
<1> DEFINE g == [Top EXCEPT !.at = "owner"]
<1>1. InCall("callbacks") /\ stack # <<>> /\ Top.at = "callbacks" /\ value' = value
  BY DEF EvaluateLinks, InCall
<1>2. /\ Rest \in Seq(Waiting) /\ Above(Top, Rest) /\ AllAgree(Rest, value)
      /\ visited = Looping(Rest) /\ Top.prop \in Property
  BY <1>1, ProperTop
<1>3. /\ g \in Waiting /\ g.at = "owner" /\ g.prop = Top.prop /\ <<g>> \o Rest \in Seq(Waiting)
  BY <1>1, AtOwner
<1>4. PICK r \in Seq(Waiting), h \in Waiting, p \in Property, v \in [Leaf -> Value] :
        /\ r = Rest /\ h = g /\ h \in Calls /\ p = Top.prop /\ v = value
  BY <1>2, <1>3 DEF Waiting, CacheInv, Types, LinksTypeOK
<1>5. /\ h.at = "owner" /\ h.prop = p /\ AllAgree(r, v) /\ visited = Looping(r)
      /\ \/ r = <<>>
         \/ /\ Len(r) = 2 /\ Loops(r[1]) /\ r[2].at = "owner"
            /\ p \in Composite \cup Ends(r[1].list)
  BY <1>1, <1>2, <1>3, <1>4 DEF Above, Links
<1>6. CASE p \in visited
  <2>1. stack' = <<h>> \o r /\ visited' = visited
    BY <1>4, <1>6 DEF EvaluateLinks
  <2>2. Above(h, r)
    BY <1>5 DEF Above, Changed
  <2> QED BY <1>1, <1>4, <1>5, <2>1, <2>2, ProperPush
<1>7. CASE p \notin visited
  <2>1. Triggered(p, <<h>> \o r)
    BY <1>4, <1>7 DEF EvaluateLinks
  <2>2. PICK b \in Seq(Waiting) : b = <<h>> \o r
    BY <1>4, Push
  <2>3. /\ Len(b) = Len(r) + 1 /\ b[1] = h /\ Looping(b) = Looping(r)
        /\ \A i \in 1 .. Len(r) : b[i + 1] = r[i]
    <3>1. Looping(<<h>> \o r) = Looping(r)
      <4>1. h \in Calls /\ h.at # "convert"
        BY <1>4, <1>5
      <4>2. Looping(<<h>> \o r) = (IF h.at = "convert" THEN Ends(h.list) ELSE {}) \cup Looping(r)
        BY <4>1, LoopingWith
      <4> QED BY <4>1, <4>2
    <3>2. /\ Len(<<h>> \o r) = Len(r) + 1 /\ (<<h>> \o r)[1] = h
          /\ \A i \in 1 .. Len(r) : (<<h>> \o r)[i + 1] = r[i]
      BY <1>4, Push
    <3> QED BY <2>2, <3>1, <3>2
  <2>4. AllAgree(b, v)
    <3>1. Above(h, r)
      BY <1>5 DEF Above, Changed
    <3>2. Proper(<<h>> \o r, visited, v)
      BY <1>4, <1>5, <3>1, ProperPush
    <3> QED BY <2>2, <3>2 DEF Proper
  <2>5. \/ Len(b) = 1 /\ b[1].at = "owner"
        \/ /\ Len(b) = 3 /\ b[1].at = "owner" /\ Loops(b[2]) /\ b[3].at = "owner"
           /\ p \in Composite
    <3>1. CASE r = <<>>
      BY <1>5, <2>3, <3>1
    <3>2. CASE /\ Len(r) = 2 /\ Loops(r[1]) /\ r[2].at = "owner"
               /\ p \in Composite \cup Ends(r[1].list)
      <4>1. Len(b) = 3 /\ 1 \in 1 .. Len(r) /\ 2 \in 1 .. Len(r) /\ 1 + 1 = 2 /\ 2 + 1 = 3
        <5>1. PICK n \in Nat : n = Len(r) /\ n = 2
          BY <3>2
        <5>2. Len(b) = n + 1
          BY <2>3, <5>1
        <5> QED BY <5>1, <5>2
      <4>2. b[1 + 1] = r[1] /\ b[2 + 1] = r[2]
        BY <2>3, <4>1
      <4>3. Ends(r[1].list) \subseteq Looping(r)
        <5>1. 1 \in DOMAIN r /\ r[1].at = "convert"
          BY <3>2, <4>1, LenProperties DEF Loops
        <5> QED BY <5>1 DEF Looping
      <4> QED BY <1>5, <1>7, <2>3, <3>2, <4>1, <4>2, <4>3
    <3> QED BY <1>5, <3>1, <3>2
  <2>6. CASE p \in DOMAIN secondary
    <3>1. PICK list \in Seq(Link) : list = secondary[p] /\ ListIsCurrent(p, list)
      BY <2>6 DEF CacheInv, Types, CacheIsCurrent
    <3>2. StartLoop(p, list, b)
      BY <2>1, <2>2, <2>6, <3>1 DEF Triggered
    <3>3. Proper(stack', visited', v)
      BY <1>5, <2>3, <2>4, <2>5, <3>1, <3>2, ProperLoop
    <3> QED BY <1>1, <1>4, <3>3
  <2>7. CASE p \notin DOMAIN secondary
    <3>1. PICK f \in Calls : f = Call("collect", p) /\ f.at = "collect" /\ f.prop = p
      BY CallTypes DEF Call
    <3>2. stack' = <<f>> \o b /\ visited' = visited
      BY <2>1, <2>2, <2>7, <3>1 DEF Triggered
    <3>3. Above(f, b)
      BY <2>5, <3>1 DEF Above, Links
    <3>4. Proper(<<f>> \o b, visited, v)
      BY <1>5, <2>3, <2>4, <3>1, <3>3, ProperPush
    <3> QED BY <1>1, <1>4, <3>2, <3>4
  <2> QED BY <2>6, <2>7
<1> QED BY <1>6, <1>7

LEMMA ProperCollected ==
  ASSUME CacheInv, Plain, Proper(stack, visited, value), Collected
  PROVE  Proper(stack', visited', value')
<1>1. InCall("collect") /\ stack # <<>> /\ Top.at = "collect" /\ todo = <<>> /\ value' = value
  BY DEF Collected, InCall
<1>2. /\ Rest \in Seq(Waiting) /\ Above(Top, Rest) /\ AllAgree(Rest, value)
      /\ visited = Looping(Rest) /\ Top.prop \in Property
  BY <1>1, ProperTop
<1>3. found \in Seq(Link) /\ ToSet(todo) = {} /\ SearchFor(Top.prop, found, ToSet(todo))
  BY <1>1 DEF CacheInv, Types, ToSet
<1>4. PICK r \in Seq(Waiting), p \in Property, list \in Seq(Link), v \in [Leaf -> Value] :
        /\ r = Rest /\ p = Top.prop /\ list = found /\ v = value /\ SearchFor(p, list, {})
  BY <1>2, <1>3 DEF CacheInv, Types, LinksTypeOK
<1>5. /\ AllAgree(r, v) /\ visited = Looping(r) /\ ListIsCurrent(p, list)
      /\ \/ Len(r) = 1 /\ r[1].at = "owner"
         \/ /\ Len(r) = 3 /\ r[1].at = "owner" /\ Loops(r[2]) /\ r[3].at = "owner"
            /\ p \in Composite
  BY <1>1, <1>2, <1>4, SearchEnds DEF Above, Changed
<1>6. StartLoop(p, list, r)
  BY <1>4 DEF Collected
<1>7. Proper(stack', visited', v)
  BY <1>5, <1>6, ProperLoop
<1> QED BY <1>1, <1>4, <1>7

\* A link of the loop is evaluated: its destination gets the value, and the loop goes on
\* below what the change of the destination does.
LEMMA ProperConvert ==
  ASSUME CacheInv, CacheInv', Proper(stack, visited, value), Convert
  PROVE  Proper(stack', visited', value')
<1> DEFINE g == [Top EXCEPT !.i = @ + 1]
<1>1. /\ stack # <<>> /\ Top.at = "convert" /\ Top.i <= Len(Top.list) /\ visited' = visited
  BY DEF Convert, InCall
<1>2. /\ Rest \in Seq(Waiting) /\ Above(Top, Rest) /\ AllAgree(Rest, value)
      /\ visited = Ends(Top.list) \cup Looping(Rest) /\ Agree(Top, value)
      /\ Top \in Calls /\ Top \in Waiting /\ Top.i \in Nat \ {0}
  BY <1>1, ProperTop DEF Waiting
<1>3. g \in Waiting /\ g.at = "convert" /\ g.list = Top.list /\ g.i = Top.i + 1 /\ g.prop = Top.prop
  BY <1>1, <1>2, Moves
<1>4. value \in [Leaf -> Value] /\ value' \in [Leaf -> Value]
  BY DEF CacheInv, Types, LinksTypeOK
<1>5. PICK f \in Calls, h \in Waiting, r \in Seq(Waiting), v, w \in [Leaf -> Value] :
        f = Top /\ h = g /\ r = Rest /\ v = value /\ w = value'
  BY <1>2, <1>3, <1>4
<1>6. /\ f.list \in Seq(Link) /\ Straight(f.list) /\ f.i \in Nat \ {0} /\ f.i <= Len(f.list)
      /\ h \in Calls /\ h.at = "convert" /\ h.list = f.list /\ h.i = f.i + 1 /\ h.prop = f.prop
      /\ AllAgree(r, v) /\ visited = Ends(f.list) \cup Looping(r) /\ Agree(f, v)
  BY <1>1, <1>2, <1>3, <1>5 DEF Calls, Waiting
<1>7. f.i \in DOMAIN f.list /\ f.list # <<>>
  BY <1>6, LenProperties
<1>8. Len(r) = 1 /\ r[1].at = "owner" /\ f.prop \in Leaf
  <2>1. f.at = "convert" /\ Above(f, r)
    BY <1>1, <1>2, <1>5
  <2> QED BY <1>7, <2>1, LinksAssumption DEF Above, Links, Changed
<1>9. PICK src \in Leaf, dst \in Leaf : f.list[f.i] = <<src, dst>>
  BY <1>6, <1>7 DEF Agree
<1>10. Assign(dst, v[src], <<h>> \o r)
  <2>1. SetFrom(dst, src, <<h>> \o r)
    BY <1>5, <1>9 DEF Convert
  <2> QED BY <1>5, <2>1 DEF SetFrom
<1>11. /\ w = [v EXCEPT ![dst] = Clamp(dst, v[src])]
       /\ stack' = IF Clamp(dst, v[src]) = v[dst] THEN <<h>> \o r ELSE <<Modified(dst)>> \o (<<h>> \o r)
  BY <1>5, <1>10 DEF Assign
<1>12. Agree(h, w)
  <2>1. ASSUME NEW k \in DOMAIN f.list
        PROVE  /\ f.list[k] \in Leaf \X Leaf
               /\ k < f.i + 1 => w[f.list[k][2]] = Clamp(f.list[k][2], w[f.list[k][1]])
    <3>1. f.list[k] \in Leaf \X Leaf
      BY <1>6 DEF Agree
    <3>2. PICK a \in Leaf, b \in Leaf : f.list[k] = <<a, b>>
      BY <3>1
    <3>3. k \in Nat
      BY <1>6, LenProperties
    <3>4. CASE k = f.i
      <4>1. a = src /\ b = dst /\ dst # src
        <5>1. f.list[f.i][2] # f.list[f.i][1]
          BY <1>6, <1>7 DEF Straight
        <5> QED BY <1>9, <3>2, <3>4, <5>1
      <4>2. w[dst] = Clamp(dst, v[src]) /\ w[src] = v[src]
        BY <1>11, <4>1
      <4> QED BY <3>1, <3>2, <4>1, <4>2
    <3>5. CASE k < f.i
      <4>1. k \in 1 .. f.i - 1
        BY <1>6, <3>3, <3>5, LenProperties
      <4>2. f.list[f.i][2] \notin {f.list[k][1], f.list[k][2]}
        BY <1>6, <1>7, <4>1 DEF Straight
      <4>3. dst # a /\ dst # b
        BY <1>9, <3>2, <4>2
      <4>4. v[f.list[k][2]] = Clamp(f.list[k][2], v[f.list[k][1]])
        BY <1>6, <3>5 DEF Agree
      <4>5. w[a] = v[a] /\ w[b] = v[b]
        BY <1>11, <4>3
      <4> QED BY <3>1, <3>2, <4>4, <4>5
    <3> QED BY <1>6, <3>1, <3>3, <3>4, <3>5
  <2> QED BY <1>6, <2>1 DEF Agree
<1>13. AllAgree(r, w)
  BY <1>8, LenProperties DEF AllAgree
<1>14. Proper(<<h>> \o r, visited', w)
  <2>1. Above(h, r)
    BY <1>6, <1>8 DEF Above, Links
  <2> QED BY <1>1, <1>6, <1>12, <1>13, <2>1, ProperPush
<1>15. CASE stack' = <<h>> \o r
  BY <1>5, <1>14, <1>15
<1>16. CASE stack' = <<Modified(dst)>> \o (<<h>> \o r)
  <2>1. PICK m \in Calls : m = Modified(dst) /\ m.at = "callbacks" /\ m.prop = dst
    BY CallTypes DEF Property, Waiting, Modified, Call
  <2>2. PICK b \in Seq(Waiting) : b = <<h>> \o r
    BY <1>6, Push
  <2>3. /\ Len(b) = 2 /\ b[1] = h /\ b[2] = r[1]
    <3>1. /\ Len(<<h>> \o r) = Len(r) + 1 /\ (<<h>> \o r)[1] = h
          /\ \A i \in 1 .. Len(r) : (<<h>> \o r)[i + 1] = r[i]
      BY <1>6, Push
    <3>2. 1 \in 1 .. Len(r) /\ 1 + 1 = 2
      BY <1>8
    <3>3. (<<h>> \o r)[1 + 1] = r[1]
      BY <3>1, <3>2
    <3> QED BY <1>8, <2>2, <3>1, <3>2, <3>3
  <2>4. dst \in Ends(h.list)
    <3>1. f.list[f.i][2] = dst
      BY <1>9
    <3> QED BY <1>6, <1>7, <3>1 DEF Ends
  <2>5. Above(m, b)
    BY <1>6, <1>7, <1>8, <2>1, <2>3, <2>4 DEF Above, Loops, Changed
  <2>6. visited' = Looping(b) /\ AllAgree(b, w)
    BY <1>14, <2>2 DEF Proper
  <2>7. Proper(<<m>> \o b, visited', w)
    BY <2>1, <2>5, <2>6, ProperPush
  <2> QED BY <1>5, <1>16, <2>1, <2>2, <2>7
<1> QED BY <1>11, <1>15, <1>16

\* The steps at which a call gives way to another one, or to the one below it.
LEMMA ProperReturns ==
  ASSUME CacheInv, Proper(stack, visited, value), InvalidateOwner \/ Converted \/ ElementRemoved
  PROVE  Proper(stack', visited', value')
<1>1. /\ stack # <<>> /\ value' = value /\ Top.at \in {"owner", "convert", "remove"}
  BY DEF InvalidateOwner, Converted, ElementRemoved, InCall
<1>2. /\ Rest \in Seq(Waiting) /\ Above(Top, Rest) /\ AllAgree(Rest, value)
      /\ visited = (IF Top.at = "convert" THEN Ends(Top.list) ELSE {}) \cup Looping(Rest)
      /\ Top \in Calls /\ Top.prop \in Property /\ Top.i \in Nat \ {0}
  BY <1>1, ProperTop
<1>3. PICK f \in Calls, r \in Seq(Waiting), v \in [Leaf -> Value] : f = Top /\ r = Rest /\ v = value
  BY <1>2 DEF CacheInv, Types, LinksTypeOK
<1>4. /\ Above(f, r) /\ AllAgree(r, v) /\ f.prop \in Property
      /\ visited = (IF f.at = "convert" THEN Ends(f.list) ELSE {}) \cup Looping(r)
  BY <1>2, <1>3
<1>5. ASSUME NEW p \in Property, Above(Modified(p), r), stack' = <<Modified(p)>> \o r,
             visited' = visited, f.at # "convert"
      PROVE  Proper(stack', visited', value')
  <2>1. PICK m \in Calls : m = Modified(p) /\ m.at = "callbacks"
    BY CallTypes DEF Waiting
  <2>2. Proper(<<m>> \o r, visited', v)
    BY <1>4, <1>5, <2>1, ProperPush
  <2> QED BY <1>1, <1>3, <1>5, <2>1, <2>2
<1>6. CASE InvalidateOwner
  <2>1. f.at = "owner" /\ visited' = visited
    BY <1>3, <1>6 DEF InvalidateOwner, InCall
  <2>2. r = <<>> \/ (Len(r) = 2 /\ Loops(r[1]) /\ r[2].at = "owner")
    BY <1>4, <2>1 DEF Above, Links
  <2>3. CASE stack' = r
    <3>1. Proper(r, Looping(r), v)
      BY <1>4, <2>2, ProperPop
    <3> QED BY <1>1, <1>3, <1>4, <2>1, <2>3, <3>1
  <2>4. CASE Owner(f.prop) # NoProperty /\ stack' = <<Modified(Owner(f.prop))>> \o r
    <3>1. PICK p \in Composite : p = Owner(f.prop)
      BY <2>4, OwnerType
    <3>2. Modified(p).at = "callbacks" /\ Modified(p).prop = p /\ p \in Property
      BY DEF Modified, Call, Property
    <3>3. Above(Modified(p), r)
      BY <2>2, <3>2 DEF Above, Changed
    <3> QED BY <1>5, <2>1, <2>4, <3>1, <3>2, <3>3
  <2> QED BY <1>3, <1>6, <2>3, <2>4 DEF InvalidateOwner
<1>7. CASE Converted
  <2>1. f.at = "convert" /\ stack' = r /\ visited' = visited \ Ends(f.list) /\ f.i > Len(f.list)
    BY <1>3, <1>7 DEF Converted, InCall
  <2>2. \/ Len(r) = 1 /\ r[1].at = "owner"
        \/ /\ Len(r) = 3 /\ r[1].at = "owner" /\ Loops(r[2]) /\ r[3].at = "owner"
           /\ f.list = <<>>
    BY <1>4, <2>1, LinksAssumption DEF Above, Links, Changed
  <2>3. visited' = Looping(r)
    <3>1. CASE f.list = <<>>
      <4>1. Ends(f.list) = {}
        BY <3>1 DEF Ends
      <4> QED BY <1>4, <2>1, <4>1
    <3>2. CASE Len(r) = 1 /\ r[1].at = "owner"
      <4>1. Looping(r) = {}
        BY <3>2, LenProperties DEF Looping
      <4> QED BY <1>4, <2>1, <4>1
    <3> QED BY <2>2, <3>1, <3>2
  <2>4. Proper(r, Looping(r), v)
    BY <1>4, <2>2, ProperPop
  <2> QED BY <1>1, <1>3, <2>1, <2>3, <2>4
<1>8. CASE ElementRemoved
  <2>1. f.at = "remove" /\ stack' = <<Modified(f.prop)>> \o r /\ visited' = visited
    BY <1>3, <1>8 DEF ElementRemoved, InCall
  <2>2. r = <<>>
    BY <1>4, <2>1 DEF Above, Links, Changed
  <2>3. Modified(f.prop).at = "callbacks"
    BY DEF Modified, Call
  <2>4. Above(Modified(f.prop), r)
    BY <2>2, <2>3 DEF Above
  <2> QED BY <1>4, <1>5, <2>1, <2>4
<1> QED BY <1>6, <1>7, <1>8

LEMMA LinksInvStep ==
  ASSUME LinksInv, [LinksNext]_linksVars
  PROVE  LinksInv'
<1>1. CacheInv /\ CacheInv' /\ callbacks \in Nat
  BY CacheStep DEF LinksInv
<1>2. callbacks' \in Nat /\ (callbacks' = 0 => callbacks = 0 /\ ~ Callback)
  <2>1. CASE Callback
    BY <1>1, <2>1 DEF Callback
  <2>2. CASE UNCHANGED callbacks /\ ~ Callback
    BY <1>1, <2>2
  <2> QED BY <2>1, <2>2
      DEF LinksNext, LinksStep, User, linksVars, SetProperty, ChangeLinks, AddElement, RemoveElement,
          Insert, RemoveFrom, InvalidateOwner, EvaluateLinks, LookAtLink, FollowLinks, Collected,
          Convert, Converted, SetElement, RemoveLinkOfElement, ElementRemoved, RemoveSurplus,
          CloneMissing, SetDone
<1>3. SUFFICES ASSUME Plain' PROVE Proper(stack', visited', value')
  BY <1>1, <1>2 DEF LinksInv
<1>4. CASE User
  BY <1>1, <1>4, ProperUser
<1>5. CASE ~ User
  <2>1. links' = links \/ RemoveLinkOfElement
    BY <1>5 DEF LinksNext, LinksStep, linksVars, networkVars,
          Insert, RemoveFrom, Callback, InvalidateOwner, EvaluateLinks, LookAtLink, FollowLinks,
          Collected, Convert, Converted, SetElement, ElementRemoved, RemoveSurplus, CloneMissing, SetDone
  <2>2. links \subseteq Leaf \X Leaf
    <3>1. CASE links' = links
      BY <1>3, <3>1 DEF Plain
    <3>2. CASE RemoveLinkOfElement
      <4>1. PICK link \in Involving(Top.from) : links' = links \ {link}
        BY <3>2 DEF RemoveLinkOfElement, RemoveLink
      <4>2. Top.from \in Leaf
        <5>1. stack # <<>> /\ Top.at = "remove"
          BY <3>2 DEF RemoveLinkOfElement, InCall
        <5> QED BY <1>1, <5>1, TopOf DEF Calls
      <4>3. link \in links /\ (link[1] \in Leaf \/ link[2] \in Leaf)
        BY <4>1, <4>2 DEF Involving
      <4>4. link \in Leaf \X Leaf
        BY <1>1, <4>3, LinkEnds DEF CacheInv, Types
      <4>5. links' \subseteq Leaf \X Leaf
        BY <1>3 DEF Plain
      <4> QED BY <4>1, <4>4, <4>5
    <3> QED BY <2>1, <3>1, <3>2
  <2>3. Plain /\ Proper(stack, visited, value) /\ ~ Callback
    BY <1>2, <1>3, <2>2 DEF Plain, LinksInv
  <2>4. CASE UNCHANGED <<value, visited, stack>>
    BY <2>3, <2>4
  <2>5. stack # <<>> => Top.at # "set"
    <3>1. stack # <<>> => Above(Top, Rest)
      BY <2>3 DEF Proper, Top, Rest
    <3> QED BY <3>1 DEF Above, Links, Changed
  <2>6. ~ SetElement /\ ~ RemoveSurplus /\ ~ CloneMissing /\ ~ SetDone
    BY <2>5 DEF SetElement, RemoveSurplus, CloneMissing, SetDone, InCall
  <2>7. LookAtLink \/ FollowLinks \/ RemoveLinkOfElement \/ UNCHANGED linksVars
          => UNCHANGED <<value, visited, stack>>
    BY DEF LookAtLink, FollowLinks, RemoveLinkOfElement, linksVars
  <2>8. \/ UNCHANGED <<value, visited, stack>> \/ EvaluateLinks \/ Collected \/ Convert
        \/ InvalidateOwner \/ Converted \/ ElementRemoved
    BY <1>5, <2>3, <2>6, <2>7 DEF LinksNext, LinksStep
  <2> QED BY <1>1, <2>3, <2>4, <2>8, ProperEvaluate, ProperCollected, ProperConvert, ProperReturns
<1> QED BY <1>4, <1>5

LEMMA LinksInvInit ==
  ASSUME LinksInit
  PROVE  LinksInv
<1>1. CacheInv /\ stack = <<>> /\ callbacks = 0
  BY CacheInit DEF LinksInit
<1>2. LinksTypeOK
  BY <1>1 DEF CacheInv, Types
<1>3. Proper(stack, visited, value)
  BY <1>1, <1>2, ProperIdle
<1> QED BY <1>1, <1>3 DEF LinksInv

\* When the loop over the links of a property ends, every destination has the value of its
\* source, and no link that was evaluated later has changed either.
THEOREM LinkedAgree == LinksSpec => []LinksAgree
<1>1. LinksInit => LinksInv
  BY LinksInvInit
<1>2. LinksInv /\ [LinksNext]_linksVars => LinksInv'
  BY LinksInvStep
<1>3. LinksInv => LinksAgree
  <2>1. SUFFICES ASSUME LinksInv, Plain, InCall("convert"), Top.i > Len(Top.list),
                        NEW k \in DOMAIN Top.list
                 PROVE  value[Top.list[k][2]] = Clamp(Top.list[k][2], value[Top.list[k][1]])
    BY DEF LinksAgree
  <2>2. /\ Top \in Calls /\ Top.at = "convert" /\ Top.i \in Nat \ {0} /\ Agree(Top, value)
    BY <2>1, ProperTop DEF InCall, LinksInv
  <2>3. Top.list \in Seq(Link)
    BY <2>2 DEF Calls
  <2>4. k \in 1 .. Len(Top.list) /\ Len(Top.list) \in Nat
    BY <2>1, <2>3, LenProperties
  <2>5. k < Top.i
    BY <2>1, <2>2, <2>4
  <2> QED BY <2>1, <2>2, <2>5 DEF Agree
<1> QED BY <1>1, <1>2, <1>3, PTL DEF LinksSpec

\* The links of a property are not evaluated while they are evaluated.
THEOREM NoneCircular == LinksSpec => []NoCircularLinks
<1>1. LinksInit => LinksInv
  BY LinksInvInit
<1>2. LinksInv /\ [LinksNext]_linksVars => LinksInv'
  BY LinksInvStep
<1>3. LinksInv => NoCircularLinks
  <2>1. SUFFICES ASSUME LinksInv, Plain, NEW j \in DOMAIN stack, NEW k \in DOMAIN stack,
                        stack[j].at = "convert", stack[k].at = "convert", stack[j].prop = stack[k].prop
                 PROVE  j = k
    BY DEF NoCircularLinks
  <2>2. stack # <<>> /\ CacheInv /\ StackOK(stack)
    BY <2>1 DEF LinksInv, CacheInv, Types
  <2>3. Top \in Calls /\ Rest \in Seq(Waiting) /\ Above(Top, Rest) /\ Len(Rest) \in Nat
    BY <2>1, <2>2, ProperTop DEF LinksInv
  <2>4. PICK f \in Calls, r \in Seq(Waiting), s \in Seq(Calls) : f = Top /\ r = Rest /\ s = stack
    BY <2>2, <2>3 DEF StackOK
  <2>5. /\ DOMAIN s = 1 .. Len(r) + 1 /\ s[1] = f /\ Len(r) \in Nat
        /\ \A i \in 1 .. Len(r) : s[i + 1] = r[i]
    <3>1. /\ Len(stack) = Len(Rest) + 1 /\ DOMAIN stack = 1 .. Len(stack)
          /\ \A i \in 1 .. Len(Rest) : Rest[i] = stack[i + 1]
      BY <2>2, Pop DEF Rest
    <3> QED BY <2>3, <2>4, <3>1 DEF Top
  <2>6. ASSUME NEW m \in 1 .. Len(r) PROVE s[m + 1] = r[m]
    BY <2>5
  <2>7. ASSUME NEW m \in DOMAIN s, s[m].at = "convert", m # 1
        PROVE  \/ m = 2 /\ Len(r) = 2 /\ s[1].at \in {"callbacks", "owner"}
               \/ m = 3 /\ Len(r) = 3 /\ s[3].prop \in Leaf /\ s[1].prop \in Composite
    <3>1. m - 1 \in 1 .. Len(r) /\ (m - 1) + 1 = m
      BY <2>5, <2>7
    <3>2. r[m - 1].at = "convert" /\ r[m - 1] = s[m]
      BY <2>6, <2>7, <3>1
    <3>3. PICK n \in Nat, l \in Nat : n = m - 1 /\ l = Len(r) /\ n >= 1 /\ n <= l /\ n + 1 = m
      BY <2>5, <3>1
    <3>4. Above(f, r)
      BY <2>3, <2>4
    <3>5. CASE l = 1 /\ r[1].at = "owner"
      <4>1. n = 1
        BY <3>3, <3>5
      <4> QED BY <3>2, <3>3, <3>5, <4>1
    <3>6. CASE l = 2 /\ r[2].at = "owner" /\ Changed(f)
      <4>1. n = 1
        <5>1. n # 2
          BY <3>2, <3>3, <3>6
        <5> QED BY <3>3, <3>6, <5>1
      <4> QED BY <2>5, <3>3, <3>6, <4>1 DEF Changed
    <3>7. CASE /\ l = 3 /\ r[1].at = "owner" /\ Loops(r[2]) /\ r[3].at = "owner"
               /\ f.prop \in Composite
      <4>1. n # 1 /\ n # 3
        BY <3>2, <3>3, <3>7
      <4>2. n = 2 /\ m = 3
        BY <3>3, <3>7, <4>1
      <4> QED BY <2>5, <3>2, <3>3, <3>7, <4>2 DEF Loops
    <3>8. r # <<>>
      BY <3>3, LenProperties, EmptySeq
    <3> QED BY <3>3, <3>4, <3>5, <3>6, <3>7, <3>8 DEF Above
  <2>8. ASSUME NEW m \in DOMAIN s, s[m].at = "convert", m # 1
        PROVE  \/ m = 2 /\ Len(r) = 2 /\ s[1].at # "convert"
               \/ m = 3 /\ Len(r) = 3 /\ s[3].prop # s[1].prop
    BY <2>7, <2>8, LinksAssumption
  <2>9. j \in DOMAIN s /\ k \in DOMAIN s /\ s[j].at = "convert" /\ s[k].at = "convert"
        /\ s[j].prop = s[k].prop
    BY <2>1, <2>4
  <2>10. /\ j = 1 \/ (j = 2 /\ Len(r) = 2 /\ s[1].at # "convert")
                 \/ (j = 3 /\ Len(r) = 3 /\ s[3].prop # s[1].prop)
         /\ k = 1 \/ (k = 2 /\ Len(r) = 2 /\ s[1].at # "convert")
                 \/ (k = 3 /\ Len(r) = 3 /\ s[3].prop # s[1].prop)
    BY <2>8, <2>9
  <2>11. CASE j = 1 /\ k # 1
    <3>1. s[1].at = "convert" /\ s[k].prop = s[1].prop
      BY <2>9, <2>11
    <3>2. k = 3 /\ s[3].prop # s[1].prop
      BY <2>10, <2>11, <3>1
    <3> QED BY <3>1, <3>2
  <2>12. CASE k = 1 /\ j # 1
    <3>1. s[1].at = "convert" /\ s[j].prop = s[1].prop
      BY <2>9, <2>12
    <3>2. j = 3 /\ s[3].prop # s[1].prop
      BY <2>10, <2>12, <3>1
    <3> QED BY <3>1, <3>2
  <2>13. CASE j # 1 /\ k # 1
    <3>1. /\ (j = 2 /\ Len(r) = 2) \/ (j = 3 /\ Len(r) = 3)
          /\ (k = 2 /\ Len(r) = 2) \/ (k = 3 /\ Len(r) = 3)
      BY <2>10, <2>13
    <3>2. 2 # 3
      OBVIOUS
    <3> QED BY <3>1, <3>2
  <2> QED BY <2>11, <2>12, <2>13
<1> QED BY <1>1, <1>2, <1>3, PTL DEF LinksSpec
=============================================================================
