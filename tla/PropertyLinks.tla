--------------------------- MODULE PropertyLinks ---------------------------
(***************************************************************************)
(* Links between properties (links/linkevaluator) and the propagation of a *)
(* change along them (properties/property, compositeproperty,              *)
(* listproperty).                                                          *)
(*                                                                         *)
(* A change of a property runs its callbacks, evaluates its links and then *)
(* modifies the composite property that owns it, which has links of its    *)
(* own.  Evaluating the links of a property sets every property it is      *)
(* linked to, directly or not, in the order of a cached list; setting one  *)
(* is again a change.  All of it is one thread and one stack of calls,     *)
(* which is the variable stack: a step runs the call on top of it up to    *)
(* the next call it makes.                                                 *)
(*                                                                         *)
(* The first time the links of a property are evaluated its list is made:  *)
(* a search through the links, depth first, with a list of what is still   *)
(* to be looked at.                                                        *)
(*                                                                         *)
(* A list is a composite whose elements come and go.  Setting a list from  *)
(* another one removes the elements it has too many and clones those it    *)
(* lacks; removing an element removes its links.                           *)
(***************************************************************************)
EXTENDS Naturals, FiniteSets, SequencesExt

CONSTANTS
  Leaf,         \* the properties with a value, elements of lists included
  Composite,    \* the composite properties
  List,         \* those of them that are lists
  Elements,     \* the elements each composite may have
  Bound,        \* the largest value a leaf accepts
  Value,        \* the values
  Linkable,     \* the properties that are linked
  MaxLinks,     \* bound on the number of links
  MaxCallbacks, \* bound on the properties set by callbacks
  NoProperty    \* no property

Property == Leaf \cup Composite

\* A property is in one place only; the elements of lists are leaves.
ASSUME LinksAssumption ==
  /\ Leaf \cap Composite = {} /\ List \subseteq Composite /\ NoProperty \notin Property
  /\ Elements \in [Composite -> Seq(Property)] /\ \A c \in List : Elements[c] \in Seq(Leaf)
  /\ \A c, d \in Composite : \A i \in DOMAIN Elements[c], j \in DOMAIN Elements[d] :
       Elements[c][i] = Elements[d][j] => c = d /\ i = j
  /\ Value \subseteq Nat /\ 0 \in Value /\ Bound \in [Leaf -> Value] /\ Linkable \subseteq Property
  /\ MaxLinks \in Nat /\ MaxCallbacks \in Nat

VARIABLES
  children,  \* properties_ of each composite
  value,     \* value_ of each leaf
  links,     \* links_ of the network
  primary,   \* propertyLinkPrimaryCache_: the direct destinations of each property
  secondary, \* propertyLinkSecondaryCache_: the list of each property that has one
  visited,   \* visited_
  stack,     \* the calls in progress, the innermost first
  found,     \* the list that is being made
  todo,      \* what is still to be looked at for it
  callbacks  \* the number of properties set by callbacks

networkVars == <<links, primary, secondary>>
searchVars == <<found, todo>>
linksVars == <<children, value, networkVars, visited, stack, searchVars, callbacks>>

Link == Property \X Property

\* getOwner.
Owner(p) ==
  LET owners == {c \in Composite : Contains(children[c], p)}
  IN IF owners = {} THEN NoProperty ELSE CHOOSE c \in owners : TRUE

Children(p) == IF p \in Composite THEN children[p] ELSE <<>>

\* The properties that are in the network: all but the elements a list lacks.
Present == {p \in Property : Owner(p) # NoProperty
                             \/ \A c \in Composite : ~ Contains(Elements[c], p)}

\* Properties of one type can be linked: leaves, plain composites and lists.
canLink(src, dst) ==
  \E type \in {Leaf, Composite \ List, List} : {src, dst} \subseteq type \cap Linkable

-----------------------------------------------------------------------------
(***************************************************************************)
(* The links of the network and the cache of the direct ones.              *)
(***************************************************************************)

AddLink(src, dst) ==
  /\ Cardinality(links) < MaxLinks
  /\ <<src, dst>> \notin links /\ canLink(src, dst) /\ {src, dst} \subseteq Present
  /\ links' = links \cup {<<src, dst>>}
  /\ primary' = [primary EXCEPT ![src] = Append(@, dst)]
  /\ secondary' = <<>>

\* Mutant: the lists are kept.
RemoveLinkKeeping(link) ==
  /\ link \in links /\ links' = links \ {link}
  /\ \E i \in DOMAIN primary[link[1]] :
       /\ primary[link[1]][i] = link[2]
       /\ primary' = [primary EXCEPT ![link[1]] = RemoveAt(@, i)]
  /\ UNCHANGED secondary

RemoveLink(link) ==
  /\ link \in links /\ links' = links \ {link}
  /\ \E i \in DOMAIN primary[link[1]] :
       /\ primary[link[1]][i] = link[2]
       /\ primary' = [primary EXCEPT ![link[1]] = RemoveAt(@, i)]
  /\ secondary' = <<>>

Involving(p) == {link \in links : p \in {link[1], link[2]}}

-----------------------------------------------------------------------------
(***************************************************************************)
(* The stack of calls.                                                     *)
(***************************************************************************)

\* propertyModified of p: "callbacks", then "owner".  evaluateLinks of p: "collect",
\* then "convert", at link i of the list.  set of the composite p from another one:
\* "set", at element i of the list, of which the first count are kept.  Removing an
\* element from p: "remove".
Call(at, p) == [at |-> at, prop |-> p, from |-> NoProperty, list |-> <<>>, count |-> 0, i |-> 1]

Modified(p) == Call("callbacks", p)

Converting(p, list) == [Call("convert", p) EXCEPT !.list = list]

Setting(dst, src) ==
  [Call("set", dst) EXCEPT !.from = src, !.list = children[dst],
     !.count = IF Len(children[src]) < Len(children[dst])
               THEN Len(children[src]) ELSE Len(children[dst])]

Top == stack[1]
Rest == Tail(stack)
InCall(at) == stack # <<>> /\ Top.at = at

Clamp(p, v) == IF v > Bound[p] THEN Bound[p] ELSE v

\* set of a leaf, called from the calls in below.
Assign(p, v, below) ==
  /\ value' = [value EXCEPT ![p] = Clamp(p, v)]
  /\ stack' = IF Clamp(p, v) = value[p] THEN below ELSE <<Modified(p)>> \o below

\* set of a property from another one: nothing if they are of different types.  A list is
\* a composite, which a plain one can be set from.
SetFrom(dst, src, below) ==
  IF {dst, src} \subseteq Leaf THEN Assign(dst, value[src], below)
  ELSE /\ UNCHANGED value
       /\ stack' = IF \/ {dst, src} \subseteq List
                     \/ /\ dst \in Composite \ List /\ src \in Composite
                        /\ Len(children[dst]) = Len(children[src])
                   THEN <<Setting(dst, src)>> \o below ELSE below

\* onChangeCallback_: a callback may set another property.
Callback ==
  /\ InCall("callbacks")
  /\ callbacks < MaxCallbacks /\ callbacks' = callbacks + 1
  /\ \E p \in (Leaf \cap Present) \ {Top.prop}, v \in Value : Assign(p, v, stack)
  /\ UNCHANGED <<children, networkVars, visited, searchVars>>

\* owner->invalidate: a composite is modified itself.
InvalidateOwner ==
  /\ InCall("owner")
  /\ LET owner == Owner(Top.prop)
     IN stack' = IF owner = NoProperty THEN Rest ELSE <<Modified(owner)>> \o Rest
  /\ UNCHANGED <<children, value, networkVars, visited, searchVars, callbacks>>

-----------------------------------------------------------------------------
(***************************************************************************)
(* Evaluating the links of a property.                                     *)
(***************************************************************************)

Ends(list) == UNION {{list[k][1], list[k][2]} : k \in DOMAIN list}

\* What is to be looked at: a link, the links of a property, or also those of its owners.
Item(op, p, to) == [op |-> op, prop |-> p, to |-> to]

Outgoing(p) == [k \in DOMAIN primary[p] |-> Item("look", p, primary[p][k])]

Onward(p) ==
  Outgoing(p) \o IF Owner(p) = NoProperty THEN <<>>
                 ELSE <<Item("climb", Owner(p), NoProperty)>>

Below(p) == [k \in DOMAIN Children(p) |-> Item("follow", Children(p)[k], NoProperty)]

\* The loop over the list of p begins: VisitedHelper.
StartLoop(p, list, below) ==
  /\ stack' = <<Converting(p, list)>> \o below
  /\ visited' = visited \cup Ends(list)

\* getTriggerdLinksForProperty.
Triggered(p, below) ==
  IF p \in DOMAIN secondary THEN StartLoop(p, secondary[p], below) /\ UNCHANGED searchVars
  ELSE /\ stack' = <<Call("collect", p)>> \o below
       /\ found' = <<>> /\ todo' = Outgoing(p) /\ UNCHANGED visited

\* Mutant: links are evaluated whoever is visited.
EvaluateLinksAlways ==
  /\ InCall("callbacks")
  /\ Triggered(Top.prop, <<[Top EXCEPT !.at = "owner"]>> \o Rest)
  /\ UNCHANGED <<children, value, networkVars, callbacks>>

\* After the callbacks: evaluateLinksFromProperty.
EvaluateLinks ==
  /\ InCall("callbacks")
  /\ LET below == <<[Top EXCEPT !.at = "owner"]>> \o Rest
     IN IF Top.prop \in visited THEN stack' = below /\ UNCHANGED <<visited, searchVars>>
        ELSE Triggered(Top.prop, below)
  /\ UNCHANGED <<children, value, networkVars, callbacks>>

\* secondaryCacheHelper: a link to a property that is in the list is left, another one
\* is added, and the links of its destination, of the owners and of the children of
\* that are looked at before the rest.
LookAtLink ==
  /\ InCall("collect") /\ todo # <<>>
  /\ LET next == Head(todo)
     IN /\ next.op = "look"
        /\ IF next.to = next.prop \/ next.to \in Ends(found)
           THEN todo' = Tail(todo) /\ UNCHANGED found
           ELSE /\ found' = Append(found, <<next.prop, next.to>>)
                /\ todo' = Onward(next.to) \o Below(next.to) \o Tail(todo)
  /\ UNCHANGED <<children, value, networkVars, visited, stack, callbacks>>

FollowLinks ==
  /\ InCall("collect") /\ todo # <<>>
  /\ LET next == Head(todo)
     IN \/ next.op = "climb" /\ todo' = Onward(next.prop) \o Tail(todo)
        \/ next.op = "follow" /\ todo' = Outgoing(next.prop) \o Tail(todo)
  /\ UNCHANGED <<children, value, networkVars, visited, stack, found, callbacks>>

\* addToSecondaryCache returns.
Collected ==
  /\ InCall("collect") /\ todo = <<>>
  /\ StartLoop(Top.prop, found, Rest)
  /\ secondary' = [p \in DOMAIN secondary \cup {Top.prop} |->
                     IF p = Top.prop THEN found ELSE secondary[p]]
  /\ found' = <<>>
  /\ UNCHANGED <<children, value, links, primary, todo, callbacks>>

\* Mutants: the loop is left after the first link, and it stays where it is.
ConvertOnce ==
  /\ InCall("convert") /\ Top.i <= Len(Top.list)
  /\ LET link == Top.list[Top.i]
     IN SetFrom(link[2], link[1], <<[Top EXCEPT !.i = Len(Top.list) + 1]>> \o Rest)
  /\ UNCHANGED <<children, networkVars, visited, searchVars, callbacks>>

ConvertAgain ==
  /\ InCall("convert") /\ Top.i <= Len(Top.list)
  /\ LET link == Top.list[Top.i]
     IN SetFrom(link[2], link[1], stack)
  /\ UNCHANGED <<children, networkVars, visited, searchVars, callbacks>>

Convert ==
  /\ InCall("convert") /\ Top.i <= Len(Top.list)
  /\ LET link == Top.list[Top.i]
     IN SetFrom(link[2], link[1], <<[Top EXCEPT !.i = @ + 1]>> \o Rest)
  /\ UNCHANGED <<children, networkVars, visited, searchVars, callbacks>>

Converted ==
  /\ InCall("convert") /\ Top.i > Len(Top.list)
  /\ visited' = visited \ Ends(Top.list)
  /\ stack' = Rest
  /\ UNCHANGED <<children, value, networkVars, searchVars, callbacks>>

-----------------------------------------------------------------------------
(***************************************************************************)
(* Composites and lists.                                                   *)
(***************************************************************************)

SetElement ==
  /\ InCall("set") /\ Top.i <= Top.count
  /\ SetFrom(Top.list[Top.i], children[Top.from][Top.i], <<[Top EXCEPT !.i = @ + 1]>> \o Rest)
  /\ UNCHANGED <<children, networkVars, visited, searchVars, callbacks>>

\* An element with this value is added to the list, by a call from below.
Insert(list, v, below) ==
  /\ \E k \in DOMAIN Elements[list] :
       LET e == Elements[list][k]
       IN /\ ~ Contains(children[list], e)
          /\ \A j \in 1 .. k - 1 : Contains(children[list], Elements[list][j])
          /\ children' = [children EXCEPT ![list] = Append(@, e)]
          /\ value' = [value EXCEPT ![e] = v]
  /\ stack' = <<Modified(list)>> \o below
  /\ UNCHANGED <<networkVars, visited, searchVars, callbacks>>

\* removeProperty: the network removes the links of the element, one after the other.
RemoveFrom(list, e, below) ==
  /\ stack' = <<[Call("remove", list) EXCEPT !.from = e]>> \o below
  /\ UNCHANGED <<children, value, networkVars, visited, searchVars, callbacks>>

RemoveLinkOfElement ==
  /\ InCall("remove") /\ \E link \in Involving(Top.from) : RemoveLink(link)
  /\ UNCHANGED <<children, value, visited, stack, searchVars, callbacks>>

ElementRemoved ==
  /\ InCall("remove") /\ Involving(Top.from) = {}
  /\ IF Contains(children[Top.prop], Top.from)
     THEN \E k \in DOMAIN children[Top.prop] :
            /\ children[Top.prop][k] = Top.from
            /\ children' = [children EXCEPT ![Top.prop] = RemoveAt(@, k)]
     ELSE UNCHANGED children
  /\ stack' = <<Modified(Top.prop)>> \o Rest
  /\ UNCHANGED <<value, networkVars, visited, searchVars, callbacks>>

RemoveSurplus ==
  /\ InCall("set") /\ Top.i > Top.count /\ Top.i <= Len(Top.list) /\ Top.prop \in List
  /\ RemoveFrom(Top.prop, Top.list[Top.i], <<[Top EXCEPT !.i = @ + 1]>> \o Rest)

Filled == Top.prop \in List => Len(children[Top.prop]) >= Len(children[Top.from])

CloneMissing ==
  /\ InCall("set") /\ Top.i > Len(Top.list) /\ ~ Filled
  /\ LET source == children[Top.from][Len(children[Top.prop]) + 1]
     IN Insert(Top.prop, value[source], stack)

SetDone ==
  /\ InCall("set") /\ Top.i > Len(Top.list) /\ Filled
  /\ stack' = <<Modified(Top.prop)>> \o Rest
  /\ UNCHANGED <<children, value, networkVars, visited, searchVars, callbacks>>

-----------------------------------------------------------------------------

LinksInit ==
  /\ children = [c \in Composite |-> IF c \in List THEN <<>> ELSE Elements[c]]
  /\ value = [p \in Leaf |-> 0]
  /\ links = {} /\ primary = [p \in Property |-> <<>>] /\ secondary = <<>>
  /\ visited = {} /\ stack = <<>> /\ found = <<>> /\ todo = <<>> /\ callbacks = 0

\* What the user does between two changes.
SetProperty ==
  /\ stack = <<>>
  /\ \E p \in Leaf \cap Present, v \in Value : Assign(p, v, <<>>)
  /\ UNCHANGED <<children, networkVars, visited, searchVars, callbacks>>

ChangeLinks ==
  /\ stack = <<>>
  /\ \E p, q \in Property : AddLink(p, q) \/ RemoveLink(<<p, q>>)
  /\ UNCHANGED <<children, value, visited, stack, searchVars, callbacks>>

AddElement ==
  /\ stack = <<>>
  /\ \E list \in List : Insert(list, 0, <<>>)

RemoveElement ==
  /\ stack = <<>>
  /\ \E list \in List : \E e \in ToSet(children[list]) : RemoveFrom(list, e, <<>>)

User == SetProperty \/ ChangeLinks \/ AddElement \/ RemoveElement

LinksStep ==
  \/ Callback \/ InvalidateOwner
  \/ EvaluateLinks \/ LookAtLink \/ FollowLinks \/ Collected \/ Convert \/ Converted
  \/ SetElement \/ RemoveLinkOfElement \/ ElementRemoved
  \/ RemoveSurplus \/ CloneMissing \/ SetDone

LinksNext == User \/ LinksStep

LinksSpec == LinksInit /\ [][LinksNext]_linksVars

\* A call that was made goes on until it returns.
FairLinksSpec == LinksSpec /\ WF_linksVars(LinksStep)

-----------------------------------------------------------------------------

\* The ends of the links that the loops among these calls go over.
Looping(calls) ==
  UNION {Ends(calls[k].list) : k \in {j \in DOMAIN calls : calls[j].at = "convert"}}

\* A property is visited only while a loop over links is in progress.
LinksTypeOK ==
  /\ children \in [Composite -> Seq(Property)]
  /\ \A c \in Composite : ToSet(children[c]) \subseteq ToSet(Elements[c])
  /\ value \in [Leaf -> Value]
  /\ links \subseteq Link /\ primary \in [Property -> Seq(Property)]
  /\ DOMAIN secondary \subseteq Property
  /\ visited \subseteq Looping(stack)

\* A composite that is p or around it, and a property whose links are followed from p.
Encloses(c, p) ==
  \/ c = p
  \/ /\ c \in Composite
     /\ \A S \in SUBSET Composite :
          (\A q \in S \cup {p} : Owner(q) \in S \cup {NoProperty}) => c \in S

Near(q, p) == Encloses(q, p) \/ Contains(Children(p), q)

\* Where the first k links of a list for p lead.
Reaches(p, list, k, q) == q = p \/ \E m \in 1 .. k : Near(q, list[m][2])

\* A list for p is what the links give: each starts where the property or the links before
\* it lead, to a property that is in none of them, and no other one does.
ListIsCurrent(p, list) ==
  /\ \A k \in DOMAIN list :
       /\ list[k] \in links /\ Reaches(p, list, k - 1, list[k][1])
       /\ list[k][2] # list[k][1] /\ \A j \in 1 .. k - 1 : list[k][2] \notin {list[j][1], list[j][2]}
  /\ \A link \in links :
       link[1] # link[2] /\ Reaches(p, list, Len(list), link[1]) => link[2] \in Ends(list)

\* Both caches are what the links give now, whatever was linked, unlinked, added and
\* removed: the cached list of a property leads wherever a change of it has to go.
CacheIsCurrent ==
  /\ links = UNION {{<<p, q>> : q \in ToSet(primary[p])} : p \in Property}
  /\ \A p \in DOMAIN secondary : ListIsCurrent(p, secondary[p])

\* No composites are linked, and callbacks have set nothing.
Plain == links \subseteq Leaf \X Leaf /\ callbacks = 0

\* When a loop over links ends, each destination has the value of its source.
LinksAgree ==
  Plain /\ InCall("convert") /\ Top.i > Len(Top.list) =>
    \A k \in DOMAIN Top.list :
      LET link == Top.list[k]
      IN value[link[2]] = Clamp(link[2], value[link[1]])

\* The links of a property are not evaluated while they are evaluated.
NoCircularLinks ==
  Plain =>
    \A j, k \in DOMAIN stack :
      stack[j].at = "convert" /\ stack[k].at = "convert" /\ stack[j].prop = stack[k].prop
        => j = k

\* The list a loop walks is the one in the cache.
LoopListStands ==
  \A k \in DOMAIN stack :
    stack[k].at = "convert" =>
      stack[k].prop \in DOMAIN secondary /\ secondary[stack[k].prop] = stack[k].list

\* A change ends.
PropagationEnds == []<>(stack = <<>>)
=============================================================================
