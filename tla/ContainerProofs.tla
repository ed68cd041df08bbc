-------------------------- MODULE ContainerProofs --------------------------
(***************************************************************************)
(* Theorems about Container, for any providers and dependency graph, any   *)
(* number of scopes and of instances.                                      *)
(***************************************************************************)
EXTENDS Container, FiniteSetTheorems, TLAPS

-----------------------------------------------------------------------------
(* The invariant.                                                            *)

Frame  == [key : Keys, args : Seq(Nat)]
Record == [key : Keys, args : Seq(Nat), owner : Containers, open : BOOLEAN]

\* What the maps hold; an instance is built from earlier ones.
StoreInv ==
  /\ providers \in [Keys -> Entry \cup {NoEntry}]
  /\ \A k \in Keys : providers[k] \in Entries[k] \cup {NoEntry}
  /\ parent \in [Containers -> Containers \cup {NoContainer}]
  /\ built \in Seq(Record)
  /\ instances \in [Containers -> [Keys -> Instances \cup {NoInstance}]]
  /\ \A i \in Instances : \A a \in DOMAIN built[i].args :
       built[i].args[a] \in 1 .. i - 1

\* A frame of the recursion: its key is registered, its arguments exist, and one
\* is missing as long as a call for it is further down the stack.
FrameOK(n) ==
  LET f == stack[n]
  IN  /\ providers[f.key] \in Entry
      /\ \A a \in DOMAIN f.args : f.args[a] \in Instances
      /\ Len(f.args) <= Len(providers[f.key].deps)
      /\ n < Len(stack) => Len(f.args) < Len(providers[f.key].deps)

\* No key is resolved within its own resolution, and the recursion runs only
\* during a Resolve, which never overlaps a Close.
StackInv ==
  /\ by \in Containers /\ goal \in Keys \cup {NoKey}
  /\ stack \in Seq(Frame)
  /\ goal = NoKey => stack = << >>
  /\ closing # NoContainer => goal = NoKey
  /\ closing \in closed \cup {NoContainer} /\ closed \subseteq Containers
  /\ \A n \in DOMAIN stack : FrameOK(n)
  /\ \A m, n \in DOMAIN stack : stack[m].key = stack[n].key => m = n

\* Every scope is below the root, where singletons are cached.
Exists(c) == c = Root \/ parent[c] # NoContainer

ScopesInv == /\ \A c \in Containers : Exists(c) => Root \in Above(c)
             /\ Exists(by)

\* An instance that its lifetime shares is cached where it is looked for, ...
CacheInv ==
  \A i \in Instances :
    LET k == built[i].key
    IN  /\ providers[k].lifetime = "singleton" => instances[Root][k] # NoInstance
        /\ providers[k].lifetime = "scoped" =>
             instances[built[i].owner][k] # NoInstance

\* ... and one that is under construction is not there twice.
PendingInv ==
  \A n \in DOMAIN stack :
    LET k == stack[n].key
    IN  \A i \in Instances : built[i].key = k =>
          /\ providers[k].lifetime # "singleton"
          /\ providers[k].lifetime = "scoped" => built[i].owner # by

\* The clean-up lists are in the order of construction and hold what is owed.
ListsInv ==
  /\ cleanups \in [Containers -> Seq(Nat)]
  /\ \A c \in Containers :
       /\ \A n \in DOMAIN cleanups[c] : cleanups[c][n] \in Instances
       /\ \A m, n \in DOMAIN cleanups[c] :
            m < n => cleanups[c][m] < cleanups[c][n]
       /\ \A i \in Instances :
            (\E n \in DOMAIN cleanups[c] : cleanups[c][n] = i)
              <=> /\ built[i].owner = c /\ built[i].open
                  /\ providers[built[i].key].closes

\* Only Close closes, and nothing is resolved in a container after its Close.
ClosedInv == /\ \A i \in Instances : ~built[i].open => built[i].owner \in closed
             /\ goal # NoKey => by \notin closed

ContainerInv == /\ StoreInv /\ StackInv /\ ScopesInv /\ CacheInv /\ PendingInv
                /\ ListsInv /\ ClosedInv /\ LifetimesHonoured /\ ClosedAfterUsers


-----------------------------------------------------------------------------
(* Sequences, the ancestors of a scope, and what resolve needs next.         *)

\* The last element of a sequence and what is before it.
LEMMA LastAndFront ==
  ASSUME NEW S, NEW s \in Seq(S), s # << >>
  PROVE  /\ Len(s) \in Nat \ {0} /\ Last(s) = s[Len(s)] /\ Last(s) \in S
         /\ Front(s) \in Seq(S) /\ Len(Front(s)) = Len(s) - 1
         /\ \A n \in 1 .. Len(s) - 1 : Front(s)[n] = s[n]
  <1>1. Len(s) \in Nat \ {0} /\ \A n \in 1 .. Len(s) : s[n] \in S
    OBVIOUS
  <1>2. Last(s) = s[Len(s)] /\ Last(s) \in S
    BY <1>1 DEF Last
  <1>3. Front(s) = [n \in 1 .. Len(s) - 1 |-> s[n]]
    BY <1>1 DEF Front
  <1>4. Len(s) - 1 \in Nat /\ 1 .. Len(s) - 1 \subseteq 1 .. Len(s)
    BY <1>1
  <1>5. Front(s) \in Seq(S) /\ Len(Front(s)) = Len(s) - 1
    BY <1>1, <1>3, <1>4
  <1> QED
    BY <1>1, <1>2, <1>3, <1>5

\* Every scope is above itself.
LEMMA AboveItself == ASSUME NEW c \in Containers PROVE c \in Above(c)
  BY DEF Above

\* Scoping keeps what was above: parents are set once.
LEMMA AboveGrows ==
  ASSUME \A d \in Containers : parent[d] # NoContainer => parent'[d] = parent[d],
         NEW c \in Containers
  PROVE  Above(c) \subseteq Above(c)'
  <1> SUFFICES ASSUME NEW d \in Above(c), NEW up \in SUBSET Containers, c \in up,
                      \A e \in up : parent'[e] \in up \cup {NoContainer}
               PROVE  d \in up
    BY DEF Above
  <1>1. \A e \in up : parent[e] \in up \cup {NoContainer}
    OBVIOUS
  <1> QED
    BY <1>1 DEF Above

\* A new scope has the ancestors of its parent above it, too.
LEMMA AboveParent ==
  ASSUME NEW c \in Containers, NEW child \in Containers, parent'[child] = c
  PROVE  Above(c)' \subseteq Above(child)'
  <1> SUFFICES ASSUME NEW d \in Above(c)', NEW up \in SUBSET Containers,
                      child \in up,
                      \A e \in up : parent'[e] \in up \cup {NoContainer}
               PROVE  d \in up
    BY DEF Above
  <1>1. c \in up
    BY NamesAssumption
  <1> QED
    BY <1>1 DEF Above

LEMMA ScopesStay == UNCHANGED parent => \A c \in Containers : Above(c)' = Above(c)
  BY DEF Above

\* What the registry knows of a key that has a provider.
LEMMA EntryOfKey ==
  ASSUME StoreInv, NEW k \in Keys, providers[k] # NoEntry
  PROVE  /\ providers[k] \in Entry /\ providers[k] \in Entries[k]
         /\ providers[k].deps \in Seq(Keys) /\ providers[k].lifetime \in Lifetimes
         /\ providers[k].closes \in BOOLEAN /\ providers[k].alias \in BOOLEAN
         /\ providers[k].alias => /\ Len(providers[k].deps) = 1
                                  /\ ~providers[k].closes
                                  /\ providers[k].lifetime = "singleton"
  <1>1. providers[k] \in Entry /\ providers[k] \in Entries[k]
    BY DEF StoreInv
  <1> QED
    BY <1>1, EntriesAssumption DEF Entry

\* The innermost frame of a recursion and its callers.
LEMMA Innermost ==
  ASSUME StoreInv, StackInv, stack # << >>
  PROVE  LET top == Last(stack) IN
         /\ Len(stack) \in Nat \ {0} /\ top = stack[Len(stack)] /\ top \in Frame
         /\ top.key \in Keys /\ providers[top.key] # NoEntry
         /\ top.args \in Seq(Instances)
         /\ Len(top.args) <= Len(providers[top.key].deps)
         /\ goal # NoKey
  <1> DEFINE top == Last(stack)
  <1>1. Len(stack) \in Nat \ {0} /\ top = stack[Len(stack)] /\ top \in Frame
    BY LastAndFront DEF StackInv
  <1>2. FrameOK(Len(stack))
    BY <1>1 DEF StackInv
  <1>3. top.key \in Keys /\ top.args \in Seq(Nat)
    BY <1>1 DEF Frame
  <1>4. top.args \in Seq(Instances)
    BY <1>1, <1>2, <1>3 DEF FrameOK
  <1> QED
    BY <1>1, <1>2, <1>3, <1>4, NamesAssumption DEF FrameOK, StackInv

\* What resolve needs next is a key; then each frame misses an argument.
LEMMA WantedKey ==
  ASSUME StoreInv, StackInv, Wanted # NoKey
  PROVE  /\ Wanted \in Keys /\ goal # NoKey
         /\ \A n \in DOMAIN stack :
              Len(stack[n].args) < Len(providers[stack[n].key].deps)
  <1>1. CASE stack = << >>
    BY <1>1 DEF Wanted, StackInv
  <1>2. CASE stack # << >>
    <2> DEFINE top  == Last(stack)
               deps == providers[top.key].deps
    <2>1. /\ Len(stack) \in Nat \ {0} /\ top = stack[Len(stack)]
          /\ top.key \in Keys /\ providers[top.key] # NoEntry
          /\ top.args \in Seq(Instances) /\ goal # NoKey
      BY <1>2, Innermost
    <2>2. deps \in Seq(Keys)
      BY <2>1, EntryOfKey
    <2>3. Len(top.args) < Len(deps) /\ Wanted = deps[Len(top.args) + 1]
      BY <1>2 DEF Wanted
    <2>4. Wanted \in Keys
      BY <2>1, <2>2, <2>3
    <2>5. \A n \in DOMAIN stack : n # Len(stack) => n < Len(stack)
      BY DEF StackInv
    <2> QED
      BY <2>1, <2>3, <2>4, <2>5 DEF StackInv, FrameOK
  <1> QED
    BY <1>1, <1>2

\* When nothing is missing, the innermost constructor has all its arguments.
LEMMA NothingWanted ==
  ASSUME StoreInv, StackInv, stack # << >>, Wanted = NoKey
  PROVE  Len(Last(stack).args) = Len(providers[Last(stack).key].deps)
  <1> DEFINE top  == Last(stack)
             deps == providers[top.key].deps
  <1>1. /\ top.key \in Keys /\ providers[top.key] # NoEntry
        /\ top.args \in Seq(Instances) /\ Len(top.args) <= Len(deps)
    BY Innermost
  <1>2. deps \in Seq(Keys)
    BY <1>1, EntryOfKey
  <1>3. Len(top.args) < Len(deps) => deps[Len(top.args) + 1] \in Keys
    BY <1>1, <1>2
  <1> QED
    BY <1>1, <1>2, <1>3, NamesAssumption DEF Wanted

\* The callers go on with one more argument; the Resolve ends with the last.
LEMMA Returning ==
  ASSUME NEW callers \in Seq(Frame), NEW i \in Nat, Return(callers, i)
  PROVE  /\ stack' \in Seq(Frame) /\ Len(stack') = Len(callers)
         /\ \A n \in DOMAIN callers :
              /\ stack'[n].key = callers[n].key
              /\ stack'[n].args = IF n = Len(callers)
                                  THEN Append(callers[n].args, i)
                                  ELSE callers[n].args
         /\ goal' = IF callers = << >> THEN NoKey ELSE goal
  <1>1. CASE callers = << >>
    BY <1>1 DEF Return
  <1>2. CASE callers # << >>
    <2> DEFINE top == callers[Len(callers)]
               new == [top EXCEPT !.args = Append(@, i)]
    <2>1. Len(callers) \in Nat \ {0} /\ top \in Frame
      BY <1>2
    <2>2. new \in Frame /\ new.key = top.key /\ new.args = Append(top.args, i)
      <3> DEFINE args == Append(top.args, i)
      <3>1. top.args \in Seq(Nat)
        BY <2>1 DEF Frame
      <3>2. args \in Seq(Nat)
        BY <3>1
      <3> HIDE DEF args
      <3>3. new = [top EXCEPT !.args = args]
        BY DEF args
      <3>4. [top EXCEPT !.args = args] \in Frame
        BY <2>1, <3>2 DEF Frame
      <3>5. new.key = top.key /\ new.args = args
        BY <2>1, <3>3 DEF Frame
      <3> QED
        BY <3>3, <3>4, <3>5 DEF args
    <2>3. stack' = [callers EXCEPT ![Len(callers)] = new] /\ goal' = goal
      BY <1>2 DEF Return
    <2> HIDE DEF new
    <2>4. stack' \in Seq(Frame) /\ Len(stack') = Len(callers)
      BY <2>1, <2>2, <2>3
    <2>5. \A n \in DOMAIN callers :
            stack'[n] = IF n = Len(callers) THEN new ELSE callers[n]
      BY <2>3
    <2> QED
      BY <1>2, <2>2, <2>3, <2>4, <2>5
  <1> QED
    BY <1>1, <1>2

-----------------------------------------------------------------------------
(* The recursion of resolve.                                                 *)

\* What the steps of a recursion leave alone.
Frozen == UNCHANGED <<providers, parent, closing, closed, by>>

\* A return keeps the stack in order when each caller misses an argument.
LEMMA StackReturns ==
  ASSUME StoreInv, StackInv, Frozen, goal # NoKey,
         Instances \subseteq Instances',
         NEW callers \in Seq(Frame), NEW i \in Nat, i \in Instances',
         Return(callers, i), Len(callers) <= Len(stack),
         \A n \in DOMAIN callers : callers[n] = stack[n],
         \A n \in DOMAIN callers :
           Len(callers[n].args) < Len(providers[callers[n].key].deps)
  PROVE  StackInv'
  <1>1. /\ stack' \in Seq(Frame) /\ Len(stack') = Len(callers)
        /\ \A n \in DOMAIN callers :
             /\ stack'[n].key = callers[n].key
             /\ stack'[n].args = IF n = Len(callers)
                                 THEN Append(callers[n].args, i)
                                 ELSE callers[n].args
        /\ goal' = IF callers = << >> THEN NoKey ELSE goal
    BY Returning
  <1>2. DOMAIN stack' = DOMAIN callers /\ DOMAIN callers \subseteq DOMAIN stack
    BY <1>1 DEF StackInv
  <1>3. ASSUME NEW n \in DOMAIN callers PROVE FrameOK(n)'
    <2> DEFINE f == callers[n]
               g == stack'[n]
    <2>1. /\ f \in Frame /\ g.key = f.key /\ g.key \in Keys
          /\ providers[f.key] \in Entry
          /\ \A a \in DOMAIN f.args : f.args[a] \in Instances
          /\ Len(f.args) < Len(providers[f.key].deps)
      <3>1. n \in DOMAIN stack /\ f = stack[n] /\ FrameOK(n)
        BY <1>2 DEF StackInv
      <3>2. g.key = f.key
        BY <1>1
      <3>3. f \in Frame /\ f.key \in Keys
        <4>1. f \in Frame
          OBVIOUS
        <4> QED
          BY <4>1 DEF Frame
      <3>4. /\ providers[f.key] \in Entry
            /\ \A a \in DOMAIN f.args : f.args[a] \in Instances
        BY <3>1 DEF FrameOK
      <3> QED
        BY <3>2, <3>3, <3>4
    <2>2. providers[f.key].deps \in Seq(Keys) /\ f.args \in Seq(Nat)
      BY <2>1 DEF Entry, Frame
    <2>3. CASE n = Len(callers)
      <3>0. g.args = Append(f.args, i)
        BY <1>1, <2>3
      <3>1. g.args = Append(f.args, i) /\ ~(n < Len(stack'))
        BY <1>1, <2>3, <3>0
      <3>2. \A a \in DOMAIN g.args : g.args[a] \in Instances'
        BY <2>1, <2>2, <3>1
      <3>3. Len(g.args) <= Len(providers[f.key].deps)
        BY <2>1, <2>2, <3>1
      <3> QED
        BY <2>1, <3>1, <3>2, <3>3 DEF FrameOK, Frozen
    <2>4. CASE n # Len(callers)
      <3>1. g.args = f.args
        BY <1>1, <2>4
      <3> QED
        BY <2>1, <2>2, <3>1 DEF FrameOK, Frozen
    <2> QED
      BY <2>3, <2>4
  <1>4. \A m, n \in DOMAIN stack' : stack'[m].key = stack'[n].key => m = n
    BY <1>1, <1>2 DEF StackInv
  <1>5. goal' \in Keys \cup {NoKey} /\ (goal' = NoKey => stack' = << >>)
    BY <1>1, NamesAssumption DEF StackInv
  <1>6. closing' = NoContainer
    BY NamesAssumption DEF StackInv, Frozen
  <1> QED
    BY <1>1, <1>2, <1>3, <1>4, <1>5, <1>6 DEF StackInv, Frozen

\* An error ends the recursion.
LEMMA StackFails == ASSUME StackInv, Fail PROVE StackInv'
  BY DEF StackInv, Fail, ending

\* The cached instance that resolve finds exists.
LEMMA CachedExists ==
  ASSUME StoreInv, StackInv, NEW k \in Keys, Cached(k) # NoInstance
  PROVE  Cached(k) \in Instances
  <1> DEFINE where == CASE providers[k].lifetime = "singleton" -> Above(by)
                        [] providers[k].lifetime = "scoped"    -> {by}
                        [] OTHER                               -> {}
             found == {instances[c][k] : c \in where} \ {NoInstance}
  <1>1. where \subseteq Containers
    BY DEF StackInv, Above
  <1>2. found \subseteq Instances
    BY <1>1 DEF StoreInv
  <1>3. Cached(k) = IF found = {} THEN NoInstance ELSE CHOOSE i \in found : TRUE
    BY DEF Cached
  <1> HIDE DEF found
  <1> QED
    BY <1>2, <1>3

\* Finding none, it finds none where the lifetime would share one.
LEMMA CachedNowhere ==
  ASSUME StoreInv, StackInv, ScopesInv, NEW k \in Keys, providers[k] # NoEntry,
         Cached(k) = NoInstance
  PROVE  /\ providers[k].lifetime = "singleton" => instances[Root][k] = NoInstance
         /\ providers[k].lifetime = "scoped" => instances[by][k] = NoInstance
  <1> DEFINE where == CASE providers[k].lifetime = "singleton" -> Above(by)
                        [] providers[k].lifetime = "scoped"    -> {by}
                        [] OTHER                               -> {}
             found == {instances[c][k] : c \in where} \ {NoInstance}
  <1>1. Cached(k) = IF found = {} THEN NoInstance ELSE CHOOSE i \in found : TRUE
    BY DEF Cached
  <1>2. found = {}
    <2> SUFFICES ASSUME found # {} PROVE FALSE
      OBVIOUS
    <2>1. (CHOOSE i \in found : TRUE) # NoInstance
      OBVIOUS
    <2> HIDE DEF found
    <2> QED
      BY <1>1, <2>1
  <1>3. \A c \in where : instances[c][k] = NoInstance
    BY <1>2
  <1>4. Root \in Above(by)
    BY DEF ScopesInv, StackInv
  <1>5. providers[k].lifetime = "singleton" => Root \in where
    BY <1>4
  <1>6. providers[k].lifetime = "scoped" => by \in where
    OBVIOUS
  <1> QED
    BY <1>3, <1>5, <1>6

-----------------------------------------------------------------------------
(* Construct: the instance it adds, the cache and the caller it returns to.  *)

Made == [key |-> Last(stack).key, args |-> Last(stack).args,
         owner |-> by, open |-> TRUE]

\* The instance that Construct returns: an alias hands its argument through.
Result == IF providers[Last(stack).key].alias THEN Last(stack).args[1]
          ELSE Len(built) + 1

LEMMA MadeRecord ==
  ASSUME StoreInv, StackInv, stack # << >>
  PROVE  /\ Made \in Record /\ Made.key = Last(stack).key
         /\ Made.args = Last(stack).args /\ Made.owner = by /\ Made.open = TRUE
  <1>1. Last(stack) \in Frame
    BY Innermost
  <1>2. Last(stack).key \in Keys /\ Last(stack).args \in Seq(Nat)
    BY <1>1 DEF Frame
  <1> QED
    BY <1>2 DEF Made, Record, StackInv

\* The instances are numbered in the order of construction.
LEMMA InstanceNumbers ==
  StoreInv => Instances = 1 .. Len(built) /\ Len(built) \in Nat
  BY DEF StoreInv, Instances

\* What has been built stays; a constructor that is no alias adds an instance.
LEMMA BuiltGrows ==
  ASSUME StoreInv, StackInv, Construct
  PROVE  /\ built' \in Seq(Record) /\ Result \in Instances'
         /\ Instances \subseteq Instances'
         /\ \A j \in Instances : built'[j] = built[j]
         /\ providers[Last(stack).key].alias => built' = built
         /\ ~providers[Last(stack).key].alias =>
              /\ Result = Len(built) + 1 /\ Result \notin Instances
              /\ Instances' = Instances \cup {Result}
              /\ built'[Result] = Made
  <1> DEFINE top   == Last(stack)
             entry == providers[top.key]
  <1>1. stack # << >> /\ Wanted = NoKey
    BY DEF Construct
  <1>2. /\ top.key \in Keys /\ providers[top.key] # NoEntry
        /\ top.args \in Seq(Instances) /\ Len(top.args) = Len(entry.deps)
    BY <1>1, Innermost, NothingWanted
  <1>3. /\ Made \in Record /\ built \in Seq(Record) /\ Instances = 1 .. Len(built)
    BY <1>1, MadeRecord, InstanceNumbers DEF StoreInv
  <1>4. built' = IF entry.alias THEN built ELSE Append(built, Made)
    BY DEF Construct, Made
  <1>5. CASE entry.alias
    <2>1. Len(top.args) = 1
      BY <1>2, <1>5, EntryOfKey
    <2>2. top.args[1] \in Instances
      BY <1>2, <2>1
    <2> QED
      BY <1>3, <1>4, <1>5, <2>2 DEF Result, Instances
  <1>6. CASE ~entry.alias
    <2>1. built' = Append(built, Made) /\ Result = Len(built) + 1
      BY <1>4, <1>6 DEF Result
    <2>2. built' \in Seq(Record) /\ Len(built') = Len(built) + 1
      BY <1>3, <2>1
    <2>3. \A j \in Instances : built'[j] = built[j]
      BY <1>3, <2>1
    <2>4. built'[Result] = Made
      BY <1>3, <2>1
    <2>5. Instances' = 1 .. Len(built')
      BY <2>2 DEF Instances
    <2>6. Instances' = Instances \cup {Result} /\ Result \notin Instances
      BY <1>3, <2>1, <2>2, <2>5
    <2> QED
      BY <1>6, <2>1, <2>2, <2>3, <2>4, <2>6
  <1> QED
    BY <1>5, <1>6

\* The cache learns of the result unless it is transient.
LEMMA CacheGrows ==
  ASSUME StoreInv, StackInv, Construct
  PROVE  /\ instances' \in [Containers -> [Keys -> Instances' \cup {NoInstance}]]
         /\ \A d \in Containers, k \in Keys :
              instances'[d][k] =
                IF /\ providers[Last(stack).key].lifetime # "transient"
                   /\ d = StoreIn(providers[Last(stack).key].lifetime)
                   /\ k = Last(stack).key
                THEN Result ELSE instances[d][k]
  <1> DEFINE top   == Last(stack)
             entry == providers[top.key]
             in    == StoreIn(entry.lifetime)
  <1>1. Result \in Instances' /\ Instances \subseteq Instances'
    BY BuiltGrows
  <1>2. instances' = IF entry.lifetime = "transient" THEN instances
                     ELSE [instances EXCEPT ![in][top.key] = Result]
    BY DEF Construct, Result
  <1>3. top.key \in Keys /\ in \in Containers
    BY Innermost, NamesAssumption DEF Construct, StoreIn, StackInv
  <1>4. instances \in [Containers -> [Keys -> Instances' \cup {NoInstance}]]
    BY <1>1 DEF StoreInv
  <1> HIDE DEF entry, in, top
  <1> QED
    BY <1>1, <1>2, <1>3, <1>4 DEF entry, in, top

\* The callers of the constructor, which all miss an argument.
LEMMA Callers ==
  ASSUME StoreInv, StackInv, stack # << >>
  PROVE  /\ Front(stack) \in Seq(Frame) /\ Len(Front(stack)) = Len(stack) - 1
         /\ Len(stack) \in Nat \ {0}
         /\ DOMAIN Front(stack) \subseteq DOMAIN stack
         /\ \A n \in DOMAIN Front(stack) :
              /\ n # Len(stack) /\ Front(stack)[n] = stack[n]
              /\ Len(stack[n].args) < Len(providers[stack[n].key].deps)
  <1>1. /\ Len(stack) \in Nat \ {0} /\ Front(stack) \in Seq(Frame)
        /\ Len(Front(stack)) = Len(stack) - 1
        /\ \A n \in 1 .. Len(stack) - 1 : Front(stack)[n] = stack[n]
    BY LastAndFront DEF StackInv
  <1>2. DOMAIN Front(stack) = 1 .. Len(stack) - 1 /\ DOMAIN stack = 1 .. Len(stack)
    BY <1>1 DEF StackInv
  <1>3. \A n \in 1 .. Len(stack) - 1 :
          Len(stack[n].args) < Len(providers[stack[n].key].deps)
    <2> SUFFICES ASSUME NEW n \in 1 .. Len(stack) - 1
                 PROVE  Len(stack[n].args) < Len(providers[stack[n].key].deps)
      OBVIOUS
    <2>1. n \in DOMAIN stack /\ n < Len(stack)
      BY <1>1, <1>2
    <2>2. FrameOK(n)
      BY <2>1 DEF StackInv
    <2> QED
      BY <2>1, <2>2 DEF FrameOK
  <1> QED
    BY <1>1, <1>2, <1>3

LEMMA ConstructStack == ASSUME StoreInv, StackInv, Construct PROVE StackInv'
  <1>1. stack # << >> /\ Return(Front(stack), Result) /\ Frozen
    BY DEF Construct, Result, Frozen, registry, ending
  <1>2. /\ Front(stack) \in Seq(Frame) /\ Len(Front(stack)) <= Len(stack)
        /\ \A n \in DOMAIN Front(stack) :
             /\ Front(stack)[n] = stack[n]
             /\ Len(Front(stack)[n].args)
                  < Len(providers[Front(stack)[n].key].deps)
    BY <1>1, Callers
  <1>3. Result \in Instances' /\ Instances \subseteq Instances' /\ Result \in Nat
    BY BuiltGrows DEF Instances
  <1>4. goal # NoKey
    BY <1>1, Innermost
  <1> QED
    BY <1>1, <1>2, <1>3, <1>4, StackReturns

LEMMA ConstructStore == ASSUME StoreInv, StackInv, Construct PROVE StoreInv'
  <1> DEFINE top == Last(stack)
  <1>1. /\ built' \in Seq(Record) /\ Instances \subseteq Instances'
        /\ \A j \in Instances : built'[j] = built[j]
        /\ \A j \in Instances' : j \notin Instances =>
             j = Len(built) + 1 /\ built'[j] = Made
    <2>1. CASE providers[top.key].alias
      BY <2>1, BuiltGrows DEF Instances
    <2>2. CASE ~providers[top.key].alias
      BY <2>2, BuiltGrows
    <2> QED
      BY <2>1, <2>2
  <1>2. UNCHANGED <<providers, parent>> /\ stack # << >>
    BY DEF Construct, registry
  <1>3. /\ Made.args \in Seq(Instances)
        /\ Instances = 1 .. Len(built)
        /\ Len(built) \in Nat
    BY <1>2, MadeRecord, Innermost, InstanceNumbers
  <1>4. ASSUME NEW j \in Instances', NEW a \in DOMAIN built'[j].args
        PROVE  built'[j].args[a] \in 1 .. j - 1
    <2>1. CASE j \in Instances
      BY <1>1, <1>4, <2>1 DEF StoreInv
    <2>2. CASE j \notin Instances
      BY <1>1, <1>3, <1>4, <2>2
    <2> QED
      BY <2>1, <2>2
  <1> QED
    BY <1>1, <1>2, <1>4, CacheGrows DEF StoreInv

\* The frames that are left when a constructor returns have other keys.
LEMMA ConstructKeys ==
  ASSUME StoreInv, StackInv, Construct, NEW n \in DOMAIN stack'
  PROVE  /\ n \in DOMAIN stack /\ stack'[n].key = stack[n].key
         /\ stack[n].key # Last(stack).key /\ stack[n].key \in Keys
  <1>1. stack # << >> /\ Return(Front(stack), Result)
    BY DEF Construct, Result
  <1>2. Result \in Nat
    BY BuiltGrows DEF Instances
  <1>3. /\ Len(stack) \in DOMAIN stack /\ Last(stack) = stack[Len(stack)]
        /\ DOMAIN Front(stack) \subseteq DOMAIN stack
        /\ \A m \in DOMAIN Front(stack) : m # Len(stack) /\ Front(stack)[m] = stack[m]
        /\ Front(stack) \in Seq(Frame)
    BY <1>1, Callers, LastAndFront DEF StackInv
  <1>4. /\ stack' \in Seq(Frame) /\ Len(stack') = Len(Front(stack))
        /\ \A m \in DOMAIN Front(stack) : stack'[m].key = Front(stack)[m].key
    BY <1>1, <1>2, <1>3, Returning
  <1>5. n \in DOMAIN Front(stack)
    BY <1>3, <1>4
  <1>6. n \in DOMAIN stack /\ n # Len(stack) /\ stack'[n].key = stack[n].key
    BY <1>3, <1>4, <1>5
  <1>7. stack[n].key # stack[Len(stack)].key
    BY <1>3, <1>6 DEF StackInv
  <1>8. stack[n].key \in Keys
    <2>1. stack[n] \in Frame
      BY <1>6 DEF StackInv
    <2> QED
      BY <2>1 DEF Frame
  <1> QED
    BY <1>3, <1>6, <1>7, <1>8

\* The instances after Construct: the ones before and, but for an alias, one more.
LEMMA ConstructInstances ==
  ASSUME StoreInv, StackInv, Construct, NEW j \in Instances'
  PROVE  \/ j \in Instances /\ built'[j] = built[j]
         \/ /\ j = Len(built) + 1 /\ j = Result /\ built'[j] = Made
            /\ ~providers[Last(stack).key].alias
  <1>1. CASE providers[Last(stack).key].alias
    BY <1>1, BuiltGrows DEF Instances
  <1>2. CASE ~providers[Last(stack).key].alias
    BY <1>2, BuiltGrows
  <1> QED
    BY <1>1, <1>2

LEMMA ConstructCache ==
  ASSUME StoreInv, StackInv, CacheInv, Construct
  PROVE  CacheInv'
  <1> DEFINE top == Last(stack)
  <1>1. Result # NoInstance
    BY BuiltGrows, NamesAssumption DEF Instances
  <1>2. /\ stack # << >> /\ top.key \in Keys /\ Root \in Containers
        /\ by \in Containers /\ UNCHANGED providers
    BY Innermost, NamesAssumption DEF Construct, StackInv, registry
  <1>3. \A d \in Containers, k \in Keys :
          instances[d][k] # NoInstance => instances'[d][k] # NoInstance
    BY <1>1, CacheGrows
  <1>4. ASSUME NEW i \in Instances' PROVE
          LET k == built'[i].key
          IN  /\ providers[k].lifetime = "singleton" => instances'[Root][k] # NoInstance
              /\ providers[k].lifetime = "scoped" =>
                   instances'[built'[i].owner][k] # NoInstance
    <2>1. CASE i \in Instances /\ built'[i] = built[i]
      <3>1. built[i].key \in Keys /\ built[i].owner \in Containers
        <4>1. built[i] \in Record
          BY <2>1 DEF StoreInv, Instances
        <4> QED
          BY <4>1 DEF Record
      <3> QED
        BY <1>2, <1>3, <2>1, <3>1 DEF CacheInv
    <2>2. CASE built'[i] = Made
      <3>1. built'[i].key = top.key /\ built'[i].owner = by
        BY <1>2, <2>2, MadeRecord
      <3>2. providers[top.key].lifetime = "singleton"
              => instances'[Root][top.key] = Result
        BY <1>2, CacheGrows DEF StoreIn
      <3>3. providers[top.key].lifetime = "scoped"
              => instances'[by][top.key] = Result
        BY <1>2, CacheGrows DEF StoreIn
      <3> QED
        BY <1>1, <3>1, <3>2, <3>3
    <2> QED
      BY <2>1, <2>2, ConstructInstances
  <1> QED
    BY <1>2, <1>4 DEF CacheInv

LEMMA ConstructPending ==
  ASSUME StoreInv, StackInv, PendingInv, Construct
  PROVE  PendingInv'
  <1> SUFFICES ASSUME NEW n \in DOMAIN stack', NEW i \in Instances',
                      built'[i].key = stack'[n].key
               PROVE  LET k == stack'[n].key
                      IN  /\ providers'[k].lifetime # "singleton"
                          /\ providers'[k].lifetime = "scoped" =>
                               built'[i].owner # by'
    BY DEF PendingInv
  <1>1. stack # << >> /\ UNCHANGED <<providers, by>>
    BY DEF Construct, registry
  <1>2. /\ n \in DOMAIN stack /\ stack'[n].key = stack[n].key
        /\ stack[n].key # Last(stack).key
    BY ConstructKeys
  <1>3. built'[i] # Made
    BY <1>1, <1>2, MadeRecord
  <1>4. i \in Instances /\ built'[i] = built[i]
    BY <1>3, ConstructInstances
  <1> QED
    BY <1>1, <1>2, <1>4 DEF PendingInv

LEMMA ConstructLifetimes ==
  ASSUME StoreInv, StackInv, PendingInv, LifetimesHonoured, Construct
  PROVE  LifetimesHonoured'
  <1> DEFINE Shared(r, s) ==
               /\ r.key = s.key
               /\ \/ providers[r.key].lifetime = "singleton"
                  \/ providers[r.key].lifetime = "scoped" /\ r.owner = s.owner
  <1>1. stack # << >> /\ UNCHANGED providers
    BY DEF Construct, registry
  <1>2. \A i \in Instances : ~Shared(built[i], Made) /\ ~Shared(Made, built[i])
    <2>1. Len(stack) \in DOMAIN stack /\ Last(stack) = stack[Len(stack)]
      BY <1>1, Innermost DEF StackInv
    <2>2. Made.key = stack[Len(stack)].key /\ Made.owner = by
      BY <1>1, <2>1, MadeRecord
    <2> QED
      BY <2>1, <2>2 DEF PendingInv
  <1>3. ASSUME NEW i \in Instances', NEW j \in Instances',
               Shared(built'[i], built'[j])
        PROVE  i = j
    <2> HIDE DEF Shared
    <2>1. CASE /\ i \in Instances
               /\ built'[i] = built[i]
               /\ j \in Instances
               /\ built'[j] = built[j]
      BY <1>3, <2>1 DEF LifetimesHonoured, Shared
    <2>2. CASE i \in Instances /\ built'[i] = built[i] /\ built'[j] = Made
      BY <1>2, <1>3, <2>2
    <2>3. CASE built'[i] = Made /\ j \in Instances /\ built'[j] = built[j]
      BY <1>2, <1>3, <2>3
    <2>4. CASE i = Result /\ j = Result
      BY <2>4
    <2> QED
      BY <2>1, <2>2, <2>3, <2>4, ConstructInstances
  <1> QED
    BY <1>1, <1>3 DEF LifetimesHonoured

\* One clean-up list: ascending, and exactly the instances that s picks.
Lists(q, s) ==
  /\ \A n \in DOMAIN q : q[n] \in s
  /\ \A i \in s : \E n \in DOMAIN q : q[n] = i
  /\ \A m, n \in DOMAIN q : m < n => q[m] < q[n]

\* What the clean-up list of a container should hold.
Owed(c) == {i \in Instances : /\ built[i].owner = c /\ built[i].open
                              /\ providers[built[i].key].closes}

ListsOwed == /\ cleanups \in [Containers -> Seq(Nat)]
             /\ \A c \in Containers : Lists(cleanups[c], Owed(c))

LEMMA ListsAreOwed == ListsInv <=> ListsOwed
  <1>1. ASSUME NEW c \in Containers
        PROVE  Lists(cleanups[c], Owed(c)) <=>
                 /\ \A n \in DOMAIN cleanups[c] : cleanups[c][n] \in Instances
                 /\ \A m, n \in DOMAIN cleanups[c] :
                      m < n => cleanups[c][m] < cleanups[c][n]
                 /\ \A i \in Instances :
                      (\E n \in DOMAIN cleanups[c] : cleanups[c][n] = i)
                        <=> /\ built[i].owner = c /\ built[i].open
                            /\ providers[built[i].key].closes
    BY DEF Lists, Owed
  <1> QED
    BY <1>1 DEF ListsInv, ListsOwed

\* A list grows by an element greater than all, ...
LEMMA ListsAppend ==
  ASSUME NEW q \in Seq(Nat), NEW s, Lists(q, s), NEW i \in Nat, \A j \in s : j < i
  PROVE  Lists(Append(q, i), s \cup {i})
  <1> DEFINE r == Append(q, i)
  <1>1. /\ DOMAIN q = 1 .. Len(q) /\ DOMAIN r = 1 .. Len(q) + 1 /\ Len(q) \in Nat
        /\ \A n \in 1 .. Len(q) : r[n] = q[n]
        /\ r[Len(q) + 1] = i
    OBVIOUS
  <1> HIDE DEF r
  <1>2. \A n \in DOMAIN r : n \in DOMAIN q \/ n = Len(q) + 1
    BY <1>1
  <1>3. \A n \in DOMAIN r : r[n] \in s \cup {i}
    BY <1>1, <1>2 DEF Lists
  <1>4. \A j \in s \cup {i} : \E n \in DOMAIN r : r[n] = j
    BY <1>1 DEF Lists
  <1>5. ASSUME NEW m \in DOMAIN r, NEW n \in DOMAIN r, m < n PROVE r[m] < r[n]
    <2>1. m \in DOMAIN q /\ r[m] = q[m] /\ q[m] \in s
      BY <1>1, <1>2, <1>5 DEF Lists
    <2> QED
      BY <1>1, <1>2, <1>5, <2>1 DEF Lists
  <1> QED
    BY <1>3, <1>4, <1>5 DEF Lists, r

\* ... and shrinks by its last, the greatest.
LEMMA ListsFront ==
  ASSUME NEW q \in Seq(Nat), NEW s, Lists(q, s), q # << >>
  PROVE  /\ Last(q) \in s /\ Lists(Front(q), s \ {Last(q)})
         /\ \A j \in s : j <= Last(q)
  <1>1. /\ Len(q) \in Nat \ {0} /\ Last(q) = q[Len(q)] /\ Last(q) \in Nat
        /\ Front(q) \in Seq(Nat) /\ Len(Front(q)) = Len(q) - 1
        /\ \A n \in 1 .. Len(q) - 1 : Front(q)[n] = q[n]
    BY LastAndFront
  <1>2. DOMAIN Front(q) = 1 .. Len(q) - 1 /\ DOMAIN q = 1 .. Len(q)
    BY <1>1
  <1>3. ASSUME NEW n \in 1 .. Len(q) - 1
        PROVE  q[n] < Last(q) /\ q[n] \in Nat /\ q[n] \in s
    <2>1. n \in DOMAIN q /\ Len(q) \in DOMAIN q /\ n < Len(q)
      BY <1>1, <1>2
    <2>2. q[n] \in Nat
      BY <2>1
    <2> QED
      BY <1>1, <2>1, <2>2 DEF Lists
  <1>4. ASSUME NEW n \in DOMAIN Front(q) PROVE Front(q)[n] \in s \ {Last(q)}
    <2>1. n \in 1 .. Len(q) - 1
      BY <1>2
    <2>2. Front(q)[n] = q[n]
      BY <1>1, <2>1
    <2> QED
      BY <1>1, <1>3, <2>1, <2>2
  <1>5. ASSUME NEW j \in s PROVE \E n \in DOMAIN q : q[n] = j
    BY DEF Lists
  <1>6. ASSUME NEW j \in s \ {Last(q)} PROVE \E n \in DOMAIN Front(q) : Front(q)[n] = j
    <2>1. PICK n \in DOMAIN q : q[n] = j
      BY <1>5
    <2>2. n \in 1 .. Len(q) - 1
      BY <1>1, <1>2, <2>1
    <2> QED
      BY <1>1, <1>2, <2>1, <2>2
  <1>7. \A j \in s : j <= Last(q)
    BY <1>1, <1>2, <1>3, <1>5
  <1>8. ASSUME NEW m \in DOMAIN Front(q), NEW n \in DOMAIN Front(q), m < n
        PROVE  Front(q)[m] < Front(q)[n]
    <2>1. m \in 1 .. Len(q) - 1 /\ n \in 1 .. Len(q) - 1
      BY <1>2
    <2>2. m \in DOMAIN q /\ n \in DOMAIN q
      <3>1. 1 .. Len(q) - 1 \subseteq DOMAIN q
        BY <1>1
      <3> QED
        BY <2>1, <3>1
    <2>3. Front(q)[m] = q[m] /\ Front(q)[n] = q[n]
      BY <1>1, <2>1
    <2> QED
      BY <1>8, <2>2, <2>3 DEF Lists
  <1> QED
    BY <1>1, <1>2, <1>4, <1>6, <1>7, <1>8 DEF Lists

\* Construct registers the clean-up of what it has built.
LEMMA ConstructLists ==
  ASSUME StoreInv, StackInv, ListsInv, Construct
  PROVE  ListsInv'
  <1> DEFINE closes == providers[Last(stack).key].closes
  <1>1. /\ stack # << >> /\ UNCHANGED <<providers, by>> /\ by \in Containers
        /\ cleanups' = IF closes THEN [cleanups EXCEPT ![by] = Append(@, Result)]
                       ELSE cleanups
    BY DEF Construct, registry, Register, Result, StackInv
  <1>2. closes => ~providers[Last(stack).key].alias
    BY <1>1, Innermost, EntryOfKey
  <1>3. Result \in Nat /\ Instances \subseteq Instances'
    BY BuiltGrows DEF Instances
  <1>4. /\ cleanups \in [Containers -> Seq(Nat)]
        /\ \A d \in Containers : Lists(cleanups[d], Owed(d))
    BY ListsAreOwed DEF ListsOwed
  <1>5. ASSUME NEW d \in Containers
        PROVE  Owed(d)' = IF closes /\ d = by THEN Owed(d) \cup {Result} ELSE Owed(d)
    <2> DEFINE Due(r) == /\ r.owner = d /\ r.open /\ providers[r.key].closes
    <2>1. Owed(d) = {i \in Instances : Due(built[i])}
      BY DEF Owed
    <2>2. Owed(d)' = {i \in Instances' : Due(built'[i])}
      BY <1>1 DEF Owed
    <2>3. Due(Made) <=> closes /\ d = by
      BY <1>1, MadeRecord
    <2> HIDE DEF Due, closes
    <2>4. CASE providers[Last(stack).key].alias
      BY <1>2, <2>1, <2>2, <2>4, BuiltGrows DEF Instances
    <2>5. CASE ~providers[Last(stack).key].alias
      <3>1. /\ Instances' = Instances \cup {Result} /\ Result \notin Instances
            /\ built'[Result] = Made /\ \A i \in Instances : built'[i] = built[i]
        BY <2>5, BuiltGrows
      <3> QED
        BY <2>1, <2>2, <2>3, <3>1
    <2> QED
      BY <2>4, <2>5
  <1>6. ASSUME closes, NEW d \in Containers PROVE \A j \in Owed(d) : j < Result
    <2>1. Result = Len(built) + 1
      BY <1>2, <1>6, BuiltGrows
    <2> QED
      BY <2>1, InstanceNumbers DEF Owed
  <1>7. cleanups' \in [Containers -> Seq(Nat)]
    BY <1>1, <1>3, <1>4
  <1>8. ASSUME NEW d \in Containers PROVE Lists(cleanups'[d], Owed(d)')
    <2>1. CASE closes /\ d = by
      <3>1. cleanups'[d] = Append(cleanups[d], Result)
        BY <1>1, <1>4, <2>1
      <3> QED
        BY <1>3, <1>4, <1>5, <1>6, <2>1, <3>1, ListsAppend
    <2>2. CASE ~(closes /\ d = by)
      <3>1. cleanups'[d] = cleanups[d]
        BY <1>1, <1>4, <2>2
      <3> QED
        BY <1>4, <1>5, <2>2, <3>1
    <2> QED
      BY <2>1, <2>2
  <1>9. ListsOwed'
    BY <1>7, <1>8 DEF ListsOwed, Lists
  <1> QED
    BY <1>9, ListsAreOwed, PTL

\* What is built in a container is new and its arguments there are open.
LEMMA ConstructClosed ==
  ASSUME StoreInv, StackInv, ClosedInv, ClosedAfterUsers, Construct
  PROVE  ClosedInv' /\ ClosedAfterUsers'
  <1>1. /\ stack # << >> /\ goal # NoKey /\ by \notin closed
        /\ UNCHANGED <<providers, by, closed>>
    BY Innermost DEF Construct, registry, ending, ClosedInv
  <1>2. /\ Made.open = TRUE /\ Made.owner = by /\ Made.args \in Seq(Instances)
        /\ \A i \in Instances : built'[i] = built[i]
    BY <1>1, MadeRecord, Innermost, BuiltGrows
  <1>3. ClosedInv'
    <2>1. ASSUME NEW i \in Instances', ~built'[i].open PROVE built'[i].owner \in closed
      BY <1>2, <2>1, ConstructInstances DEF ClosedInv
    <2> QED
      BY <1>1, <2>1 DEF ClosedInv
  <1>4. ASSUME NEW j \in Instances', NEW i \in ToSet(built'[j].args),
               ~built'[i].open, built'[i].owner = built'[j].owner,
               providers[built'[j].key].closes
        PROVE  ~built'[j].open
    <2>1. CASE j \in Instances /\ built'[j] = built[j]
      <3>1. i \in ToSet(built[j].args)
        BY <2>1
      <3>2. i \in Instances
        BY <2>1, <3>1, InstanceNumbers DEF StoreInv, ToSet
      <3> QED
        BY <1>2, <1>4, <2>1, <3>1, <3>2 DEF ClosedAfterUsers
    <2>2. CASE built'[j] = Made
      <3>1. i \in Instances
        BY <1>2, <2>2 DEF ToSet
      <3>2. ~built[i].open /\ built[i].owner = by
        BY <1>2, <1>4, <2>2, <3>1
      <3> QED
        BY <1>1, <3>1, <3>2 DEF ClosedInv
    <2> QED
      BY <2>1, <2>2, ConstructInstances
  <1> QED
    BY <1>1, <1>3, <1>4 DEF ClosedAfterUsers

LEMMA ConstructKeeps == ASSUME ContainerInv, Construct PROVE ContainerInv'
  <1>1. ScopesInv'
    <2>1. UNCHANGED <<parent, by>>
      BY DEF Construct, registry
    <2> QED
      BY <2>1, ScopesStay DEF ContainerInv, ScopesInv, Exists
  <1> QED
    BY <1>1, ConstructStore, ConstructStack, ConstructCache, ConstructPending,
       ConstructLifetimes, ConstructLists, ConstructClosed DEF ContainerInv

-----------------------------------------------------------------------------
(* The steps that build and close nothing.                                   *)

\* The instances, the caches and the lists stay as they are.
LEMMA StoreKept ==
  ASSUME ContainerInv, UNCHANGED <<registry, store>>
  PROVE  /\ StoreInv' /\ CacheInv' /\ ListsInv'
         /\ LifetimesHonoured' /\ ClosedAfterUsers'
         /\ UNCHANGED <<providers, parent, built, instances>>
         /\ \A c \in Containers : Above(c)' = Above(c)
         /\ \A c : Exists(c)' = Exists(c)
  <1>1. UNCHANGED <<providers, parent, built, instances, cleanups>>
    BY DEF registry, store
  <1>2. StoreInv'
    BY <1>1 DEF ContainerInv, StoreInv, Instances
  <1>3. CacheInv'
    BY <1>1 DEF ContainerInv, CacheInv, Instances
  <1>4. ListsInv'
    BY <1>1 DEF ContainerInv, ListsInv, Instances
  <1>5. LifetimesHonoured'
    BY <1>1 DEF ContainerInv, LifetimesHonoured, Instances
  <1>6. ClosedAfterUsers'
    BY <1>1 DEF ContainerInv, ClosedAfterUsers, Instances
  <1>7. \A c : Exists(c)' = Exists(c)
    BY <1>1 DEF Exists
  <1> QED
    BY <1>1, <1>2, <1>3, <1>4, <1>5, <1>6, <1>7, ScopesStay

\* A Resolve begins in a container that exists and is not closed.
LEMMA ResolveKeeps ==
  ASSUME ContainerInv, NEW c \in Containers, NEW k \in Keys, Resolve(c, k)
  PROVE  ContainerInv'
  <1>1. /\ by' = c /\ goal' = k /\ stack = << >> /\ closing = NoContainer
        /\ UNCHANGED <<registry, store>> /\ UNCHANGED <<stack, closing, closed>>
    BY DEF Resolve, Quiet, ending, ContainerInv, StackInv
  <1>2. Exists(c) /\ c \notin closed
    BY AboveItself DEF Resolve, Usable, Exists
  <1>3. StackInv'
    BY <1>1, NamesAssumption DEF ContainerInv, StackInv
  <1>4. ScopesInv'
    BY <1>1, <1>2, StoreKept DEF ContainerInv, ScopesInv
  <1>5. PendingInv'
    BY <1>1 DEF PendingInv
  <1>6. ClosedInv'
    BY <1>1, <1>2, StoreKept DEF ContainerInv, ClosedInv, Instances
  <1> QED
    BY <1>1, <1>3, <1>4, <1>5, <1>6, StoreKept DEF ContainerInv

\* An error leaves what has been built, and no recursion.
LEMMA FailKeeps == ASSUME ContainerInv, Fail PROVE ContainerInv'
  <1>1. /\ stack' = << >> /\ goal' = NoKey /\ UNCHANGED <<registry, store>>
        /\ UNCHANGED <<closing, closed, by>>
    BY DEF Fail, ending
  <1>2. StackInv'
    BY <1>1 DEF ContainerInv, StackInv
  <1>3. ScopesInv'
    BY <1>1, StoreKept DEF ContainerInv, ScopesInv
  <1>4. PendingInv'
    BY <1>1 DEF PendingInv
  <1>5. ClosedInv'
    BY <1>1, StoreKept DEF ContainerInv, ClosedInv, Instances
  <1> QED
    BY <1>1, <1>2, <1>3, <1>4, <1>5, StoreKept DEF ContainerInv

LEMMA UseCachedKeeps == ASSUME ContainerInv, UseCached PROVE ContainerInv'
  <1> DEFINE i == Cached(Wanted)
  <1>1. /\ Wanted # NoKey /\ i # NoInstance /\ Return(stack, i)
        /\ UNCHANGED <<registry, store>> /\ UNCHANGED <<closing, closed, by>>
    BY DEF UseCached, ending
  <1>2. /\ Wanted \in Keys /\ goal # NoKey /\ stack \in Seq(Frame)
        /\ \A n \in DOMAIN stack :
             Len(stack[n].args) < Len(providers[stack[n].key].deps)
    BY <1>1, WantedKey DEF ContainerInv, StackInv
  <1>3. i \in Instances /\ i \in Nat
    BY <1>1, <1>2, CachedExists, InstanceNumbers DEF ContainerInv
  <1> HIDE DEF i
  <1>4. StackInv'
    <2>1. Instances' = Instances /\ Frozen
      BY <1>1, StoreKept DEF Instances, Frozen
    <2> QED
      BY <1>1, <1>2, <1>3, <2>1, StackReturns DEF ContainerInv
  <1>5. PendingInv'
    <2>1. /\ DOMAIN stack' = DOMAIN stack
          /\ \A n \in DOMAIN stack : stack'[n].key = stack[n].key
      BY <1>1, <1>2, <1>3, Returning
    <2> QED
      BY <1>1, <2>1, StoreKept DEF ContainerInv, PendingInv, Instances
  <1>6. ScopesInv'
    BY <1>1, StoreKept DEF ContainerInv, ScopesInv
  <1>7. ClosedInv'
    BY <1>1, <1>2, StoreKept DEF ContainerInv, ClosedInv, Instances
  <1> QED
    BY <1>1, <1>4, <1>5, <1>6, <1>7, StoreKept DEF ContainerInv

\* A key that is not cached, nor being resolved, goes on the stack.
LEMMA BuildArgumentsKeeps == ASSUME ContainerInv, BuildArguments PROVE ContainerInv'
  <1> DEFINE k   == Wanted
             new == [key |-> k, args |-> << >>]
  <1>1. /\ k # NoKey /\ ~Cyclic(k) /\ providers[k] # NoEntry /\ Cached(k) = NoInstance
        /\ stack' = Append(stack, new)
        /\ UNCHANGED <<registry, store>> /\ UNCHANGED <<closing, closed, by, goal>>
    BY DEF BuildArguments, ending
  <1>2. /\ k \in Keys /\ goal # NoKey /\ stack \in Seq(Frame)
        /\ \A n \in DOMAIN stack :
             Len(stack[n].args) < Len(providers[stack[n].key].deps)
    BY <1>1, WantedKey DEF ContainerInv, StackInv
  <1> HIDE DEF k
  <1>3. new \in Frame /\ new.key = k /\ new.args = << >>
    BY <1>2 DEF Frame
  <1> HIDE DEF new
  <1>4. /\ stack' \in Seq(Frame) /\ Len(stack') = Len(stack) + 1 /\ Len(stack) \in Nat
        /\ DOMAIN stack' = DOMAIN stack \cup {Len(stack')}
        /\ Len(stack') \notin DOMAIN stack /\ stack'[Len(stack')] = new
        /\ \A n \in DOMAIN stack : stack'[n] = stack[n]
    BY <1>1, <1>2, <1>3
  <1>5. UNCHANGED <<providers, built, instances>> /\ Instances' = Instances
    BY <1>1, StoreKept DEF Instances
  <1>6. StackInv'
    <2>1. ASSUME NEW n \in DOMAIN stack' PROVE FrameOK(n)'
      <3>1. CASE n \in DOMAIN stack
        <4>1. stack'[n] = stack[n] /\ FrameOK(n)
          BY <1>4, <3>1 DEF ContainerInv, StackInv
        <4> QED
          BY <1>2, <1>5, <3>1, <4>1 DEF FrameOK
      <3>2. CASE n = Len(stack')
        <4>1. providers[k] \in Entry /\ providers[k].deps \in Seq(Keys)
          BY <1>1, <1>2, EntryOfKey DEF ContainerInv
        <4>2. stack'[n].key = k /\ stack'[n].args = << >> /\ ~(n < Len(stack'))
          BY <1>3, <1>4, <3>2
        <4>3. Len(<< >>) <= Len(providers[k].deps)
          BY <4>1
        <4> QED
          BY <1>5, <4>1, <4>2, <4>3 DEF FrameOK
      <3> QED
        BY <1>4, <3>1, <3>2
    <2>2. \A n \in DOMAIN stack : stack[n].key # k
      BY <1>1 DEF Cyclic, ToSet
    <2>3. \A m, n \in DOMAIN stack' : stack'[m].key = stack'[n].key => m = n
      BY <1>3, <1>4, <2>2 DEF ContainerInv, StackInv
    <2> QED
      BY <1>1, <1>2, <1>4, <2>1, <2>3 DEF ContainerInv, StackInv
  <1>7. PendingInv'
    <2> SUFFICES ASSUME NEW n \in DOMAIN stack', NEW i \in Instances,
                        built[i].key = stack'[n].key
                 PROVE  /\ providers[stack'[n].key].lifetime # "singleton"
                        /\ providers[stack'[n].key].lifetime = "scoped" =>
                             built[i].owner # by
      BY <1>1, <1>5 DEF PendingInv
    <2>1. CASE n \in DOMAIN stack
      BY <1>4, <2>1 DEF ContainerInv, PendingInv
    <2>2. CASE n = Len(stack')
      <3>1. built[i].key = k /\ stack'[n].key = k
        BY <1>3, <1>4, <2>2
      <3> QED
        BY <1>1, <1>2, <3>1, CachedNowhere DEF ContainerInv, CacheInv
    <2> QED
      BY <1>4, <2>1, <2>2
  <1>8. ScopesInv'
    BY <1>1, StoreKept DEF ContainerInv, ScopesInv
  <1>9. ClosedInv'
    BY <1>1, <1>5 DEF ContainerInv, ClosedInv
  <1> QED
    BY <1>1, <1>6, <1>7, <1>8, <1>9, StoreKept DEF ContainerInv

-----------------------------------------------------------------------------
(* Close, and the registration of providers and scopes.                      *)

LEMMA CloseKeeps ==
  ASSUME ContainerInv, NEW c \in Containers, Close(c)
  PROVE  ContainerInv'
  <1>1. /\ goal = NoKey /\ stack = << >> /\ closing' = c /\ closed' = closed \cup {c}
        /\ UNCHANGED <<registry, store>> /\ UNCHANGED <<by, goal, stack>>
    BY DEF Close, Quiet, call, ContainerInv, StackInv
  <1>2. StackInv'
    BY <1>1 DEF ContainerInv, StackInv
  <1>3. ScopesInv'
    BY <1>1, StoreKept DEF ContainerInv, ScopesInv
  <1>4. PendingInv'
    BY <1>1 DEF PendingInv
  <1>5. ClosedInv'
    BY <1>1, StoreKept DEF ContainerInv, ClosedInv, Instances
  <1> QED
    BY <1>1, <1>2, <1>3, <1>4, <1>5, StoreKept DEF ContainerInv

LEMMA CloseReturnsKeeps == ASSUME ContainerInv, CloseReturns PROVE ContainerInv'
  <1>1. /\ goal = NoKey /\ stack = << >> /\ closing' = NoContainer
        /\ UNCHANGED <<registry, store>> /\ UNCHANGED <<by, goal, stack, closed>>
    BY DEF CloseReturns, call, ContainerInv, StackInv
  <1>2. StackInv'
    BY <1>1 DEF ContainerInv, StackInv
  <1>3. ScopesInv'
    BY <1>1, StoreKept DEF ContainerInv, ScopesInv
  <1>4. PendingInv'
    BY <1>1 DEF PendingInv
  <1>5. ClosedInv'
    BY <1>1, StoreKept DEF ContainerInv, ClosedInv, Instances
  <1> QED
    BY <1>1, <1>2, <1>3, <1>4, <1>5, StoreKept DEF ContainerInv

\* The loop of Close takes the greatest instance that the container owes: what was
\* built from it there is not open any more.
LEMMA CloseNextKeeps == ASSUME ContainerInv, CloseNext PROVE ContainerInv'
  <1> DEFINE q == cleanups[closing]
             i == Last(q)
  <1>1. /\ closing # NoContainer /\ q # << >> /\ goal = NoKey /\ stack = << >>
        /\ closing \in Containers /\ closing \in closed
        /\ built' = [built EXCEPT ![i].open = FALSE]
        /\ cleanups' = [cleanups EXCEPT ![closing] = Front(q)]
        /\ UNCHANGED <<providers, parent, instances>>
        /\ UNCHANGED <<by, goal, stack, closing, closed>>
    BY DEF CloseNext, registry, call, ending, ContainerInv, StackInv
  <1>2. /\ cleanups \in [Containers -> Seq(Nat)]
        /\ \A d \in Containers : Lists(cleanups[d], Owed(d))
    BY ListsAreOwed DEF ContainerInv, ListsOwed
  <1>3. /\ i \in Owed(closing) /\ \A j \in Owed(closing) : j <= i
        /\ Lists(Front(q), Owed(closing) \ {i}) /\ Front(q) \in Seq(Nat)
    <2>1. q \in Seq(Nat) /\ Lists(q, Owed(closing))
      BY <1>1, <1>2
    <2> HIDE DEF q
    <2> QED
      BY <1>1, <2>1, ListsFront, LastAndFront
  <1>4. i \in Instances /\ built[i].owner = closing /\ i \in Nat
    BY <1>3, InstanceNumbers DEF Owed, ContainerInv
  <1> HIDE DEF i, q
  <1>5. /\ built' \in Seq(Record) /\ Instances' = Instances
        /\ \A j \in Instances :
             /\ built'[j].key = built[j].key /\ built'[j].args = built[j].args
             /\ built'[j].owner = built[j].owner
             /\ built'[j].open = (built[j].open /\ j # i)
    <2> DEFINE new == [built[i] EXCEPT !.open = FALSE]
    <2>1. built \in Seq(Record) /\ built[i] \in Record /\ i \in DOMAIN built
      BY <1>4 DEF ContainerInv, StoreInv, Instances
    <2>2. /\ new \in Record /\ new.open = FALSE /\ new.key = built[i].key
          /\ new.args = built[i].args /\ new.owner = built[i].owner
      BY <2>1 DEF Record
    <2> HIDE DEF new
    <2>3. built' = [built EXCEPT ![i] = new]
      BY <1>1 DEF new
    <2>4. built' \in Seq(Record) /\ DOMAIN built' = DOMAIN built
      BY <2>1, <2>2, <2>3
    <2>5. \A j \in DOMAIN built : built'[j] = IF j = i THEN new ELSE built[j]
      BY <2>1, <2>3
    <2>6. ASSUME NEW j \in DOMAIN built PROVE built[j].open \in BOOLEAN
      <3>1. built[j] \in Record
        BY <2>1
      <3> QED
        BY <3>1 DEF Record
    <2>7. ASSUME NEW j \in Instances
          PROVE  /\ built'[j].key = built[j].key /\ built'[j].args = built[j].args
                 /\ built'[j].owner = built[j].owner
                 /\ built'[j].open = (built[j].open /\ j # i)
      BY <2>2, <2>5, <2>6 DEF Instances
    <2> QED
      BY <2>4, <2>7 DEF Instances
  <1>6. StoreInv'
    BY <1>1, <1>5 DEF ContainerInv, StoreInv
  <1>7. StackInv'
    BY <1>1 DEF ContainerInv, StackInv
  <1>8. ScopesInv'
    BY <1>1, ScopesStay DEF ContainerInv, ScopesInv, Exists
  <1>9. CacheInv'
    BY <1>1, <1>5 DEF ContainerInv, CacheInv
  <1>10. PendingInv'
    BY <1>1 DEF PendingInv
  <1>11. ListsInv'
    <2>1. ASSUME NEW d \in Containers
          PROVE  Owed(d)' = IF d = closing THEN Owed(d) \ {i} ELSE Owed(d)
      BY <1>1, <1>4, <1>5 DEF Owed
    <2>2. ASSUME NEW d \in Containers
          PROVE  cleanups'[d] = IF d = closing THEN Front(q) ELSE cleanups[d]
      BY <1>1, <1>2
    <2>3. \A d \in Containers : Lists(cleanups'[d], Owed(d)')
      BY <1>2, <1>3, <2>1, <2>2
    <2>4. cleanups' \in [Containers -> Seq(Nat)]
      BY <1>1, <1>2, <1>3
    <2>5. ListsOwed'
      BY <2>3, <2>4 DEF ListsOwed, Lists
    <2> QED
      BY <2>5, ListsAreOwed, PTL
  <1>12. ClosedInv'
    BY <1>1, <1>4, <1>5 DEF ContainerInv, ClosedInv
  <1>13. LifetimesHonoured'
    BY <1>1, <1>5 DEF ContainerInv, LifetimesHonoured
  <1>14. ClosedAfterUsers'
    <2> SUFFICES ASSUME NEW j \in Instances, NEW n \in ToSet(built[j].args),
                        ~built'[n].open, built'[n].owner = built'[j].owner,
                        providers[built'[j].key].closes
                 PROVE  ~built'[j].open
      BY <1>1, <1>5 DEF ClosedAfterUsers, ToSet
    <2>1. n \in 1 .. j - 1 /\ n \in Instances
      BY InstanceNumbers DEF ContainerInv, StoreInv, ToSet
    <2>2. CASE n # i
      BY <1>5, <2>1, <2>2 DEF ContainerInv, ClosedAfterUsers
    <2>3. CASE n = i
      <3>1. j \notin Owed(closing)
        BY <1>3, <1>4, <2>1, <2>3, InstanceNumbers DEF ContainerInv
      <3> QED
        BY <1>4, <1>5, <2>3, <3>1 DEF Owed
    <2> QED
      BY <2>2, <2>3
  <1> QED
    BY <1>6, <1>7, <1>8, <1>9, <1>10, <1>11, <1>12, <1>13, <1>14 DEF ContainerInv

\* A new scope is below its parent and with it below the root.
LEMMA ScopeKeeps ==
  ASSUME ContainerInv, NEW c \in Containers, NEW child \in Containers, Scope(c, child)
  PROVE  ContainerInv'
  <1>1. /\ goal = NoKey /\ stack = << >> /\ closing = NoContainer
        /\ child # Root /\ parent[child] = NoContainer /\ Exists(c)
        /\ parent' = [parent EXCEPT ![child] = c]
        /\ UNCHANGED <<providers, instances, cleanups, built>>
        /\ UNCHANGED <<by, goal, stack, closing, closed>>
    BY DEF Scope, Quiet, Usable, Exists, store, call, ending, ContainerInv, StackInv
  <1>2. Instances' = Instances
    BY <1>1 DEF Instances
  <1>3. /\ parent' \in [Containers -> Containers \cup {NoContainer}]
        /\ parent'[child] = c
        /\ \A d \in Containers : d # child => parent'[d] = parent[d]
    BY <1>1 DEF ContainerInv, StoreInv
  <1>4. StoreInv'
    BY <1>1, <1>2, <1>3 DEF ContainerInv, StoreInv
  <1>5. StackInv'
    BY <1>1, <1>2 DEF ContainerInv, StackInv
  <1>6. ScopesInv'
    <2>1. \A d \in Containers : parent[d] # NoContainer => parent'[d] = parent[d]
      BY <1>1, <1>3
    <2>2. ASSUME NEW d \in Containers, Exists(d) PROVE Root \in Above(d)'
      BY <2>1, <2>2, AboveGrows DEF ContainerInv, ScopesInv
    <2>3. Root \in Above(child)'
      BY <1>1, <1>3, <2>2, AboveParent
    <2>4. ASSUME NEW d \in Containers, Exists(d)' PROVE d = child \/ Exists(d)
      BY <1>3, <2>4 DEF Exists
    <2>5. Exists(by)'
      BY <1>1, <2>1 DEF ContainerInv, ScopesInv, StackInv, Exists
    <2> QED
      BY <2>2, <2>3, <2>4, <2>5 DEF ScopesInv
  <1>7. CacheInv'
    BY <1>1, <1>2 DEF ContainerInv, CacheInv
  <1>8. PendingInv'
    BY <1>1 DEF PendingInv
  <1>9. ListsInv'
    BY <1>1, <1>2 DEF ContainerInv, ListsInv
  <1>10. ClosedInv'
    BY <1>1, <1>2 DEF ContainerInv, ClosedInv
  <1>11. LifetimesHonoured' /\ ClosedAfterUsers'
    BY <1>1, <1>2 DEF ContainerInv, LifetimesHonoured, ClosedAfterUsers
  <1> QED
    BY <1>4, <1>5, <1>6, <1>7, <1>8, <1>9, <1>10, <1>11 DEF ContainerInv

\* Providers are registered before anything is built from them.
LEMMA ProvideKeeps ==
  ASSUME ContainerInv, NEW k \in Keys, NEW e \in Entries[k], Provide(k, e)
  PROVE  ContainerInv'
  <1>1. /\ goal = NoKey /\ stack = << >> /\ closing = NoContainer /\ built = << >>
        /\ providers' = [providers EXCEPT ![k] = e]
        /\ UNCHANGED <<parent, instances, cleanups, built>>
        /\ UNCHANGED <<by, goal, stack, closing, closed>>
    BY DEF Provide, Quiet, store, call, ending, ContainerInv, StackInv
  <1>2. Instances = {} /\ Instances' = {}
    BY <1>1 DEF Instances
  <1>3. StoreInv'
    <2>1. e \in Entry
      BY EntriesAssumption
    <2>2. /\ providers' \in [Keys -> Entry \cup {NoEntry}]
          /\ \A j \in Keys : providers'[j] \in Entries[j] \cup {NoEntry}
      BY <1>1, <2>1 DEF ContainerInv, StoreInv
    <2> QED
      BY <1>1, <1>2, <2>2 DEF ContainerInv, StoreInv
  <1>4. StackInv'
    BY <1>1 DEF ContainerInv, StackInv
  <1>5. ScopesInv'
    BY <1>1, ScopesStay DEF ContainerInv, ScopesInv, Exists
  <1>6. ListsInv'
    BY <1>1, <1>2 DEF ContainerInv, ListsInv
  <1>7. ClosedInv' /\ PendingInv' /\ CacheInv' /\ LifetimesHonoured' /\ ClosedAfterUsers'
    BY <1>1, <1>2 DEF ContainerInv, ClosedInv, PendingInv, CacheInv,
                      LifetimesHonoured, ClosedAfterUsers
  <1> QED
    BY <1>3, <1>4, <1>5, <1>6, <1>7 DEF ContainerInv

-----------------------------------------------------------------------------
(* The invariant holds, and what follows from it.                            *)

LEMMA InitEstablishes == Init => ContainerInv
  <1> SUFFICES ASSUME Init PROVE ContainerInv
    OBVIOUS
  <1>1. Instances = {} /\ stack = << >>
    BY DEF Init, Instances
  <1>2. StoreInv
    BY <1>1, NamesAssumption DEF Init, StoreInv
  <1>3. StackInv
    BY NamesAssumption DEF Init, StackInv
  <1>4. ScopesInv
    BY AboveItself, NamesAssumption DEF Init, ScopesInv, Exists
  <1>5. ListsInv
    BY <1>1 DEF Init, ListsInv
  <1>6. ClosedInv /\ PendingInv /\ CacheInv /\ LifetimesHonoured /\ ClosedAfterUsers
    BY <1>1 DEF Init, ClosedInv, PendingInv, CacheInv, LifetimesHonoured,
                ClosedAfterUsers
  <1> QED
    BY <1>2, <1>3, <1>4, <1>5, <1>6 DEF ContainerInv

LEMMA NextKeeps == ContainerInv /\ [Next]_vars => ContainerInv'
  <1> SUFFICES ASSUME ContainerInv, [Next]_vars PROVE ContainerInv'
    OBVIOUS
  <1>1. ASSUME NEW k \in Keys, NEW e \in Entries[k], Provide(k, e) PROVE ContainerInv'
    BY <1>1, ProvideKeeps
  <1>2. ASSUME NEW c \in Containers, NEW d \in Containers, Scope(c, d)
        PROVE  ContainerInv'
    BY <1>2, ScopeKeeps
  <1>3. ASSUME NEW c \in Containers, NEW k \in Keys, Resolve(c, k) PROVE ContainerInv'
    BY <1>3, ResolveKeeps
  <1>4. ASSUME NEW c \in Containers, Close(c) PROVE ContainerInv'
    BY <1>4, CloseKeeps
  <1>5. CASE NotResolvable
    BY <1>5, FailKeeps DEF NotResolvable
  <1>6. CASE UseCached
    BY <1>6, UseCachedKeeps
  <1>7. CASE BuildArguments
    BY <1>7, BuildArgumentsKeeps
  <1>8. CASE Construct
    BY <1>8, ConstructKeeps
  <1>9. CASE ConstructorFails
    BY <1>9, FailKeeps DEF ConstructorFails
  <1>10. CASE CloseNext
    BY <1>10, CloseNextKeeps
  <1>11. CASE CloseReturns
    BY <1>11, CloseReturnsKeeps
  <1>12. CASE UNCHANGED vars
    <2>1. /\ UNCHANGED <<registry, store>>
          /\ UNCHANGED <<by, goal, stack, closing, closed>>
      BY <1>12 DEF vars, registry, store
    <2>2. StackInv'
      BY <2>1, StoreKept DEF ContainerInv, StackInv, FrameOK, Instances
    <2>3. ScopesInv'
      BY <2>1, StoreKept DEF ContainerInv, ScopesInv
    <2>4. PendingInv'
      BY <2>1, StoreKept DEF ContainerInv, PendingInv, Instances
    <2>5. ClosedInv'
      BY <2>1, StoreKept DEF ContainerInv, ClosedInv, Instances
    <2> QED
      BY <2>1, <2>2, <2>3, <2>4, <2>5, StoreKept DEF ContainerInv
  <1> QED
    BY <1>1, <1>2, <1>3, <1>4, <1>5, <1>6, <1>7, <1>8, <1>9, <1>10, <1>11, <1>12
    DEF Next, Step

THEOREM ContainerInvariant == Spec => []ContainerInv
  BY InitEstablishes, NextKeeps, PTL DEF Spec

\* The frames of resolve have keys of their own, all of which are registered.
LEMMA FramesAreProviders == ContainerInv => DepthBounded
  <1> SUFFICES ASSUME ContainerInv PROVE DepthBounded
    OBVIOUS
  <1> DEFINE registered == {k \in Keys : providers[k] # NoEntry}
             f == [n \in 1 .. Len(stack) |-> stack[n].key]
  <1>1. Len(stack) \in Nat /\ DOMAIN stack = 1 .. Len(stack) /\ stack \in Seq(Frame)
    BY DEF ContainerInv, StackInv
  <1>2. IsFiniteSet(registered)
    BY NamesAssumption, FS_Subset
  <1>3. ASSUME NEW n \in 1 .. Len(stack) PROVE stack[n].key \in registered
    <2>1. stack[n] \in Frame
      BY <1>1
    <2>2. FrameOK(n)
      BY <1>1 DEF ContainerInv, StackInv
    <2> QED
      BY <2>1, <2>2, NamesAssumption DEF FrameOK, Frame
  <1>4. f \in Injection(1 .. Len(stack), registered)
    <2>1. f \in [1 .. Len(stack) -> registered]
      BY <1>3
    <2>2. \A m, n \in 1 .. Len(stack) : f[m] = f[n] => m = n
      BY <1>1 DEF ContainerInv, StackInv
    <2> QED
      BY <2>1, <2>2 DEF Injection, IsInjective
  <1>5. IsFiniteSet(1 .. Len(stack)) /\ Cardinality(1 .. Len(stack)) = Len(stack)
    BY <1>1, FS_Interval
  <1> QED
    BY <1>2, <1>4, <1>5, FS_Injection DEF DepthBounded

\* An ascending list has no element twice.
LEMMA AscendingInjective ==
  ASSUME NEW q \in Seq(Nat), \A m, n \in DOMAIN q : m < n => q[m] < q[n]
  PROVE  IsInjective(q)
  <1> SUFFICES ASSUME NEW m \in DOMAIN q, NEW n \in DOMAIN q, q[m] = q[n]
               PROVE  m = n
    BY DEF IsInjective
  <1>1. q[m] \in Nat /\ m \in Nat /\ n \in Nat
    OBVIOUS
  <1>2. ~(q[m] < q[n]) /\ ~(q[n] < q[m])
    BY <1>1
  <1>3. ~(m < n) /\ ~(n < m)
    BY <1>2
  <1> QED
    BY <1>1, <1>3

LEMMA ListsAreExact == ContainerInv => CleanupOwed
  <1> SUFFICES ASSUME ContainerInv PROVE CleanupOwed
    OBVIOUS
  <1>1. ListsInv
    BY DEF ContainerInv
  <1>2. ASSUME NEW c \in Containers PROVE IsInjective(cleanups[c])
    BY <1>1, AscendingInjective DEF ListsInv
  <1>3. ASSUME NEW c \in Containers, NEW i \in Instances
        PROVE  i \in ToSet(cleanups[c]) <=> /\ built[i].owner = c /\ built[i].open
                                            /\ providers[built[i].key].closes
    BY <1>1 DEF ListsInv, ToSet
  <1> QED
    BY <1>2, <1>3 DEF CleanupOwed

LEMMA InvariantTypes == ContainerInv => TypeOK
  <1> SUFFICES ASSUME ContainerInv PROVE TypeOK
    OBVIOUS
  <1>1. StoreInv /\ StackInv /\ ListsInv
    BY DEF ContainerInv
  <1>2. ASSUME NEW i \in Instances
        PROVE  /\ built[i].key \in Keys /\ built[i].owner \in Containers
               /\ ToSet(built[i].args) \subseteq 1 .. i - 1
    <2>1. built[i] \in Record
      BY <1>1 DEF StoreInv, Instances
    <2>2. built[i].key \in Keys /\ built[i].owner \in Containers
      BY <2>1 DEF Record
    <2>3. ToSet(built[i].args) \subseteq 1 .. i - 1
      BY <1>1 DEF StoreInv, ToSet
    <2> QED
      BY <2>2, <2>3
  <1>3. \A c \in Containers : ToSet(cleanups[c]) \subseteq Instances
    BY <1>1 DEF ListsInv, ToSet
  <1>4. \A f \in ToSet(stack) : Len(f.args) <= Len(providers[f.key].deps)
    BY <1>1 DEF StackInv, FrameOK, ToSet
  <1>5. /\ \A k \in Keys : providers[k] \in Entries[k] \cup {NoEntry}
        /\ parent \in [Containers -> Containers \cup {NoContainer}]
        /\ instances \in [Containers -> [Keys -> Instances \cup {NoInstance}]]
    BY <1>1 DEF StoreInv
  <1>6. /\ by \in Containers /\ goal \in Keys \cup {NoKey}
        /\ closing \in closed \cup {NoContainer} /\ closed \subseteq Containers
    BY <1>1 DEF StackInv
  <1> QED
    BY <1>2, <1>3, <1>4, <1>5, <1>6 DEF TypeOK

\* The types hold: registry, caches, lists, recursion.
THEOREM TypesHold == Spec => []TypeOK
  BY ContainerInvariant, InvariantTypes, PTL

\* A singleton exists once in all scopes, a scoped instance once in its container,
\* for every dependency graph and every order of Resolve calls.
THEOREM SingletonsAreSingle == Spec => []LifetimesHonoured
  <1>1. ContainerInv => LifetimesHonoured
    BY DEF ContainerInv
  <1> QED
    BY <1>1, ContainerInvariant, PTL

\* resolve never goes deeper than there are registered providers, so that it ends
\* whatever cycles they form.
THEOREM RecursionIsBounded == Spec => []DepthBounded
  BY ContainerInvariant, FramesAreProviders, PTL

\* Close closes users before what they use.
THEOREM UsersCloseFirst == Spec => []ClosedAfterUsers
  <1>1. ContainerInv => ClosedAfterUsers
    BY DEF ContainerInv
  <1> QED
    BY <1>1, ContainerInvariant, PTL

\* Every clean-up that is due is on exactly one list, once.
THEOREM NothingLeaks == Spec => []CleanupOwed
  BY ContainerInvariant, ListsAreExact, PTL
=============================================================================
