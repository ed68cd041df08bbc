------------------------------ MODULE Container ------------------------------
(***************************************************************************)
(* The dependency injection container of pkg/di that wires both servers:   *)
(* registration, resolution with three lifetimes, child scopes, clean-up.  *)
(*                                                                         *)
(* The container is used by one goroutine.  What makes it hard is the      *)
(* recursion of resolve over any dependency graph, cyclic ones and failing *)
(* constructors included, on caches and clean-up lists that several scopes *)
(* share.  An action is one call of resolve, up to the next call.          *)
(***************************************************************************)
EXTENDS Naturals, SequencesExt, FiniteSets

CONSTANTS Keys,       \* provider keys: a type and a name tag
          Entries,    \* the providers that may be registered for each key
          Containers, Root,
          NoKey, NoEntry, NoInstance, NoContainer,
          MaxBuilt    \* bound: nothing is resolved from here on

Lifetimes == {"singleton", "transient", "scoped"}

\* A provider.  closes: its constructor returns a clean-up function, too.
Entry == [deps : Seq(Keys), lifetime : Lifetimes, closes : BOOLEAN, alias : BOOLEAN]

\* An alias hands its only argument through; it is a singleton without clean-up.
ASSUME EntriesAssumption ==
  /\ Entries \in [Keys -> SUBSET Entry]
  /\ \A k \in Keys : \A e \in Entries[k] :
       e.alias => Len(e.deps) = 1 /\ ~e.closes /\ e.lifetime = "singleton"
ASSUME NamesAssumption == /\ Root \in Containers
                          /\ IsFiniteSet(Keys) /\ NoKey \notin Keys
                          /\ NoContainer \notin Containers
                          /\ NoEntry \notin Entry /\ NoInstance \notin Nat
                          /\ MaxBuilt \in Nat

VARIABLES providers,  \* the registry, which all scopes share
          parent,     \* the parent of each scope, once it is created
          instances,  \* the cache of each container
          cleanups,   \* the clean-up list of each container
          built,      \* all instances: what constructors were called with
          by, goal,   \* the container and the key of the Resolve in progress
          stack,      \* its recursion: the keys and the arguments collected
          closing,    \* the container whose Close is running
          closed      \* the containers that have been closed

registry == <<providers, parent>>
store    == <<instances, cleanups, built>>
call     == <<by, goal, stack>>
ending   == <<closing, closed>>
vars     == <<providers, parent, instances, cleanups, built, by, goal, stack,
              closing, closed>>

Init == /\ providers = [k \in Keys |-> NoEntry]
        /\ parent = [c \in Containers |-> NoContainer]
        /\ instances = [c \in Containers |-> [k \in Keys |-> NoInstance]]
        /\ cleanups = [c \in Containers |-> << >>]
        /\ built = << >>
        /\ by = Root /\ goal = NoKey /\ stack = << >>
        /\ closing = NoContainer /\ closed = {}

-----------------------------------------------------------------------------
Quiet == goal = NoKey /\ closing = NoContainer

\* The container itself, its parent and so on: the way lookupSingletonInstance goes.
\* It is the least set that has them.
Above(c) == {d \in Containers : \A up \in SUBSET Containers :
               c \in up /\ (\A e \in up : parent[e] \in up \cup {NoContainer})
                 => d \in up}

\* A container that exists and has not been closed, nor has what it hangs on.
Usable(c) == /\ c = Root \/ parent[c] # NoContainer
             /\ Above(c) \cap closed = {}

\* Provide, ProvideNamed, ProvideAs and Alias.  Both programs register every
\* provider before the first instance is built.
Provide(k, e) == /\ Quiet /\ built = << >>
                 /\ providers' = [providers EXCEPT ![k] = e]
                 /\ UNCHANGED <<parent, store, call, ending>>

\* A child of any container.
Scope(c, child) == /\ Quiet /\ Usable(c)
                   /\ child # Root /\ parent[child] = NoContainer /\ child # c
                   /\ parent' = [parent EXCEPT ![child] = c]
                   /\ UNCHANGED <<providers, store, call, ending>>

Resolve(c, k) == /\ Quiet /\ Usable(c) /\ Len(built) < MaxBuilt
                 /\ by' = c /\ goal' = k
                 /\ UNCHANGED <<registry, store, stack, ending>>

-----------------------------------------------------------------------------
\* The key that the innermost call of resolve needs next, if any.
Wanted ==
  IF stack = << >> THEN goal
  ELSE LET top  == Last(stack)
           deps == providers[top.key].deps
       IN  IF Len(top.args) < Len(deps) THEN deps[Len(top.args) + 1] ELSE NoKey

\* The caller of resolve gets instance i.
Return(callers, i) ==
  IF callers = << >>
  THEN stack' = << >> /\ goal' = NoKey
  ELSE /\ stack' = [callers EXCEPT ![Len(callers)].args = Append(@, i)]
       /\ UNCHANGED goal

\* Mutant of Fail: the error is dropped and the caller goes on.
FailIgnored == /\ stack' = IF stack = << >> THEN << >> ELSE Front(stack)
               /\ UNCHANGED <<registry, store, ending, by, goal>>

\* Mutant of Fail: with the error, what was to be cleaned up is forgotten.
FailForgetting == /\ stack' = << >> /\ goal' = NoKey
                  /\ cleanups' = [cleanups EXCEPT ![by] = << >>]
                  /\ UNCHANGED <<registry, instances, built, ending, by>>

\* An error goes all the way up; what has been built and cached stays.
Fail == /\ stack' = << >> /\ goal' = NoKey
        /\ UNCHANGED <<registry, store, ending, by>>

\* Mutant of Cyclic: only a provider that asks for itself is noticed.
CyclicDirectly(k) == stack # << >> /\ Last(stack).key = k

Cyclic(k) == \E f \in ToSet(stack) : f.key = k

\* The cached instance that resolve(k) finds, if any.
Cached(k) ==
  LET where == CASE providers[k].lifetime = "singleton" -> Above(by)
                 [] providers[k].lifetime = "scoped"    -> {by}
                 [] OTHER                               -> {}
      found == {instances[c][k] : c \in where} \ {NoInstance}
  IN  IF found = {} THEN NoInstance ELSE CHOOSE i \in found : TRUE

\* A call of resolve: a cycle, no provider, a cached instance, or one to build.
NotResolvable == /\ Wanted # NoKey
                 /\ Cyclic(Wanted) \/ providers[Wanted] = NoEntry
                 /\ Fail

UseCached == /\ Wanted # NoKey /\ ~Cyclic(Wanted)
             /\ providers[Wanted] # NoEntry /\ Cached(Wanted) # NoInstance
             /\ Return(stack, Cached(Wanted))
             /\ UNCHANGED <<registry, store, ending, by>>

BuildArguments == /\ Wanted # NoKey /\ ~Cyclic(Wanted)
                  /\ providers[Wanted] # NoEntry /\ Cached(Wanted) = NoInstance
                  /\ stack' = Append(stack, [key |-> Wanted, args |-> << >>])
                  /\ UNCHANGED <<registry, store, ending, by, goal>>

-----------------------------------------------------------------------------
\* Mutant of StoreIn: a singleton is kept by the container that resolved it.
StoreInOwn(lifetime) == by

\* storeSingleton goes up to the root; a scoped instance stays.
StoreIn(lifetime) == IF lifetime = "singleton" THEN Root ELSE by

\* Mutant of Register: the clean-ups run in the order of construction.
RegisterFirst(i) == [cleanups EXCEPT ![by] = <<i>> \o @]

\* The clean-up goes to the list of the container that resolves.
Register(i) == [cleanups EXCEPT ![by] = Append(@, i)]

\* All arguments are there: the constructor is called, the instance is cached.
Construct ==
  /\ stack # << >> /\ Wanted = NoKey
  /\ LET top   == Last(stack)
         entry == providers[top.key]
         i     == IF entry.alias THEN top.args[1] ELSE Len(built) + 1
     IN  /\ built' = IF entry.alias THEN built
                     ELSE Append(built, [key |-> top.key, args |-> top.args,
                                         owner |-> by, open |-> TRUE])
         /\ instances' = IF entry.lifetime = "transient" THEN instances
                         ELSE [instances EXCEPT
                                 ![StoreIn(entry.lifetime)][top.key] = i]
         /\ cleanups' = IF entry.closes THEN Register(i) ELSE cleanups
         /\ Return(Front(stack), i)
  /\ UNCHANGED <<registry, ending, by>>

\* Mutant of ConstructorFails: the instance is cached before the error is looked at.
ConstructorFailsCached ==
  /\ stack # << >> /\ Wanted = NoKey
  /\ instances' = [instances EXCEPT ![by][Last(stack).key] = Len(built) + 1]
  /\ stack' = << >> /\ goal' = NoKey
  /\ UNCHANGED <<registry, cleanups, built, ending, by>>

\* The constructor returns an error.
ConstructorFails == /\ stack # << >> /\ Wanted = NoKey
                    /\ ~providers[Last(stack).key].alias
                    /\ Fail

-----------------------------------------------------------------------------
Close(c) == /\ Quiet /\ Usable(c)
            /\ closing' = c /\ closed' = closed \cup {c}
            /\ UNCHANGED <<registry, store, call>>

\* The loop of Close, backwards over the list.
CloseNext == /\ closing # NoContainer
             /\ cleanups[closing] # << >>
             /\ built' = [built EXCEPT ![Last(cleanups[closing])].open = FALSE]
             /\ cleanups' = [cleanups EXCEPT ![closing] = Front(@)]
             /\ UNCHANGED <<registry, call, ending, instances>>

CloseReturns == /\ closing # NoContainer
                /\ cleanups[closing] = << >>
                /\ closing' = NoContainer
                /\ UNCHANGED <<registry, store, call, closed>>

-----------------------------------------------------------------------------
Step == \/ NotResolvable \/ UseCached \/ BuildArguments
        \/ Construct \/ ConstructorFails
        \/ CloseNext \/ CloseReturns

Next == \/ \E k \in Keys : \E e \in Entries[k] : Provide(k, e)
        \/ \E c, d \in Containers : Scope(c, d)
        \/ \E c \in Containers : Close(c) \/ \E k \in Keys : Resolve(c, k)
        \/ Step

\* A goroutine that has called Resolve or Close runs on.
Spec == Init /\ [][Next]_vars /\ WF_vars(Step)

-----------------------------------------------------------------------------
Instances == DOMAIN built

\* The types; a frame of the recursion has not more arguments than it needs.
TypeOK ==
  /\ \A k \in Keys : providers[k] \in Entries[k] \cup {NoEntry}
  /\ parent \in [Containers -> Containers \cup {NoContainer}]
  /\ instances \in [Containers -> [Keys -> Instances \cup {NoInstance}]]
  /\ \A c \in Containers : ToSet(cleanups[c]) \subseteq Instances
  /\ \A i \in Instances :
       /\ built[i].key \in Keys /\ built[i].owner \in Containers
       /\ ToSet(built[i].args) \subseteq 1 .. i - 1
  /\ by \in Containers /\ goal \in Keys \cup {NoKey}
  /\ \A f \in ToSet(stack) : Len(f.args) <= Len(providers[f.key].deps)
  /\ closing \in closed \cup {NoContainer} /\ closed \subseteq Containers

\* A singleton is built once, whichever scopes ask for it and however many
\* constructors share it; a scoped provider once per container.
LifetimesHonoured ==
  \A i, j \in Instances :
    /\ built[i].key = built[j].key
    /\ \/ providers[built[i].key].lifetime = "singleton"
       \/ providers[built[i].key].lifetime = "scoped" /\ built[i].owner = built[j].owner
    => i = j

\* No recursion without end: the depth of resolve never exceeds the number of
\* registered keys, whatever cycles the providers form.
DepthBounded == Len(stack) <= Cardinality({k \in Keys : providers[k] # NoEntry})

\* Clean-up respects dependencies: when an instance is closed, everything that the
\* same container built from it and that has a clean-up has been closed before.
ClosedAfterUsers ==
  \A j \in Instances :
    \A i \in ToSet(built[j].args) :
      /\ ~built[i].open
      /\ built[i].owner = built[j].owner
      /\ providers[built[j].key].closes
      => ~built[j].open

\* Nothing leaks and nothing is cleaned up twice: whatever calls failed halfway, an
\* instance with a clean-up is either closed or once on the list of its container.
CleanupOwed ==
  /\ \A c \in Containers : IsInjective(cleanups[c])
  /\ \A c \in Containers, i \in Instances :
       i \in ToSet(cleanups[c]) <=> /\ built[i].owner = c /\ built[i].open
                                   /\ providers[built[i].key].closes

\* A Resolve or Close returns, also for cyclic, missing and failing providers.
CallsReturn == ~Quiet ~> Quiet
=============================================================================
