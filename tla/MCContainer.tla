----------------------------- MODULE MCContainer -----------------------------
(***************************************************************************)
(* Container for TLC: three keys whose providers form chains, a diamond    *)
(* with a shared or doubled dependency, a cycle, or use an alias; all      *)
(* lifetimes.  A key without a provider is missing.                        *)
(***************************************************************************)
EXTENDS Container

CONSTANTS a, b, c

Provider(deps, lifetime) ==
  [deps |-> deps, lifetime |-> lifetime, closes |-> TRUE, alias |-> FALSE]

\* A constructor (T, error) without clean-up, and an alias.
Plain(deps) == [Provider(deps, "singleton") EXCEPT !.closes = FALSE]
Alias(deps) == [Plain(deps) EXCEPT !.alias = TRUE]

MCEntries ==
  (a :> {Provider(<< >>, l) : l \in Lifetimes}
        \cup {Plain(<< >>), Provider(<<c>>, "singleton")}) @@
  (b :> {Provider(<<a>>, l) : l \in Lifetimes} \cup {Alias(<<a>>)}) @@
  (c :> {Provider(<<a, b>>, l) : l \in {"singleton", "scoped"}}
        \cup {Provider(<<b, b>>, "transient")})
=============================================================================
