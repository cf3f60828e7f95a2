------------------------------- MODULE MCProxy -------------------------------
\* Instances of Proxy for TLC: two backends and a name to create one of them
\* again under, a model that is written in two ways, a catalog with it on one or
\* on both backends and one without it, users without settings, with an alias,
\* and with a deny list.
EXTENDS Proxy, TLC

CONSTANTS b1, b2, lower, upper

MCCanonical == (lower :> lower) @@ (upper :> lower)
NoAliases == [m \in ModelNames |-> NoAlias]
MCCatalogs == {lower :> {b1}, lower :> {b1, b2}, upper :> {b1}}
MCOverrides == {[alias |-> NoAliases, deny |-> {}, allow |-> {}],
                [alias |-> [NoAliases EXCEPT ![upper] = lower], deny |-> {}, allow |-> {lower}],
                [alias |-> NoAliases, deny |-> {upper}, allow |-> {}]}
MCLines == {[prompt |-> 0, eval |-> 0], [prompt |-> 3, eval |-> 1], [prompt |-> 5, eval |-> 2]}
MCSymmetry == Permutations(Objects) \cup Permutations(Addresses)

=============================================================================
