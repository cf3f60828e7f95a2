-------------------------- MODULE MCAdministration --------------------------
\* Instance of Administration for TLC: the file has one backend and one model,
\* a second backend and a second name of the model come from the dashboard, and
\* one setting has an address that does not parse.
EXTENDS Administration, TLC

CONSTANTS b1, b2, lower, upper, good, other, bad, p1

MCYamlBackends == <<[name |-> b1, setting |-> good]>>
MCYamlModels == lower :> {b1}
MCYamlPrices == (lower :> p1) @@ (upper :> NoPrice)
MCCanonical == (lower :> lower) @@ (upper :> lower)

=============================================================================
