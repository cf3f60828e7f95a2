-------------------------- MODULE MCBackendRouting --------------------------
(* Instances of BackendRouting for TLC. *)
EXTENDS BackendRouting

CONSTANTS b1, b2, b3, b4, b5,      \* backend names
          ua, ub, uc, ubad,   \* addresses
          m1, m2              \* models

Start(n, u, w) == [name |-> n, url |-> u, weight |-> w]
At(n, w) == [backend |-> n, weight |-> w]

-----------------------------------------------------------------------------
(* requests: selections, with and without a model, race with health checks,*)
(* an administrator and a failing network over two backends, one of which  *)
(* can be removed and created again.                                       *)
RequestsStart == <<Start(b1, ua, 2), Start(b2, ua, 1)>>
RequestsRefs == (m1 :> <<At(b1, 1), At(b2, 0)>>)

-----------------------------------------------------------------------------
(* share: one selection at a time, two models that share no backend.        *)
ShareStart == <<Start(b1, ua, 1), Start(b2, ua, 1), Start(b3, ua, 1),
                Start(b4, ua, 1), Start(b5, ua, 1)>>
ShareRefs == (m1 :> <<At(b1, 3), At(b2, 1), At(b3, 2)>>) @@ (m2 :> <<At(b4, 4), At(b5, 3)>>)

-----------------------------------------------------------------------------
(* shared: one selection at a time, two models that share a backend.        *)
SharedStart == <<Start(b1, ua, 1), Start(b2, ua, 1), Start(b3, ua, 1)>>
SharedRefs == (m1 :> <<At(b1, 1), At(b2, 1)>>) @@ (m2 :> <<At(b1, 1), At(b2, 1), At(b3, 1)>>)

-----------------------------------------------------------------------------
(* race: two selections of the same model at a time.                        *)
RaceRefs == (m1 :> <<At(b1, 1), At(b2, 1)>>)
=============================================================================
