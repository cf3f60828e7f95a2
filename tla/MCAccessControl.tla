-------------------------- MODULE MCAccessControl --------------------------
(***************************************************************************)
(* Instance of AccessControl for TLC: user u1 has key k1 in the            *)
(* configuration file, which later names u2, with k2, instead; k3 is left  *)
(* to be generated.  A token is two fractions, so that the rates of one    *)
(* and three are half a token and one and a half per second.               *)
(***************************************************************************)
EXTENDS AccessControl, TLC

CONSTANTS u1, u2, k1, k2, k3, r1, r2

Slow == [burst |-> 1, rate |-> 1]
Fast == [burst |-> 2, rate |-> 3]

JustU1 == u1 :> [key |-> k1, limit |-> NoLimit]
JustU2 == u2 :> [key |-> k2, limit |-> Fast]
MCLimits == {Fast}
MCYamls == {JustU1, JustU2}
MCSymmetry == Permutations(Clients)
=============================================================================
