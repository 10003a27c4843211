------------------------ MODULE MCPermissionService ------------------------
(***************************************************************************)
(* The instance of PermissionService that TLC checks: two calls with one    *)
(* permission key, and a call with another key that a hook approved.        *)
(***************************************************************************)
EXTENDS PermissionService, TLC

CONSTANTS c1, c2, c3, k1, k2, s1

MCKeyOf == c1 :> k1 @@ c2 :> k1 @@ c3 :> k2
MCSessionOf == c1 :> s1 @@ c2 :> s1 @@ c3 :> s1
=============================================================================
