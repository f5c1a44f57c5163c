------------------------------ MODULE MCAdmin ------------------------------
(* Two requests at a time and two people.  Sign-ins alone, with a crash;    *)
(* four calls that make three changes; a sign-in beside two calls, with a   *)
(* crash; and a gateway that is being claimed.                              *)
EXTENDS AdminAuth, TLC

Mix(isClaimed, logins, calls, changes, claims, crashes) ==
  [claimed |-> isClaimed, logins |-> logins, calls |-> calls, changes |-> changes,
   claims |-> claims, crashes |-> crashes]

MCMixes ==
  {Mix(TRUE, 5, 0, 0, 0, 1), Mix(TRUE, 0, 4, 3, 0, 0), Mix(TRUE, 1, 2, 2, 0, 1), Mix(FALSE, 1, 2, 1, 2, 0)}

AnyNames == Permutations(People) \cup Permutations(Requests)

=============================================================================
