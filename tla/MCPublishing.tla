---------------------------- MODULE MCPublishing ----------------------------
(* Small instances of Publishing for TLC.                                  *)
EXTENDS Publishing, TLC

CONSTANTS s1, s2, r1, r2, p1, l1, pic1, pic2, empty, b1

Looks1 == {{}, {pic1}}
Looks2 == {{}, {pic1}, {pic2}}

Requests == Permutations(Request)

=============================================================================
