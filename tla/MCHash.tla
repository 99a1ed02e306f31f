------------------------------- MODULE MCHash -------------------------------
(***************************************************************************)
(* Three keys: equal? does not tell "a" and "b" apart.  In the first vector *)
(* all of them are in the last bucket, or their hash is out of range, and  *)
(* growth takes them apart; the user's hash function raises for "c".       *)
(***************************************************************************)
EXTENDS HashTable

MCHashOf(k) == IF k = "c" THEN Raises ELSE 13
MCClass(k) == IF k = "b" THEN "a" ELSE k
MCKinds == {<<"eq", "builtin">>, <<"equal", "user">>}
=============================================================================
