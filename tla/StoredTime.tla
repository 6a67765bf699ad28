----------------------------- MODULE StoredTime ------------------------------
(***************************************************************************)
(* How the database orders times.  Every time is stored as RFC3339Nano     *)
(* text (store.go, timeLayout), which leaves out a fraction that is zero,  *)
(* and SQL compares the text: "...:05Z" sorts after "...:05.5Z", because   *)
(* 'Z' is greater than '.'.  The exact second comes last in its second.    *)
(*                                                                         *)
(* A time is a number of ticks, res of them to the second, res at most 10: *)
(* one digit of fraction.                                                  *)
(***************************************************************************)
EXTENDS Integers

Second(t, res) == t \div res

TextKey(t, res) ==
    Second(t, res) * (res + 1) + (IF t % res = 0 THEN res ELSE t % res)
=============================================================================
