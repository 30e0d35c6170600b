------------------------------- MODULE JsArrays -------------------------------
(* Two operations of JavaScript's arrays that the admin's scripts use.     *)
EXTENDS Integers, Sequences, FiniteSetsExt

(* indexOf: the index where v is first found.                              *)
IndexOf(c, v) == Min({i \in DOMAIN c : c[i] = v})

(* splice(i, 1).                                                           *)
Splice(c, i) == [j \in 1..(Len(c) - 1) |-> c[IF j < i THEN j ELSE j + 1]]
=============================================================================
