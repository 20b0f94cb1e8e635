---------------------------- MODULE MCCacheRemember ---------------------------
(* Small instances of CacheRemember.                                        *)
EXTENDS CacheRemember

CONSTANTS r1, r2, r3

(* All callers plain; all cancelable; one of each kind.                     *)
Plain == [unprotected |-> {}, cancelable |-> {}, impatient |-> {r1},
  maxVersion |-> 1]
AllCancelable == [unprotected |-> {}, cancelable |-> {r1, r2, r3}, impatient |-> {r1, r2},
  maxVersion |-> 0]
Mixed == [unprotected |-> {r3}, cancelable |-> {r1}, impatient |-> {r1},
  maxVersion |-> 1]

Mixtures == {Plain, AllCancelable, Mixed}
OnlyCancelable == {AllCancelable}
===============================================================================
