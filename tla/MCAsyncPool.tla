----------------------------- MODULE MCAsyncPool -----------------------------
(* An instance of AsyncPool for TLC. *)
EXTENDS AsyncPool

CONSTANTS f1, f2

TwoFunctors == {f1, f2}
=============================================================================
