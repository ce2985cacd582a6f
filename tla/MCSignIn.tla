------------------------------ MODULE MCSignIn ------------------------------
(* Model values for SignIn: handler invocations are interchangeable.        *)
EXTENDS SignIn, TLC

Symmetry == Permutations(Requests)

=============================================================================
