----------------------------- MODULE MCKeyStore ------------------------------
(* Model checking KeyStore with interchangeable public keys. *)
EXTENDS KeyStore, TLC

PublicKeys == Permutations(Public)
KeyPairs == Permutations(Pair)
Passwords == Permutations(Password)
Sym == PublicKeys \cup KeyPairs \cup Passwords
=============================================================================
