---------------------------- MODULE MCCookieCoap ----------------------------
(* Instances of CookieCoap for TLC.                                        *)
EXTENDS CookieCoap, TLC

\* Addresses and tokens are interchangeable: sound for the safety runs.
Symmetry == Permutations(Addr) \cup Permutations(Token)
=============================================================================
