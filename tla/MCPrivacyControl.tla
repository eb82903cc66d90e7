---------------------- MODULE MCPrivacyControl ----------------------
(* Small instances of PrivacyControl for TLC.                         *)
EXTENDS PrivacyControl, TLC

\* Requests differ in nothing but their names.
Symmetry == Permutations(Requests)

=====================================================================
