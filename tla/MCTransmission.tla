--------------------------- MODULE MCTransmission ---------------------------
(* Small instances of Transmission for TLC. *)
EXTENDS Transmission, TLC
CONSTANTS a1, d1, d2, s1, s2
MCAttempts == {a1}
OneDevice == {d1}
TwoDevices == {d1, d2}
OneCaller == {s1}
TwoCallers == {s1, s2}
NoCloser == {}
OneCloser == {"user"}
CallerSymmetry == Permutations(TwoCallers)
==============================================================================
