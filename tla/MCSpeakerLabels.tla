--------------------------- MODULE MCSpeakerLabels ---------------------------
(* A small instance of SpeakerLabels: two recordings of two speakers, whose *)
(* voices are alike, a tie, or far apart.                                   *)
EXTENDS SpeakerLabels, TLC

MCVoice == {2, 4, 9}
MCSymmetry == Permutations(Name)
MCSpeaks == [r \in Recording |-> [s \in Label |-> IF s = "A" THEN 2 ELSE IF r = "r1" THEN 4 ELSE 9]]
==============================================================================
