--------------------------- MODULE MCMaintenance ---------------------------
EXTENDS Maintenance

ThreeIds == 1 .. 3
\* Two contents under one Message-ID in one source, and a message of another.
ThreeVersions == { "plain", "edited", "other" }
Messages == [ v \in ThreeVersions |-> IF v = "other" THEN "m2" ELSE "m1" ]
TwoSources == [ v \in ThreeVersions |-> IF v = "other" THEN "s2" ELSE "s1" ]
=============================================================================
