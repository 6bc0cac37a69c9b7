--------------------------- MODULE MCCheckedAccess ---------------------------
EXTENDS CheckedAccess
MCAddrs == 0 .. 3
\* Two areas that hold every length of MCLens.
FarAddrs == {0, 64}
FarMapped == 0 .. 127
MCLens == 0 .. 50
=============================================================================
