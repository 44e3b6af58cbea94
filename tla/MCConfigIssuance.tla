------------------------- MODULE MCConfigIssuance -------------------------
EXTENDS ConfigIssuance, TLC

DeviceSymmetry == Permutations(Devices)
===========================================================================
