--------------------------- MODULE MCLockService ---------------------------
EXTENDS LockService

CONSTANTS a, b, z

(* What a strategy returns that takes a signed 32-bit CRC modulo 2.        *)
MCCustomIndex == -1

MCSalts == {<<0, 0, 0>>, <<1, 1, 1>>}
=============================================================================
