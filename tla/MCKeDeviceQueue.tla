-------------------------- MODULE MCKeDeviceQueue --------------------------
(* KeDeviceQueue for TLC: three IRPs, two of them with the same key.          *)
EXTENDS KeDeviceQueue
CONSTANTS i1, i2, i3
SomeKeys == [i \in Irps |-> IF i = i1 THEN 2 ELSE 1]
=============================================================================
