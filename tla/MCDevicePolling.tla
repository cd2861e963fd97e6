--------------------------- MODULE MCDevicePolling ---------------------------
(* DevicePolling with two interchangeable pollers. *)
EXTENDS DevicePolling, TLC

PollerSymmetry == Permutations(Pollers)
=============================================================================
