-------------------------- MODULE MCDeviceMonitor --------------------------
(* Instances of DeviceMonitor for TLC. *)
EXTENDS DeviceMonitor

\* The chassis motor alone.
OneJoint == {<<1>>}
=============================================================================
