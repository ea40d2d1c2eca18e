----------------------------- MODULE MCDeviceMonitor -----------------------------
(* Small instances of DeviceMonitor for TLC. *)
EXTENDS DeviceMonitor

CONSTANTS m1, m2, hourly

MCMonitors == {m1, m2}
MCRenewers == {hourly}
MCV1       == {m1}
MCNoClient == 0
=============================================================================
