-------------------------- MODULE MCDeviceMonitors --------------------------
\* Two devices, and every platform in turn.
EXTENDS DeviceMonitors
CONSTANTS a, b
=============================================================================
