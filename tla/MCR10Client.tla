---------------------------- MODULE MCR10Client ----------------------------
(* Model-checking instance of R10Client against an arbitrary device.        *)
EXTENDS R10Client

CONSTANTS OldHandle   \* handle of an earlier session's notifications

Data(frame) == [handle |-> 1, frame |-> frame]
Stale(frame) == [handle |-> OldHandle, frame |-> frame]

MCInputs ==
  {[handle |-> 0, frame |-> RegisterResponse(status, 1)] : status \in {"Success", "Rejected"}}
  \cup {Data(frame) : frame \in
           {DeviceInfo(TRUE), DeviceInfo(FALSE), Configuration, Corrupt, OtherFrame,
            Fit("FitData"), AckOf("Configuration", 0), AckOf("Configuration", 5),
            Result("SubscribeResult", FALSE), WakeResult(1), WakeResult(2),
            StateChange("Waiting"), StateChange("Standby"),
            Report("Error"), Report("Malformed")}
           \cup {Shot(id) : id \in ShotIds}}
  \cup {Stale(Shot(1)), [handle |-> 0, frame |-> DeviceInfo(FALSE)]}
=============================================================================
