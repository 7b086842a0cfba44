\* The program is started, nothing fails, and a signal is sent.
CONSTANTS
    OnDemandModes = {FALSE}
    MayFailAt = {}
SPECIFICATION AppSpec
PROPERTY SignalStops
CHECK_DEADLOCK FALSE
