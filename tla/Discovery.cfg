SPECIFICATION DiscoverySpec
CONSTANTS
    Wifi = {"w"}
    Bluetooth = {"b"}
    Manual = {"w"}
    Tools = {"bluetoothctl", "hcitool"}
    MaxStarts = 2
INVARIANTS ShownUnlessOvertaken StrayScanIsLate
CHECK_DEADLOCK FALSE
