------------------------------ MODULE Discovery ------------------------------
(***************************************************************************)
(* Discovery of devices: device_manager.py with its mDNS browser and       *)
(* Bluetooth scan threads, and the list the window draws.  A found device  *)
(* is entered under the lock; the list is copied in a second lock hold and *)
(* handed to the main thread after it, so two finders may cross.  A scan   *)
(* thread powers the adapter, starts "bluetoothctl scan on" and reads it;  *)
(* the process it reads is an attribute all scan threads share, and the    *)
(* switch may be turned off and on while a thread is anywhere.             *)
(***************************************************************************)
EXTENDS Integers

CONSTANTS Wifi, Bluetooth, Manual,   \* addresses by the way they are found
          Tools,                     \* Bluetooth tools the machine may have
          MaxStarts                  \* bound: times discovery is turned on

ASSUME DiscoveryAssumption ==
    MaxStarts \in Nat \ {0} /\ Tools \subseteq {"bluetoothctl", "hcitool", "none"}

Addresses == Wifi \cup Bluetooth \cup Manual
Scans == 1..MaxStarts          \* a scan thread, and the process it starts
Browser == 0                   \* who may enter a device: the mDNS browser,
Main == -1                     \* the main thread, and the scan threads
Finders == {Browser, Main} \cup Scans
NoProc == 0
Nobody == -2
Nothing == [d \in Addresses |-> "none"]

VARIABLES
    tool,       \* has_bluetoothctl, has_hcitool
    active,     \* _discovery_active, mdns.running and ble.running
    zeroconf,   \* the mDNS browser is open
    starts,     \* times discovery was turned on
    scan,       \* each scan thread's place
    reads,      \* the process whose output each scan thread reads
    procs,      \* processes that live
    scanProc,   \* _scan_proc
    late,       \* history: a stop came before a scan thread had started its process
    devices,    \* DeviceManager.devices: who wrote each address's record
    pending,    \* each finder's notify_listeners: not called, called, or its copy
    shown,      \* the list the window shows once it has drawn all it was given
    newest,     \* history: who holds the newest copy, if it was not handed over
    overtaken   \* history: an older copy was handed over after it, or it went to nobody

switch  == <<tool, active, zeroconf, starts, late>>
threads == <<scan, reads, procs, scanProc>>
list    == <<devices, pending, shown, newest, overtaken>>
discoveryVars == <<switch, threads, list>>

Pending(at, copy) == [at |-> at, copy |-> copy]
Idle == Pending("idle", Nothing)
Lists == [Addresses -> {"none", "mdns", "ble", "manual"}]

DiscoveryTypeOK ==
    /\ tool \in Tools /\ active \in BOOLEAN /\ starts \in 0..MaxStarts
    /\ zeroconf \in BOOLEAN /\ (zeroconf => active)
    /\ scan \in [Scans -> {"none", "power", "check", "reading", "hci", "listing", "ended"}]
    /\ reads \in [Scans -> Scans \cup {NoProc}]
    /\ procs \subseteq Scans /\ scanProc \in Scans \cup {NoProc} /\ late \in BOOLEAN
    /\ devices \in Lists /\ shown \in Lists
    /\ pending \in [Finders -> [at : {"idle", "due", "copied"}, copy : Lists]]
    /\ newest \in Finders \cup {Nobody} /\ overtaken \in BOOLEAN

DiscoveryInit ==
    /\ tool \in Tools
    /\ active = FALSE /\ zeroconf = FALSE /\ starts = 0 /\ late = FALSE
    /\ scan = [k \in Scans |-> "none"] /\ reads = [k \in Scans |-> NoProc]
    /\ procs = {} /\ scanProc = NoProc
    /\ devices = Nothing /\ pending = [f \in Finders |-> Idle]
    /\ shown = Nothing /\ newest = Nobody /\ overtaken = FALSE

-----------------------------------------------------------------------------
(* The switch. *)

\* the service is registered and the browser made ...
StartZeroconf == zeroconf' = TRUE

\* ... or one of them fails: an error that reaches nobody, for no on_error is given
StartFailure == zeroconf' = FALSE

Broadcast == StartZeroconf \/ StartFailure

\* where the scan thread begins
FirstPlace == CASE tool = "bluetoothctl" -> "power" [] tool = "hcitool" -> "hci"
                [] OTHER -> "listing"

StartScanning(k) == scan' = [scan EXCEPT ![k] = FirstPlace]

StartDiscovery ==
    /\ ~active /\ starts < MaxStarts /\ pending[Main] = Idle
    /\ active' = TRUE /\ starts' = starts + 1
    /\ Broadcast /\ StartScanning(starts + 1)
    /\ UNCHANGED <<tool, late, reads, procs, scanProc, list>>

CloseMdns == zeroconf' = FALSE

\* Mutant: the process is forgotten and not ended.
StopScanForgets == UNCHANGED procs /\ scanProc' = NoProc

\* the process of _scan_proc is ended
StopScan == procs' = procs \ {scanProc} /\ scanProc' = NoProc

StopDiscovery ==
    /\ active /\ pending[Main] = Idle /\ active' = FALSE
    /\ CloseMdns /\ StopScan
    /\ late' = (late \/ \E k \in Scans : scan[k] = "power")
    /\ UNCHANGED <<tool, starts, scan, reads, list>>

-----------------------------------------------------------------------------
(* The scan threads. *)

\* power on, then the scan process; if either cannot be run the thread only lists
StartScan(k) ==
    /\ scan[k] = "power"
    /\ \/ /\ procs' = procs \cup {k} /\ scanProc' = k
          /\ scan' = [scan EXCEPT ![k] = "check"]
       \/ /\ scan' = [scan EXCEPT ![k] = "listing"] /\ UNCHANGED <<procs, scanProc>>
    /\ UNCHANGED <<switch, reads, list>>

\* the heads of the loops: running, and poll() of whatever process is
\* _scan_proc now (None raises, which leads to the listing loop as well)
Check(k) ==
    /\ scan[k] = "check" /\ pending[k] = Idle
    /\ scan' = [scan EXCEPT ![k] = IF ~active THEN "ended"
                                   ELSE IF scanProc \in procs THEN "reading" ELSE "listing"]
    /\ reads' = [reads EXCEPT ![k] = IF scan'[k] = "reading" THEN scanProc ELSE NoProc]
    /\ UNCHANGED <<switch, procs, scanProc, list>>

\* the process writes a line that names no device, or has ended
ReadLine(k) ==
    /\ scan[k] = "reading"
    /\ scan' = [scan EXCEPT ![k] = "check"] /\ reads' = [reads EXCEPT ![k] = NoProc]
    /\ UNCHANGED <<switch, procs, scanProc, list>>

\* the process ends by itself
ScanExits(k) ==
    /\ k \in procs /\ procs' = procs \ {k}
    /\ UNCHANGED <<switch, scan, reads, scanProc, list>>

\* the loop around hcitool, or the listing loop, sees that discovery is off
LoopEnds(k) ==
    /\ scan[k] \in {"hci", "listing"} /\ pending[k] = Idle /\ ~active
    /\ scan' = [scan EXCEPT ![k] = "ended"]
    /\ UNCHANGED <<switch, reads, procs, scanProc, list>>

-----------------------------------------------------------------------------
(* Found devices: a record replaces what another finder wrote. *)

\* up to the end of the lock
Enter(f, d, from) ==
    /\ pending[f] = Idle
    /\ devices' = [devices EXCEPT ![d] = from]
    /\ pending' = [pending EXCEPT ![f] = Pending("due", Nothing)]
    /\ UNCHANGED <<shown, newest, overtaken>>

MdnsFound(d) == Enter(Browser, d, "mdns")
BleFound(k, d) == Enter(k, d, "ble")
Upsert(d) == Enter(Main, d, "manual")

\* a service is added or updated; nothing removes a device
Report == zeroconf /\ \E d \in Wifi : MdnsFound(d) /\ UNCHANGED <<switch, threads>>

UserAdds == \E d \in Manual : Upsert(d) /\ UNCHANGED <<switch, threads>>

\* whatever the tool names
ReportDevice(k) == \E d \in Bluetooth : BleFound(k, d) /\ UNCHANGED <<switch, procs, scanProc>>

\* a line of the scan
LineFinds(k) ==
    /\ scan[k] = "reading" /\ scan' = [scan EXCEPT ![k] = "check"]
    /\ reads' = [reads EXCEPT ![k] = NoProc] /\ ReportDevice(k)

\* an entry of "bluetoothctl devices"
ListFinds(k) ==
    scan[k] = "listing" /\ tool = "bluetoothctl" /\ UNCHANGED <<scan, reads>> /\ ReportDevice(k)

\* a line of "hcitool lescan" or "hcitool scan"
HciFinds(k) == scan[k] = "hci" /\ UNCHANGED <<scan, reads>> /\ ReportDevice(k)

\* Mutant: the copy is the list of the last update.
CopyShown(f) ==
    /\ pending[f].at = "due" /\ newest' = f
    /\ pending' = [pending EXCEPT ![f] = Pending("copied", shown)]
    /\ overtaken' = FALSE /\ UNCHANGED <<devices, shown, switch, threads>>

\* notify_listeners under the lock
Copy(f) ==
    /\ pending[f].at = "due" /\ newest' = f
    /\ pending' = [pending EXCEPT ![f] = Pending("copied", devices)]
    /\ overtaken' = FALSE /\ UNCHANGED <<devices, shown, switch, threads>>

\* every start registers a listener of its own; all get the same copy
Listeners == starts

\* ... and after it: the listeners queue the copy for the main thread, which
\* draws the whole list anew
HandOver(f) ==
    /\ pending[f].at = "copied" /\ Listeners > 0
    /\ shown' = pending[f].copy /\ pending' = [pending EXCEPT ![f] = Idle]
    /\ overtaken' = (newest = Nobody) /\ newest' = IF newest = f THEN Nobody ELSE newest
    /\ UNCHANGED <<devices, switch, threads>>

\* before the first start there is no listener
NobodyListens(f) ==
    /\ pending[f].at = "copied" /\ Listeners = 0
    /\ pending' = [pending EXCEPT ![f] = Idle] /\ newest' = Nobody /\ overtaken' = TRUE
    /\ UNCHANGED <<devices, shown, switch, threads>>

ScanStep(k) == StartScan(k) \/ Check(k) \/ LoopEnds(k)
ScanFinds(k) == LineFinds(k) \/ ListFinds(k) \/ HciFinds(k)

DiscoveryNext ==
    \/ StartDiscovery \/ StopDiscovery \/ Report \/ UserAdds
    \/ \E k \in Scans : ScanStep(k) \/ ReadLine(k) \/ ScanExits(k) \/ ScanFinds(k)
    \/ \E f \in Finders : Copy(f) \/ HandOver(f) \/ NobodyListens(f)

DiscoverySpec == DiscoveryInit /\ [][DiscoveryNext]_discoveryVars

-----------------------------------------------------------------------------
(* Properties. *)

\* When nothing is on its way the window shows every device that was found, as
\* the finder that came last described it, unless the last to hand over its copy
\* was overtaken by a newer one, or nobody listened yet (device_manager.py:150-168).
ShownUnlessOvertaken ==
    (\A f \in Finders : pending[f] = Idle) => shown = devices \/ overtaken

\* A scan process that nothing will end, because _scan_proc is another or none,
\* comes only from a thread that discovery was turned off on before it had
\* started its process (ble_discovery.py:44-57, 236-255).
StrayScanIsLate == procs \subseteq {scanProc} \/ late
=============================================================================
