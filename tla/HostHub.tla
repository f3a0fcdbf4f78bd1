------------------------------ MODULE HostHub ------------------------------
(***************************************************************************)
(* The USB host of HOST_KM: detection and enumeration of the device at the *)
(* root port and, if that is a hub, of the devices behind it (app_km.c,    *)
(* ch32l103_usbfs_host.c).  The host is one polling loop; devices are      *)
(* plugged and pulled at any moment.  Transfers are reduced to whom they   *)
(* reach: every device that answers at the address register's value.       *)
(***************************************************************************)
EXTENDS Naturals, FiniteSets

CONSTANTS
  NPorts,      \* ports of the hub, bPortNum
  RootTries,   \* attempts to enumerate the root device
  MaxMoves,    \* devices plugged or pulled
  MaxFaults    \* transfers that fail in all their repetitions

ASSUMPTION HostAssumption ==
  NPorts \in Nat \ {0} /\ RootTries \in Nat \ {0} /\ MaxMoves \in Nat /\ MaxFaults \in Nat

Ports      == 0 .. NPorts - 1
RootPort   == NPorts                  \* in excuse, the root device
DEV_ADDR   == 2                       \* USB_DEVICE_ADDR
ROOT_DEV_DISCONNECT == 0
ROOT_DEV_CONNECTED  == 1
ROOT_DEV_FAILED     == 2
ROOT_DEV_SUCCESS    == 3

VARIABLES
  \* the devices: at the root port, and behind the hub
  kind, root_addr, powered, dev,
  \* the host's port hardware: event flag, port enable bit, address register
  detect, port_en, SelfAddr,
  \* RootHubDev, and which descriptors HostCtl holds
  bStatus, bType, bAddress, Device, HostCtl,
  \* the loop: position, attempts, hub_dat, hub_port
  pc, enum_cnt, hub_dat, hub_port,
  \* bounds, and what excuses a device that is not found
  moves, faults, excuse

devVars  == <<kind, root_addr, powered, dev>>
portVars == <<detect, port_en, SelfAddr>>
rootVars == <<bStatus, bType, bAddress>>
loopVars == <<pc, enum_cnt, hub_dat, hub_port>>
vars == <<devVars, portVars, rootVars, Device, HostCtl, loopVars, moves, faults, excuse>>

Unplugged == [there |-> 0, change |-> 0, on |-> 0, addr |-> 0]
Unknown   == [bStatus |-> ROOT_DEV_DISCONNECT, bAddress |-> 0, DeviceIndex |-> 0]

Init ==
  /\ kind = "none" /\ root_addr = 0 /\ powered = 0 /\ dev = [p \in Ports |-> Unplugged]
  /\ detect = 0 /\ port_en = 0 /\ SelfAddr = 0
  /\ bStatus = ROOT_DEV_DISCONNECT /\ bType = "none" /\ bAddress = 0
  /\ Device = [p \in Ports |-> Unknown] /\ HostCtl = [x \in 0 .. NPorts |-> "none"]
  /\ pc = "check" /\ enum_cnt = 0 /\ hub_dat = {} /\ hub_port = 0
  /\ moves = 0 /\ faults = 0 /\ excuse = {}

-----------------------------------------------------------------------------
(* Plugging and pulling.                                                   *)

HubThere == kind = "hub" /\ port_en = 1

Enumerating == pc \in {"attach", "identify", "classify"}

PlugRoot ==
  /\ kind = "none" /\ kind' \in {"hid", "hub"} /\ detect' = 1
  /\ UNCHANGED <<root_addr, powered, dev, port_en, SelfAddr, excuse>>

(* What a hub reset or without power knows of its ports.                   *)
Reset(d) == [p \in Ports |-> [d[p] EXCEPT !.change = 0, !.on = 0, !.addr = 0]]

(* The port enable bit clears itself.  A device pulled in the middle of    *)
(* its enumeration may be marked as failed.                                *)
PullRoot ==
  /\ kind # "none" /\ kind' = "none" /\ detect' = 1 /\ port_en' = 0
  /\ root_addr' = 0 /\ powered' = 0 /\ dev' = Reset(dev)
  /\ excuse' = IF Enumerating THEN excuse \cup {RootPort} ELSE excuse
  /\ UNCHANGED SelfAddr

(* A port without power notices no change.  A device that comes back       *)
(* before its disconnection was seen is addressed where the old one was.   *)
Unseen(p) == dev[p].there = 0 /\ Device[p].bStatus = ROOT_DEV_SUCCESS

PlugOrPullPort ==
  \E p \in Ports :
    /\ dev' = [dev EXCEPT ![p] = [Unplugged EXCEPT !.there = 1 - dev[p].there,
                                                   !.change = powered]]
    /\ excuse' = IF Unseen(p) THEN excuse \cup {p} ELSE excuse
    /\ UNCHANGED <<kind, root_addr, powered, portVars>>

Move ==
  /\ moves < MaxMoves /\ moves' = moves + 1
  /\ PlugRoot \/ PullRoot \/ PlugOrPullPort
  /\ UNCHANGED <<rootVars, Device, HostCtl, loopVars, faults>>

(* A transfer to a device that is there fails in all its repetitions.      *)
Fault == faults < MaxFaults /\ faults' = faults + 1

-----------------------------------------------------------------------------
(* The root port.                                                          *)

(* USBFSH_CheckRootHubPortStatus consumes the event.  It ignores a device  *)
(* that comes back before its disconnection was seen, after a failure; and *)
(* what the host knows of the ports survives a hub that comes back sooner. *)
Remembered == {p \in Ports : Device[p] # Unknown}

Connected ==
  /\ bStatus' = ROOT_DEV_CONNECTED /\ pc' = "attach" /\ enum_cnt' = 0
  /\ excuse' = (excuse \ {RootPort}) \cup Remembered
  /\ UNCHANGED <<bType, bAddress, Device, HostCtl>>

Disconnected ==
  /\ bStatus' = ROOT_DEV_DISCONNECT /\ bType' = "none" /\ bAddress' = 0
  /\ Device' = [p \in Ports |-> Unknown] /\ HostCtl' = [HostCtl EXCEPT ![0] = "none"]
  /\ pc' = "poll" /\ excuse' = {}
  /\ UNCHANGED enum_cnt

CheckRootHubPortStatus ==
  /\ pc = "check" /\ detect' = 0
  /\ IF detect = 1 /\ kind = "none" THEN Disconnected
     ELSE IF /\ detect = 1
             /\ \/ bStatus = ROOT_DEV_DISCONNECT
                \/ bStatus # ROOT_DEV_FAILED /\ port_en = 0
     THEN Connected
     ELSE pc' = "poll" /\ UNCHANGED <<rootVars, Device, HostCtl, enum_cnt, excuse>>
  /\ UNCHANGED <<devVars, port_en, SelfAddr, hub_dat, hub_port, moves, faults>>

(* An attempt failed: the next one, or the result of USBH_EnumRootDevice.  *)
(* ERR_USB_DISCON leaves the status as it was.                             *)
AgainOver(status) ==                                              \* mutant
  IF enum_cnt' <= RootTries THEN pc' = "attach" /\ UNCHANGED bStatus
  ELSE pc' = "poll" /\ bStatus' = status
Again(status) ==
  IF enum_cnt' < RootTries THEN pc' = "attach" /\ UNCHANGED bStatus
  ELSE pc' = "poll" /\ bStatus' = status

(* The reset clears the event if a device is there, and waits for one.     *)
ResetRootHubPort ==
  /\ pc = "attach" /\ enum_cnt' = enum_cnt + 1 /\ SelfAddr' = 0
  /\ IF kind = "none"
     THEN Again(bStatus) /\ UNCHANGED <<detect, port_en, devVars>>
     ELSE /\ pc' = "identify" /\ detect' = 0 /\ port_en' = 1
          /\ root_addr' = 0 /\ powered' = 0 /\ dev' = Reset(dev)
          /\ UNCHANGED <<bStatus, kind>>
  /\ UNCHANGED <<bType, bAddress, Device, HostCtl, hub_dat, hub_port, moves, faults, excuse>>

(* Descriptors, address and configuration.                                 *)
Identify ==
  /\ pc = "identify" /\ UNCHANGED enum_cnt
  /\ \/ /\ port_en = 1 /\ pc' = "classify"
        /\ root_addr' = DEV_ADDR /\ SelfAddr' = DEV_ADDR /\ bAddress' = DEV_ADDR
        /\ bType' = kind
        /\ UNCHANGED <<bStatus, faults, excuse>>
     \/ /\ port_en = 0 /\ Again(ROOT_DEV_FAILED)
        /\ UNCHANGED <<root_addr, SelfAddr, bType, bAddress, faults, excuse>>
     \/ /\ port_en = 1 /\ Fault /\ Again(ROOT_DEV_FAILED)
        /\ excuse' = excuse \cup {RootPort}
        /\ UNCHANGED <<root_addr, SelfAddr, bType, bAddress>>
  /\ UNCHANGED <<kind, powered, dev, detect, port_en, Device, HostCtl, hub_dat, hub_port, moves>>

(* USBH_EnumHidDevice returns success whatever its transfers do.           *)
EnumHidDevice ==
  /\ pc = "classify" /\ bType = "hid" /\ pc' = "poll"
  /\ HostCtl' = [HostCtl EXCEPT ![0] = "hid"] /\ bStatus' = ROOT_DEV_SUCCESS
  /\ excuse' = excuse \ {RootPort}
  /\ UNCHANGED <<devVars, portVars, bType, bAddress, Device, enum_cnt, hub_dat, hub_port,
                 moves, faults>>

(* The hub descriptor, and power for the ports.                            *)
EnumHubDevice ==
  /\ pc = "classify" /\ bType = "hub" /\ pc' = "poll"
  /\ HostCtl' = [HostCtl EXCEPT ![0] = "hub"]
  /\ \/ /\ HubThere /\ bStatus' = ROOT_DEV_SUCCESS
        /\ powered' = 1 /\ dev' = [p \in Ports |-> [dev[p] EXCEPT !.change = dev[p].there]]
        /\ excuse' = excuse \ {RootPort} /\ UNCHANGED faults
     \/ /\ ~HubThere /\ bStatus' = ROOT_DEV_FAILED
        /\ UNCHANGED <<powered, dev, faults, excuse>>
     \/ /\ HubThere /\ Fault /\ bStatus' = ROOT_DEV_FAILED
        /\ excuse' = excuse \cup {RootPort} /\ UNCHANGED <<powered, dev>>
  /\ UNCHANGED <<kind, root_addr, portVars, bType, bAddress, Device, enum_cnt, hub_dat,
                 hub_port, moves>>

-----------------------------------------------------------------------------
(* The ports of the hub.  The address register is set for the hub once,    *)
(* before its status is polled; the enumeration of a port sets it again.   *)

Changes == {p \in Ports : dev[p].change = 1}

HubAddrKept == SelfAddr                                           \* mutant
HubAddr     == bAddress

PollHub ==
  /\ pc = "poll"
  /\ IF bStatus = ROOT_DEV_SUCCESS /\ bType = "hub"
     THEN /\ SelfAddr' = HubAddr
          /\ IF HubThere /\ root_addr = SelfAddr' /\ HostCtl[0] = "hub" /\ Changes # {}
             THEN pc' = "pre1" /\ hub_dat' = Changes /\ hub_port' = 0
             ELSE pc' = "check" /\ UNCHANGED <<hub_dat, hub_port>>
     ELSE pc' = "check" /\ UNCHANGED <<SelfAddr, hub_dat, hub_port>>
  /\ UNCHANGED <<devVars, detect, port_en, rootVars, Device, HostCtl, enum_cnt, moves, faults,
                 excuse>>

Asked == hub_port \in hub_dat /\ HubThere /\ SelfAddr = root_addr

NextPort == IF hub_port + 1 < NPorts
            THEN pc' = "pre1" /\ hub_port' = hub_port + 1
            ELSE pc' = "check" /\ hub_port' = 0

(* What is known of a port's device is cleared.                            *)
Forget ==
  /\ Device' = [Device EXCEPT ![hub_port] = Unknown]
  /\ HostCtl' = [HostCtl EXCEPT ![Device[hub_port].DeviceIndex] = "none"]
  /\ hub_dat' = hub_dat \ {hub_port}
  /\ NextPort

(* The connection change is acknowledged and the port looked at again.     *)
(* ERR_USB_DISCON means an empty port, or that the hub itself was pulled   *)
(* and the transfer gave up for that: the loop does not tell them apart.   *)
(* After any other error it goes on as if there had been no change.  A     *)
(* device that never got an index has the hub's, and clears its entry.     *)
PreEnum1 ==
  /\ pc = "pre1"
  /\ \/ /\ Asked /\ dev[hub_port].change = 1
        /\ dev' = [dev EXCEPT ![hub_port].change = 0]
        /\ \/ /\ dev[hub_port].there = 0 /\ Forget
              /\ excuse' = IF Device[hub_port].DeviceIndex = 0 THEN excuse \cup Ports
                           ELSE excuse \ {hub_port}
           \/ /\ dev[hub_port].there = 1 /\ pc' = "pre2"
              /\ UNCHANGED <<Device, HostCtl, hub_dat, hub_port, excuse>>
        /\ UNCHANGED faults
     \/ /\ ~(Asked /\ dev[hub_port].change = 1) /\ pc' = "pre2"
        /\ UNCHANGED <<dev, Device, HostCtl, hub_dat, hub_port, faults, excuse>>
     \/ /\ hub_port \in hub_dat /\ detect = 1 /\ port_en = 0 /\ Forget
        /\ excuse' = excuse \ {hub_port}
        /\ UNCHANGED <<dev, faults>>
     \/ /\ Asked /\ Fault /\ pc' = "pre2"
        /\ dev' \in {dev, [dev EXCEPT ![hub_port].change = 0]}
        /\ excuse' = excuse \cup {hub_port}
        /\ UNCHANGED <<Device, HostCtl, hub_dat, hub_port>>
  /\ UNCHANGED <<kind, root_addr, powered, portVars, rootVars, enum_cnt, moves>>

IndexFrom0(p) == p                                                \* mutant
Index(p) == p + 1

(* Port reset: the device answers at address 0 from now on.                *)
Bounced   == dev[hub_port].change = 1    \* it will be reset and addressed again
Restarted == [dev EXCEPT ![hub_port] = [@ EXCEPT !.on = 1, !.addr = 0]]

PreEnum2 ==
  /\ pc = "pre2"
  /\ \/ /\ Asked /\ dev[hub_port].there = 1 /\ dev' = Restarted
        /\ Device' = [Device EXCEPT ![hub_port] =
                       [@ EXCEPT !.bStatus = ROOT_DEV_CONNECTED, !.DeviceIndex = Index(hub_port)]]
        /\ excuse' = IF Bounced THEN excuse \cup {hub_port} ELSE excuse
        /\ pc' = "port" /\ UNCHANGED <<hub_dat, hub_port, faults>>
     \/ /\ ~(Asked /\ dev[hub_port].there = 1)
        /\ hub_dat' = hub_dat \ {hub_port} /\ NextPort
        /\ UNCHANGED <<dev, Device, faults, excuse>>
     \/ /\ Asked /\ dev[hub_port].there = 1 /\ Fault /\ dev' \in {dev, Restarted}
        /\ hub_dat' = hub_dat \ {hub_port} /\ NextPort
        /\ excuse' = excuse \cup {hub_port} /\ UNCHANGED Device
  /\ UNCHANGED <<kind, root_addr, powered, portVars, rootVars, HostCtl, enum_cnt, moves>>

(* Everyone behind the hub who answers at the address the host holds for   *)
(* the port: 0 for one just found, but still the old one if the port's     *)
(* disconnection was not seen.                                             *)
Target     == Device[hub_port].bAddress
Answering  == {p \in Ports : HubThere /\ dev[p].on = 1 /\ dev[p].addr = Target}
NewAddr    == Device[hub_port].DeviceIndex + DEV_ADDR
Addressed  == [p \in Ports |-> IF p \in Answering THEN [dev[p] EXCEPT !.addr = NewAddr]
                               ELSE dev[p]]

(* Once a device was left behind half enumerated, another port may be      *)
(* enumerated together with it, or in its place.                           *)
Confused == IF excuse \cap Ports = {} \/ Answering = {hub_port} THEN {}
            ELSE Answering \cup {hub_port}

PortFound ==
  /\ Answering # {} /\ dev' = Addressed /\ SelfAddr' = NewAddr
  /\ Device' = [Device EXCEPT ![hub_port] =
                 [@ EXCEPT !.bStatus = ROOT_DEV_SUCCESS, !.bAddress = NewAddr]]
  /\ HostCtl' = [HostCtl EXCEPT ![Device[hub_port].DeviceIndex] = "hid"]
  /\ excuse' = excuse \cup Confused
  /\ UNCHANGED faults

(* The host keeps the address it used last.                                *)
PortFailed(addr) ==
  /\ SelfAddr' = addr
  /\ Device' = [Device EXCEPT ![hub_port] =
                 [@ EXCEPT !.bStatus = ROOT_DEV_FAILED, !.bAddress = addr]]
  /\ UNCHANGED HostCtl

(* A transfer fails before the device has its address, or after.           *)
EnumHubPortDevice ==
  /\ pc = "port" /\ NextPort
  /\ \/ PortFound
     \/ /\ Answering = {} /\ PortFailed(Target) /\ UNCHANGED <<dev, faults, excuse>>
     \/ /\ Answering # {} /\ Fault /\ PortFailed(Target) /\ UNCHANGED dev
        /\ excuse' = excuse \cup {hub_port}
     \/ /\ Answering # {} /\ Fault /\ PortFailed(NewAddr) /\ dev' = Addressed
        /\ excuse' = excuse \cup {hub_port} \cup Confused
  /\ UNCHANGED <<kind, root_addr, powered, detect, port_en, rootVars, enum_cnt, hub_dat, moves>>

-----------------------------------------------------------------------------
Main == \/ CheckRootHubPortStatus \/ ResetRootHubPort \/ Identify
        \/ EnumHidDevice \/ EnumHubDevice
        \/ PollHub \/ PreEnum1 \/ PreEnum2 \/ EnumHubPortDevice

Next == Move \/ Main

Spec     == Init /\ [][Next]_vars
FairSpec == Spec /\ WF_vars(Main)

-----------------------------------------------------------------------------
(* Properties.                                                             *)

HostTypeOK ==
  /\ kind \in {"none", "hid", "hub"} /\ root_addr \in {0, DEV_ADDR} /\ powered \in 0 .. 1
  /\ dev \in [Ports -> [there : 0 .. 1, change : 0 .. 1, on : 0 .. 1,
                        addr : 0 .. NPorts + DEV_ADDR]]
  /\ detect \in 0 .. 1 /\ port_en \in 0 .. 1 /\ SelfAddr \in 0 .. NPorts + DEV_ADDR
  /\ bStatus \in 0 .. 3 /\ bType \in {"none", "hid", "hub"} /\ bAddress \in {0, DEV_ADDR}
  /\ Device \in [Ports -> [bStatus : 0 .. 3, bAddress : 0 .. NPorts + DEV_ADDR,
                           DeviceIndex : 0 .. NPorts]]
  /\ HostCtl \in [0 .. NPorts -> {"none", "hid", "hub"}]
  /\ pc \in {"check", "attach", "identify", "classify", "poll", "pre1", "pre2", "port"}
  /\ enum_cnt \in 0 .. RootTries /\ hub_dat \subseteq Ports /\ hub_port \in Ports
  /\ moves \in 0 .. MaxMoves /\ faults \in 0 .. MaxFaults
  /\ excuse \subseteq {RootPort} \cup Ports

(* A port's device is polled at an address at which it alone answers, and  *)
(* with its own endpoint description, as long as no device was left half   *)
(* enumerated: such a one still answers at address 0, or at the address    *)
(* that the next device is going to get.                                   *)
AddressIsOwn ==
  excuse \cap Ports = {} =>
    \A p \in Ports :
      Device[p].bStatus = ROOT_DEV_SUCCESS /\ HubThere /\ dev[p].on = 1
      => /\ Device[p].bAddress = dev[p].addr /\ HostCtl[Device[p].DeviceIndex] = "hid"
         /\ root_addr # dev[p].addr
         /\ \A q \in Ports \ {p} : dev[q].on = 1 => dev[q].addr # dev[p].addr

(* When the plugging comes to rest, every device is found, however it was  *)
(* plugged, pulled and plugged before and in whatever step of the loop;    *)
(* and one that is gone is not polled any more.  What excuses the host is  *)
(* recorded with the device.                                               *)
RootIsFound ==
  /\ bStatus = ROOT_DEV_SUCCESS /\ bType = kind /\ root_addr = bAddress
PortIsRight(p) ==
  /\ dev[p].there = 1 <=> Device[p].bStatus = ROOT_DEV_SUCCESS
  /\ dev[p].there = 1 => dev[p].on = 1 /\ dev[p].addr = Device[p].bAddress

DevicesAreFound ==
  /\ <>[](kind # "none" /\ RootPort \notin excuse) => <>[]RootIsFound
  /\ \A p \in Ports :
       <>[](kind = "hub" /\ excuse = {}) => <>[]PortIsRight(p)

=============================================================================
