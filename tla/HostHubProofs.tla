--------------------------- MODULE HostHubProofs ---------------------------
(***************************************************************************)
(* Types and addresses of the host, for any number of ports, moves and     *)
(* faults.                                                                 *)
(***************************************************************************)
EXTENDS HostHub, TLAPS

Bringing == {"attach", "identify", "classify"}
PortLoop == {"pre1", "pre2", "port"}

(* The root device: attempts, and who has power when.                      *)
RootInv ==
  /\ pc = "attach" => enum_cnt < RootTries
  /\ kind = "none" => port_en = 0
  /\ powered = 1 => HubThere /\ bStatus = ROOT_DEV_SUCCESS
  /\ pc \in Bringing => powered = 0
  /\ pc \in PortLoop /\ HubThere => powered = 1

(* A port's device that answers has power, and so has a change bit; what   *)
(* is known of a port has its own index.                                   *)
PortInv ==
  \A p \in Ports :
    /\ dev[p].on = 1 => dev[p].there = 1 /\ powered = 1
    /\ dev[p].change = 1 => powered = 1
    /\ IF Device[p].bStatus = ROOT_DEV_DISCONNECT THEN Device[p] = Unknown
       ELSE Device[p].DeviceIndex = p + 1
    /\ pc = "port" /\ hub_port = p => Device[p].bStatus = ROOT_DEV_CONNECTED

OwnAddr(p) == p + 1 + DEV_ADDR
AtPort(p)  == pc = "port" /\ hub_port = p

(* Bits of hub_dat the loop has still to look at.                          *)
Ahead(p) == \/ pc = "pre1" /\ hub_port <= p
            \/ pc \in {"pre2", "port"} /\ hub_port < p

(* What nothing excuses.  A device answers at its own address, but for the *)
(* time between its reset and its enumeration; the host holds that address *)
(* for the port, and none for a device that is going to be enumerated.     *)
Answers(p)  == dev[p].on = 1 => IF AtPort(p) THEN dev[p].addr = 0 /\ dev[p].change = 0
                                ELSE /\ dev[p].addr = OwnAddr(p)
                                     /\ Device[p].bAddress = OwnAddr(p)
Known(p)    == IF Device[p].bStatus = ROOT_DEV_SUCCESS
               THEN Device[p].bAddress = OwnAddr(p) /\ HostCtl[p + 1] = "hid"
               ELSE Device[p].bAddress = 0
NewComer(p) == (\/ pc \in Bringing \/ AtPort(p)
                \/ dev[p].change = 1 /\ dev[p].there = 1) => Device[p].bAddress = 0
Promised(p) == p \in hub_dat =>
                 /\ Ahead(p) /\ HubThere => dev[p].change = 1
                 /\ pc = "pre2" /\ hub_port = p /\ Asked /\ dev[p].there = 1
                    /\ dev[p].change = 0 => Device[p].bAddress = 0
Clean(p)    == Answers(p) /\ Known(p) /\ NewComer(p) /\ Promised(p)
CleanInv    == \A p \in Ports : p \notin excuse => Clean(p)

-----------------------------------------------------------------------------
(* Types.                                                                  *)

LEMMA HostNumbers ==
  /\ NPorts \in Nat /\ NPorts > 0 /\ RootTries \in Nat /\ RootTries > 0
  /\ MaxMoves \in Nat /\ MaxFaults \in Nat
  /\ DEV_ADDR = 2 /\ ROOT_DEV_DISCONNECT = 0 /\ ROOT_DEV_CONNECTED = 1
  /\ ROOT_DEV_FAILED = 2 /\ ROOT_DEV_SUCCESS = 3
BY HostAssumption, SMT DEF DEV_ADDR, ROOT_DEV_DISCONNECT, ROOT_DEV_CONNECTED, ROOT_DEV_FAILED,
     ROOT_DEV_SUCCESS

DevRec  == [there : 0 .. 1, change : 0 .. 1, on : 0 .. 1, addr : 0 .. NPorts + DEV_ADDR]
PortRec == [bStatus : 0 .. 3, bAddress : 0 .. NPorts + DEV_ADDR, DeviceIndex : 0 .. NPorts]

(* Changing a field of a record keeps its type.                            *)
LEMMA DevFields ==
  ASSUME NEW r \in DevRec
  PROVE  /\ \A v \in 0 .. 1 : /\ [r EXCEPT !.there = v] \in DevRec
                             /\ [r EXCEPT !.change = v] \in DevRec
                             /\ [r EXCEPT !.on = v] \in DevRec
         /\ \A v \in 0 .. NPorts + DEV_ADDR : [r EXCEPT !.addr = v] \in DevRec
         /\ r.there \in 0 .. 1 /\ r.change \in 0 .. 1 /\ r.on \in 0 .. 1
         /\ r.addr \in 0 .. NPorts + DEV_ADDR
BY HostNumbers, SMT DEF DevRec

LEMMA PortFields ==
  ASSUME NEW r \in PortRec
  PROVE  /\ \A v \in 0 .. 3 : [r EXCEPT !.bStatus = v] \in PortRec
         /\ \A v \in 0 .. NPorts + DEV_ADDR : [r EXCEPT !.bAddress = v] \in PortRec
         /\ \A v \in 0 .. NPorts : [r EXCEPT !.DeviceIndex = v] \in PortRec
         /\ r.bStatus \in 0 .. 3 /\ r.bAddress \in 0 .. NPorts + DEV_ADDR
         /\ r.DeviceIndex \in 0 .. NPorts
BY HostNumbers, SMT DEF PortRec

LEMMA RecordTypes ==
  /\ Unplugged \in DevRec /\ Unknown \in PortRec
  /\ \A d \in [Ports -> DevRec] : Reset(d) \in [Ports -> DevRec]
  /\ \A p \in Ports : p \in Nat /\ p + 1 \in 0 .. NPorts
                      /\ OwnAddr(p) \in 3 .. NPorts + DEV_ADDR
<1> USE HostNumbers
<1>1. Unplugged \in DevRec BY SMT DEF Unplugged, DevRec
<1>2. Unknown \in PortRec BY SMT DEF Unknown, PortRec
<1>3. ASSUME NEW d \in [Ports -> DevRec]
      PROVE  Reset(d) \in [Ports -> DevRec]
  <2>1. \A r \in DevRec : [r EXCEPT !.change = 0, !.on = 0, !.addr = 0] \in DevRec
    <3> SUFFICES ASSUME NEW r \in DevRec
                 PROVE  [r EXCEPT !.change = 0, !.on = 0, !.addr = 0] \in DevRec
      OBVIOUS
    <3>0. 0 \in 0 .. 1 /\ 0 \in 0 .. NPorts + DEV_ADDR BY SMT
    <3>1. [r EXCEPT !.change = 0] \in DevRec BY <3>0, DevFields
    <3>2. [[r EXCEPT !.change = 0] EXCEPT !.on = 0] \in DevRec BY <3>0, <3>1, DevFields
    <3>3. [[[r EXCEPT !.change = 0] EXCEPT !.on = 0] EXCEPT !.addr = 0] \in DevRec
      BY <3>0, <3>2, DevFields
    <3>4. [r EXCEPT !.change = 0, !.on = 0, !.addr = 0]
            = [[[r EXCEPT !.change = 0] EXCEPT !.on = 0] EXCEPT !.addr = 0]
      BY SMT DEF DevRec
    <3> QED BY <3>3, <3>4
  <2> QED BY <2>1 DEF Reset
<1>4. \A p \in Ports : p \in Nat /\ p + 1 \in 0 .. NPorts
                      /\ OwnAddr(p) \in 3 .. NPorts + DEV_ADDR
  BY SMT DEF Ports, OwnAddr
<1> QED BY <1>1, <1>2, <1>3, <1>4

LEMMA TypesAgree == HostTypeOK => dev \in [Ports -> DevRec] /\ Device \in [Ports -> PortRec]
BY DEF HostTypeOK, DevRec, PortRec

LEMMA HostInit == Init => HostTypeOK /\ RootInv /\ PortInv /\ CleanInv
<1> SUFFICES ASSUME Init PROVE HostTypeOK /\ RootInv /\ PortInv /\ CleanInv
  OBVIOUS
<1> USE HostNumbers
<1>1. dev \in [Ports -> DevRec] /\ Device \in [Ports -> PortRec] BY RecordTypes DEF Init
<1>2. HostTypeOK BY <1>1, SMT DEF Init, HostTypeOK, DevRec, PortRec, Ports, RootPort
<1>3. RootInv BY SMT DEF Init, RootInv, Bringing, PortLoop
<1>4. PortInv BY SMT DEF Init, PortInv, Unplugged, Unknown
<1>5. CleanInv
  BY SMT DEF Init, CleanInv, Clean, Answers, Known, NewComer, Promised, Unplugged, Unknown, Bringing, AtPort
<1> QED BY <1>2, <1>3, <1>4, <1>5

LEMMA MoveTypes ==
  ASSUME HostTypeOK, Move
  PROVE  HostTypeOK'
<1> USE HostNumbers
<1>0. dev \in [Ports -> DevRec] BY TypesAgree
<1>1. CASE PlugRoot
  BY <1>1, SMT DEF Move, PlugRoot, HostTypeOK, rootVars, loopVars
<1>2. CASE PullRoot
  <2>1. dev' \in [Ports -> DevRec] BY <1>0, <1>2, RecordTypes DEF PullRoot
  <2>2. excuse' \subseteq {RootPort} \cup Ports BY <1>2 DEF PullRoot, HostTypeOK
  <2> QED BY <1>2, <2>1, <2>2, SMT DEF Move, PullRoot, HostTypeOK, rootVars, loopVars, DevRec
<1>3. CASE PlugOrPullPort
  <2>1. PICK p \in Ports :
          /\ dev' = [dev EXCEPT ![p] = [Unplugged EXCEPT !.there = 1 - dev[p].there,
                                                        !.change = powered]]
          /\ excuse' = IF Unseen(p) THEN excuse \cup {p} ELSE excuse
          /\ UNCHANGED <<kind, root_addr, powered, portVars>>
    BY <1>3 DEF PlugOrPullPort
  <2>2. [Unplugged EXCEPT !.there = 1 - dev[p].there, !.change = powered] \in DevRec
    <3>1. 1 - dev[p].there \in 0 .. 1 BY <1>0, SMT DEF DevRec
    <3>2. powered \in 0 .. 1 BY DEF HostTypeOK
    <3>3. [[Unplugged EXCEPT !.there = 1 - dev[p].there] EXCEPT !.change = powered] \in DevRec
      BY <3>1, <3>2, RecordTypes, DevFields
    <3> QED BY <3>3, SMT DEF Unplugged
  <2>3. dev' \in [Ports -> DevRec] BY <1>0, <2>1, <2>2
  <2>4. excuse' \subseteq {RootPort} \cup Ports BY <2>1 DEF HostTypeOK
  <2>5. UNCHANGED <<kind, root_addr, powered, detect, port_en, SelfAddr>> BY <2>1 DEF portVars
  <2> QED BY <2>3, <2>4, <2>5, SMT DEF Move, HostTypeOK, rootVars, loopVars, DevRec
<1> QED BY <1>1, <1>2, <1>3 DEF Move

-----------------------------------------------------------------------------
(* What the updates of dev and Device do, field by field.                  *)

LEMMA ResetFields ==
  ASSUME NEW d \in [Ports -> DevRec], NEW p \in Ports
  PROVE  Reset(d)[p].there = d[p].there /\ Reset(d)[p].change = 0 /\ Reset(d)[p].on = 0
<1>1. Reset(d)[p] = [d[p] EXCEPT !.change = 0, !.on = 0, !.addr = 0] /\ d[p] \in DevRec
  BY DEF Reset
<1> QED BY <1>1, SMT DEF DevRec

LEMMA AcknowledgedFields ==
  ASSUME NEW d \in [Ports -> DevRec], NEW h \in Ports, NEW v \in 0 .. 1
  PROVE  LET e == [d EXCEPT ![h].change = v]
         IN /\ e \in [Ports -> DevRec] /\ \A p \in Ports : p # h => e[p] = d[p]
            /\ e[h].there = d[h].there /\ e[h].change = v
            /\ e[h].on = d[h].on /\ e[h].addr = d[h].addr
<1> DEFINE e == [d EXCEPT ![h].change = v]
<1>1. e = [d EXCEPT ![h] = [d[h] EXCEPT !.change = v]] OBVIOUS
<1>2. [d[h] EXCEPT !.change = v] \in DevRec BY DevFields
<1>3. /\ [d[h] EXCEPT !.change = v].there = d[h].there
      /\ [d[h] EXCEPT !.change = v].change = v
      /\ [d[h] EXCEPT !.change = v].on = d[h].on
      /\ [d[h] EXCEPT !.change = v].addr = d[h].addr
  <2>1. d[h] \in DevRec OBVIOUS
  <2> QED BY <2>1, SMT DEF DevRec
<1> QED BY <1>1, <1>2, <1>3

LEMMA RestartedFields ==
  ASSUME dev \in [Ports -> DevRec], hub_port \in Ports
  PROVE  /\ Restarted \in [Ports -> DevRec]
         /\ \A p \in Ports : p # hub_port => Restarted[p] = dev[p]
         /\ Restarted[hub_port].there = dev[hub_port].there
         /\ Restarted[hub_port].change = dev[hub_port].change
         /\ Restarted[hub_port].on = 1 /\ Restarted[hub_port].addr = 0
<1> DEFINE r == [[dev[hub_port] EXCEPT !.on = 1] EXCEPT !.addr = 0]
<1>0. dev[hub_port] \in DevRec /\ 0 \in 0 .. NPorts + DEV_ADDR /\ 1 \in 0 .. 1
  BY HostNumbers, SMT
<1>1. Restarted = [dev EXCEPT ![hub_port] = r] BY SMT DEF Restarted
<1>2. [dev[hub_port] EXCEPT !.on = 1] \in DevRec BY <1>0, DevFields
<1>3. r \in DevRec BY <1>0, <1>2, DevFields
<1>4. /\ r.there = dev[hub_port].there /\ r.change = dev[hub_port].change /\ r.on = 1 /\ r.addr = 0
  BY <1>0, SMT DEF DevRec
<1> HIDE DEF r
<1> QED BY <1>1, <1>3, <1>4

LEMMA PoweredFields ==
  ASSUME NEW d \in [Ports -> DevRec]
  PROVE  LET e == [p \in Ports |-> [d[p] EXCEPT !.change = d[p].there]]
         IN /\ e \in [Ports -> DevRec]
            /\ \A p \in Ports : /\ e[p].there = d[p].there /\ e[p].change = d[p].there
                                /\ e[p].on = d[p].on /\ e[p].addr = d[p].addr
<1>1. \A r \in DevRec : LET e == [r EXCEPT !.change = r.there]
                        IN /\ e \in DevRec /\ e.there = r.there /\ e.change = r.there
                           /\ e.on = r.on /\ e.addr = r.addr
  <2> SUFFICES ASSUME NEW r \in DevRec
               PROVE  LET e == [r EXCEPT !.change = r.there]
                        IN /\ e \in DevRec /\ e.there = r.there /\ e.change = r.there
                           /\ e.on = r.on /\ e.addr = r.addr
    OBVIOUS
  <2> QED BY DevFields, SMT DEF DevRec
<1> QED BY <1>1

LEMMA AddressedFields ==
  ASSUME dev \in [Ports -> DevRec], NewAddr \in 0 .. NPorts + DEV_ADDR
  PROVE  /\ Addressed \in [Ports -> DevRec]
         /\ \A p \in Ports :
              /\ Addressed[p].there = dev[p].there /\ Addressed[p].change = dev[p].change
              /\ Addressed[p].on = dev[p].on
              /\ Addressed[p].addr = IF p \in Answering THEN NewAddr ELSE dev[p].addr
<1>1. ASSUME NEW r \in DevRec, NEW a \in 0 .. NPorts + DEV_ADDR
      PROVE  LET e == [r EXCEPT !.addr = a]
             IN e \in DevRec /\ e.there = r.there /\ e.change = r.change /\ e.on = r.on /\ e.addr = a
  <2>1. [r EXCEPT !.addr = a] \in DevRec BY <1>1, DevFields
  <2>2. r \in DevRec BY <1>1
  <2> QED BY <2>1, <2>2, SMT DEF DevRec
<1>2. \A p \in Ports : dev[p] \in DevRec OBVIOUS
<1> QED BY <1>1, <1>2 DEF Addressed

WithAddr(d, h, s, a)  == [d EXCEPT ![h] = [@ EXCEPT !.bStatus = s, !.bAddress = a]]
WithIndex(d, h, s, x) == [d EXCEPT ![h] = [@ EXCEPT !.bStatus = s, !.DeviceIndex = x]]

LEMMA StatusFields ==
  ASSUME NEW d \in [Ports -> PortRec], NEW h \in Ports, NEW s \in 0 .. 3,
         NEW a \in 0 .. NPorts + DEV_ADDR
  PROVE  /\ WithAddr(d, h, s, a) \in [Ports -> PortRec]
         /\ \A p \in Ports : p # h => WithAddr(d, h, s, a)[p] = d[p]
         /\ WithAddr(d, h, s, a)[h].bStatus = s /\ WithAddr(d, h, s, a)[h].bAddress = a
         /\ WithAddr(d, h, s, a)[h].DeviceIndex = d[h].DeviceIndex
<1> DEFINE r == [[d[h] EXCEPT !.bStatus = s] EXCEPT !.bAddress = a]
<1>0. d[h] \in PortRec OBVIOUS
<1>1. WithAddr(d, h, s, a) = [d EXCEPT ![h] = r] BY SMT DEF WithAddr
<1>2. [d[h] EXCEPT !.bStatus = s] \in PortRec BY <1>0, PortFields
<1>3. r \in PortRec BY <1>2, PortFields
<1>4. r.bStatus = s /\ r.bAddress = a /\ r.DeviceIndex = d[h].DeviceIndex
  BY <1>0, SMT DEF PortRec
<1> HIDE DEF r
<1> QED BY <1>1, <1>3, <1>4

LEMMA ConnectFields ==
  ASSUME NEW d \in [Ports -> PortRec], NEW h \in Ports, NEW s \in 0 .. 3, NEW x \in 0 .. NPorts
  PROVE  /\ WithIndex(d, h, s, x) \in [Ports -> PortRec]
         /\ \A p \in Ports : p # h => WithIndex(d, h, s, x)[p] = d[p]
         /\ WithIndex(d, h, s, x)[h].bStatus = s /\ WithIndex(d, h, s, x)[h].DeviceIndex = x
         /\ WithIndex(d, h, s, x)[h].bAddress = d[h].bAddress
<1> DEFINE r == [[d[h] EXCEPT !.bStatus = s] EXCEPT !.DeviceIndex = x]
<1>0. d[h] \in PortRec OBVIOUS
<1>1. WithIndex(d, h, s, x) = [d EXCEPT ![h] = r] BY SMT DEF WithIndex
<1>2. [d[h] EXCEPT !.bStatus = s] \in PortRec BY <1>0, PortFields
<1>3. r \in PortRec BY <1>2, PortFields
<1>4. r.bStatus = s /\ r.bAddress = d[h].bAddress /\ r.DeviceIndex = x
  BY <1>0, SMT DEF PortRec
<1> HIDE DEF r
<1> QED BY <1>1, <1>3, <1>4

-----------------------------------------------------------------------------
(* Types, action by action.                                                *)

LEMMA CheckTypes == ASSUME HostTypeOK, CheckRootHubPortStatus PROVE HostTypeOK'
<1> USE HostNumbers
<1>0. Unknown \in PortRec BY RecordTypes
<1>1. bStatus' \in 0 .. 3 /\ bType' \in {"none", "hid", "hub"} /\ bAddress' \in {0, DEV_ADDR}
      /\ pc' \in {"attach", "poll"} /\ enum_cnt' \in 0 .. RootTries
  BY SMT DEF CheckRootHubPortStatus, Disconnected, Connected, HostTypeOK, rootVars
<1>2. Device' \in [Ports -> PortRec]
  BY <1>0, TypesAgree DEF CheckRootHubPortStatus, Disconnected, Connected
<1>3. HostCtl' \in [0 .. NPorts -> {"none", "hid", "hub"}]
  BY DEF CheckRootHubPortStatus, Disconnected, Connected, HostTypeOK
<1>4. excuse' \subseteq {RootPort} \cup Ports
  BY DEF CheckRootHubPortStatus, Disconnected, Connected, HostTypeOK, Remembered
<1>5. detect' = 0 /\ UNCHANGED <<kind, root_addr, powered, dev, port_en, SelfAddr, hub_dat, hub_port,
                                moves, faults>>
  BY DEF CheckRootHubPortStatus, devVars
<1> QED BY <1>1, <1>2, <1>3, <1>4, <1>5, SMT DEF HostTypeOK, PortRec

LEMMA ResetTypes == ASSUME HostTypeOK, RootInv, ResetRootHubPort PROVE HostTypeOK'
<1> USE HostNumbers
<1>0. dev \in [Ports -> DevRec] BY TypesAgree
<1>1. enum_cnt' \in 0 .. RootTries BY SMT DEF ResetRootHubPort, HostTypeOK, RootInv
<1>2. bStatus' \in 0 .. 3 /\ pc' \in {"attach", "poll", "identify"}
      /\ detect' \in 0 .. 1 /\ port_en' \in 0 .. 1 /\ root_addr' \in {0, DEV_ADDR}
      /\ powered' \in 0 .. 1 /\ kind' = kind
  BY SMT DEF ResetRootHubPort, Again, HostTypeOK, devVars
<1>3. dev' \in [Ports -> DevRec] BY <1>0, RecordTypes DEF ResetRootHubPort, devVars
<1>4. SelfAddr' = 0 /\ UNCHANGED <<bType, bAddress, Device, HostCtl, hub_dat, hub_port, moves, faults,
                                  excuse>>
  BY DEF ResetRootHubPort
<1> QED BY <1>1, <1>2, <1>3, <1>4, SMT DEF HostTypeOK, DevRec

LEMMA IdentifyTypes == ASSUME HostTypeOK, Identify PROVE HostTypeOK'
<1> USE HostNumbers
<1>1. bStatus' \in 0 .. 3 /\ pc' \in {"attach", "poll", "classify"}
      /\ root_addr' \in {0, DEV_ADDR} /\ SelfAddr' \in 0 .. NPorts + DEV_ADDR
      /\ bAddress' \in {0, DEV_ADDR} /\ bType' \in {"none", "hid", "hub"}
      /\ faults' \in 0 .. MaxFaults
  BY SMT DEF Identify, Again, Fault, HostTypeOK
<1>2. excuse' \subseteq {RootPort} \cup Ports BY DEF Identify, HostTypeOK
<1>3. UNCHANGED <<kind, powered, dev, detect, port_en, Device, HostCtl, hub_dat, hub_port, moves,
                  enum_cnt>>
  BY DEF Identify
<1> QED BY <1>1, <1>2, <1>3, SMT DEF HostTypeOK

LEMMA EnumTypes ==
  ASSUME HostTypeOK, EnumHidDevice \/ EnumHubDevice
  PROVE  HostTypeOK'
<1> USE HostNumbers
<1>0. dev \in [Ports -> DevRec] BY TypesAgree
<1>1. HostCtl' \in [0 .. NPorts -> {"none", "hid", "hub"}]
  BY DEF EnumHidDevice, EnumHubDevice, HostTypeOK
<1>2. dev' \in [Ports -> DevRec]
  BY <1>0, PoweredFields DEF EnumHidDevice, EnumHubDevice, devVars
<1>3. excuse' \subseteq {RootPort} \cup Ports BY DEF EnumHidDevice, EnumHubDevice, HostTypeOK
<1>4. bStatus' \in 0 .. 3 /\ pc' = "poll" /\ powered' \in 0 .. 1 /\ faults' \in 0 .. MaxFaults
  BY SMT DEF EnumHidDevice, EnumHubDevice, Fault, HostTypeOK, devVars
<1>5. UNCHANGED <<kind, root_addr, detect, port_en, SelfAddr, bType, bAddress, Device, enum_cnt,
                  hub_dat, hub_port, moves>>
  BY DEF EnumHidDevice, EnumHubDevice, devVars, portVars
<1> QED BY <1>1, <1>2, <1>3, <1>4, <1>5, SMT DEF HostTypeOK, DevRec

LEMMA PollTypes == ASSUME HostTypeOK, PollHub PROVE HostTypeOK'
<1> USE HostNumbers
<1>1. SelfAddr' \in 0 .. NPorts + DEV_ADDR BY SMT DEF PollHub, HubAddr, HostTypeOK
<1>2. hub_dat' \subseteq Ports BY DEF PollHub, Changes, HostTypeOK
<1>3. pc' \in {"pre1", "check"} /\ hub_port' \in Ports
  BY SMT DEF PollHub, HostTypeOK, Ports
<1>4. UNCHANGED <<kind, root_addr, powered, dev, detect, port_en, bStatus, bType, bAddress, Device,
                  HostCtl, enum_cnt, moves, faults, excuse>>
  BY DEF PollHub, devVars, rootVars
<1> QED BY <1>1, <1>2, <1>3, <1>4, SMT DEF HostTypeOK

LEMMA NextPortTypes ==
  ASSUME hub_port \in Ports, NextPort
  PROVE  pc' \in {"pre1", "check"} /\ hub_port' \in Ports
BY HostNumbers, SMT DEF NextPort, Ports

LEMMA PreEnum1Types == ASSUME HostTypeOK, PreEnum1 PROVE HostTypeOK'
<1> USE HostNumbers
<1>0. /\ dev \in [Ports -> DevRec] /\ Device \in [Ports -> PortRec] /\ hub_port \in Ports
      /\ Unknown \in PortRec
  BY TypesAgree, RecordTypes DEF HostTypeOK
<1>1. dev' \in [Ports -> DevRec]
  <2>1. 0 \in 0 .. 1 BY SMT
  <2>2. [dev EXCEPT ![hub_port].change = 0] \in [Ports -> DevRec]
    BY <1>0, <2>1, AcknowledgedFields
  <2>3. dev' \in {dev, [dev EXCEPT ![hub_port].change = 0]} BY DEF PreEnum1
  <2> QED BY <1>0, <2>2, <2>3
<1>2. Device' \in [Ports -> PortRec] BY <1>0 DEF PreEnum1, Forget
<1>3. HostCtl' \in [0 .. NPorts -> {"none", "hid", "hub"}] BY DEF PreEnum1, Forget, HostTypeOK
<1>4. hub_dat' \subseteq Ports /\ excuse' \subseteq {RootPort} \cup Ports
  BY <1>0 DEF PreEnum1, Forget, HostTypeOK
<1>5. pc' \in {"pre1", "check", "pre2"} /\ hub_port' \in Ports
  BY <1>0, NextPortTypes DEF PreEnum1, Forget
<1>6. faults' \in 0 .. MaxFaults BY SMT DEF PreEnum1, Fault, HostTypeOK
<1>7. UNCHANGED <<kind, root_addr, powered, detect, port_en, SelfAddr, bStatus, bType, bAddress,
                  enum_cnt, moves>>
  BY DEF PreEnum1, rootVars, portVars
<1> QED
  BY <1>1, <1>2, <1>3, <1>4, <1>5, <1>6, <1>7, SMT DEF HostTypeOK, DevRec, PortRec

LEMMA PreEnum2Types == ASSUME HostTypeOK, PreEnum2 PROVE HostTypeOK'
<1> USE HostNumbers
<1>0. /\ dev \in [Ports -> DevRec] /\ Device \in [Ports -> PortRec] /\ hub_port \in Ports
      /\ Index(hub_port) \in 0 .. NPorts
  BY TypesAgree, RecordTypes DEF HostTypeOK, Index
<1>1. dev' \in [Ports -> DevRec] BY <1>0, RestartedFields DEF PreEnum2
<1>2. Device' \in [Ports -> PortRec]
  <2> DEFINE e == WithIndex(Device, hub_port, ROOT_DEV_CONNECTED, Index(hub_port))
  <2>1. ROOT_DEV_CONNECTED \in 0 .. 3 BY SMT
  <2>2. e \in [Ports -> PortRec] BY <1>0, <2>1, ConnectFields
  <2>3. Device' \in {Device, e} BY DEF PreEnum2, WithIndex
  <2> HIDE DEF e
  <2> QED BY <1>0, <2>2, <2>3
<1>3. hub_dat' \subseteq Ports /\ excuse' \subseteq {RootPort} \cup Ports
  BY <1>0 DEF PreEnum2, HostTypeOK
<1>4. pc' \in {"pre1", "check", "port"} /\ hub_port' \in Ports
  BY <1>0, NextPortTypes DEF PreEnum2
<1>5. faults' \in 0 .. MaxFaults BY SMT DEF PreEnum2, Fault, HostTypeOK
<1>6. UNCHANGED <<kind, root_addr, powered, detect, port_en, SelfAddr, bStatus, bType, bAddress,
                  HostCtl, enum_cnt, moves>>
  BY DEF PreEnum2, rootVars, portVars
<1> QED
  BY <1>1, <1>2, <1>3, <1>4, <1>5, <1>6, SMT DEF HostTypeOK, DevRec, PortRec

LEMMA PortAddresses ==
  ASSUME HostTypeOK
  PROVE  NewAddr \in 0 .. NPorts + DEV_ADDR /\ Target \in 0 .. NPorts + DEV_ADDR
<1>1. Device[hub_port] \in PortRec BY TypesAgree DEF HostTypeOK
<1> QED BY <1>1, HostNumbers, SMT DEF NewAddr, Target, PortRec

LEMMA PortTypes == ASSUME HostTypeOK, EnumHubPortDevice PROVE HostTypeOK'
<1> USE HostNumbers
<1>0. /\ dev \in [Ports -> DevRec] /\ Device \in [Ports -> PortRec] /\ hub_port \in Ports
      /\ Device[hub_port].DeviceIndex \in 0 .. NPorts
  BY TypesAgree, PortFields DEF HostTypeOK
<1>1. dev' \in [Ports -> DevRec]
  BY <1>0, PortAddresses, AddressedFields DEF EnumHubPortDevice, PortFound
<1>2. Device' \in [Ports -> PortRec]
  <2> DEFINE e(s, a) == WithAddr(Device, hub_port, s, a)
  <2>1. ROOT_DEV_SUCCESS \in 0 .. 3 /\ ROOT_DEV_FAILED \in 0 .. 3 BY SMT
  <2>2. /\ e(ROOT_DEV_SUCCESS, NewAddr) \in [Ports -> PortRec]
        /\ e(ROOT_DEV_FAILED, NewAddr) \in [Ports -> PortRec]
        /\ e(ROOT_DEV_FAILED, Target) \in [Ports -> PortRec]
    BY <1>0, <2>1, PortAddresses, StatusFields
  <2>3. Device' \in {e(ROOT_DEV_SUCCESS, NewAddr), e(ROOT_DEV_FAILED, NewAddr),
                     e(ROOT_DEV_FAILED, Target)}
    BY DEF EnumHubPortDevice, PortFound, PortFailed, WithAddr
  <2> HIDE DEF e
  <2> QED BY <2>2, <2>3
<1>3. HostCtl' \in [0 .. NPorts -> {"none", "hid", "hub"}]
  BY <1>0 DEF EnumHubPortDevice, PortFound, PortFailed, HostTypeOK
<1>4. excuse' \subseteq {RootPort} \cup Ports
  BY <1>0 DEF EnumHubPortDevice, PortFound, Confused, Answering, HostTypeOK
<1>5. pc' \in {"pre1", "check"} /\ hub_port' \in Ports
  BY <1>0, NextPortTypes DEF EnumHubPortDevice
<1>6. SelfAddr' \in 0 .. NPorts + DEV_ADDR
  BY PortAddresses DEF EnumHubPortDevice, PortFound, PortFailed
<1>7. faults' \in 0 .. MaxFaults BY SMT DEF EnumHubPortDevice, PortFound, Fault, HostTypeOK
<1>8. UNCHANGED <<kind, root_addr, powered, detect, port_en, bStatus, bType, bAddress, enum_cnt,
                  hub_dat, moves>>
  BY DEF EnumHubPortDevice, rootVars
<1> QED
  BY <1>1, <1>2, <1>3, <1>4, <1>5, <1>6, <1>7, <1>8, SMT DEF HostTypeOK, DevRec, PortRec

-----------------------------------------------------------------------------
(* Power, and the host's record of the root device.                        *)

LEMMA RootKeeps ==
  ASSUME HostTypeOK, RootInv, PortInv, Next
  PROVE  RootInv'
<1> USE HostNumbers
<1>1. CASE PlugRoot /\ Move
  BY <1>1, SMT DEF Move, PlugRoot, RootInv, HubThere, Bringing, PortLoop, HostTypeOK, rootVars, loopVars
<1>2. CASE PullRoot /\ Move
  BY <1>2, SMT DEF Move, PullRoot, RootInv, HubThere, Bringing, PortLoop, HostTypeOK, rootVars, loopVars
<1>3. CASE PlugOrPullPort /\ Move
  <2>1. UNCHANGED <<kind, powered, port_en, bStatus, pc, enum_cnt>>
    BY <1>3 DEF Move, PlugOrPullPort, rootVars, loopVars, portVars
  <2> QED BY <2>1 DEF RootInv, HubThere
<1>4. CASE CheckRootHubPortStatus
  BY <1>4, SMT DEF CheckRootHubPortStatus, Connected, Disconnected, RootInv, HubThere, Bringing,
                   PortLoop, HostTypeOK, rootVars, devVars
<1>5. CASE ResetRootHubPort
  BY <1>5, SMT DEF ResetRootHubPort, Again, RootInv, HubThere, Bringing, PortLoop, HostTypeOK, devVars
<1>6. CASE Identify
  BY <1>6, SMT DEF Identify, Again, RootInv, HubThere, Bringing, PortLoop, HostTypeOK
<1>7. CASE EnumHidDevice
  BY <1>7, SMT DEF EnumHidDevice, RootInv, HubThere, Bringing, PortLoop, HostTypeOK, devVars, portVars
<1>8. CASE EnumHubDevice
  BY <1>8, SMT DEF EnumHubDevice, RootInv, HubThere, Bringing, PortLoop, HostTypeOK, devVars, portVars
<1>9. CASE PollHub
  <2>1. Changes # {} => powered = 1 BY DEF Changes, PortInv
  <2> QED
    BY <1>9, <2>1, SMT DEF PollHub, RootInv, HubThere, Bringing, PortLoop, HostTypeOK, devVars, rootVars
<1>10. CASE PreEnum1
  <2>1. pc' \in {"pre1", "check", "pre2"}
    BY <1>10, NextPortTypes DEF PreEnum1, Forget, HostTypeOK
  <2>2. UNCHANGED <<kind, powered, port_en, bStatus, enum_cnt>> /\ pc = "pre1"
    BY <1>10 DEF PreEnum1, portVars, rootVars
  <2> QED BY <2>1, <2>2, SMT DEF RootInv, HubThere, Bringing, PortLoop
<1>11. CASE PreEnum2
  <2>1. pc' \in {"pre1", "check", "port"}
    BY <1>11, NextPortTypes DEF PreEnum2, HostTypeOK
  <2>2. UNCHANGED <<kind, powered, port_en, bStatus, enum_cnt>> /\ pc = "pre2"
    BY <1>11 DEF PreEnum2, portVars, rootVars
  <2> QED BY <2>1, <2>2, SMT DEF RootInv, HubThere, Bringing, PortLoop
<1>12. CASE EnumHubPortDevice
  <2>1. pc' \in {"pre1", "check"} BY <1>12, NextPortTypes DEF EnumHubPortDevice, HostTypeOK
  <2>2. UNCHANGED <<kind, powered, port_en, bStatus, enum_cnt>> /\ pc = "port"
    BY <1>12 DEF EnumHubPortDevice, rootVars
  <2> QED BY <2>1, <2>2, SMT DEF RootInv, HubThere, Bringing, PortLoop
<1> QED
  BY <1>1, <1>2, <1>3, <1>4, <1>5, <1>6, <1>7, <1>8, <1>9, <1>10, <1>11, <1>12 DEF Next, Main, Move

(* How a step changes what the host knows of a port: not at all, to        *)
(* nothing, or within its enumeration.                                     *)
LEMMA PortKeeps ==
  ASSUME HostTypeOK, RootInv, PortInv, Next
  PROVE  PortInv'
<1> USE HostNumbers
<1>0. dev \in [Ports -> DevRec] /\ Device \in [Ports -> PortRec] /\ hub_port \in Ports
  BY TypesAgree DEF HostTypeOK
<1>1. CASE PlugRoot /\ Move
  BY <1>1 DEF Move, PlugRoot, PortInv, loopVars
<1>2. CASE PullRoot /\ Move
  <2>1. \A p \in Ports : dev'[p].on = 0 /\ dev'[p].change = 0
    BY <1>0, <1>2, ResetFields DEF PullRoot
  <2>2. UNCHANGED <<Device, pc, hub_port>> BY <1>2 DEF Move, loopVars
  <2> QED BY <2>1, <2>2, SMT DEF PortInv
<1>3. CASE PlugOrPullPort /\ Move
  <2>1. PICK h \in Ports :
          dev' = [dev EXCEPT ![h] = [Unplugged EXCEPT !.there = 1 - dev[h].there,
                                                      !.change = powered]]
    BY <1>3 DEF PlugOrPullPort
  <2>2. UNCHANGED <<Device, pc, hub_port, powered>> BY <1>3 DEF PlugOrPullPort, Move, loopVars
  <2>3. dev'[h].on = 0 /\ dev'[h].change = powered
    <3>1. dev'[h] = [Unplugged EXCEPT !.there = 1 - dev[h].there, !.change = powered]
      BY <1>0, <2>1
    <3> QED BY <3>1, SMT DEF Unplugged
  <2>4. \A p \in Ports : p # h => dev'[p] = dev[p] BY <1>0, <2>1
  <2>5. SUFFICES ASSUME NEW p \in Ports
                 PROVE  /\ dev'[p].on = 1 => dev'[p].there = 1 /\ powered = 1
                        /\ dev'[p].change = 1 => powered = 1
    BY <2>2 DEF PortInv
  <2>6. CASE p = h BY <2>3, <2>6, SMT
  <2>7. CASE p # h BY <2>4, <2>7 DEF PortInv
  <2> QED BY <2>6, <2>7
<1>4. CASE CheckRootHubPortStatus
  <2>1. UNCHANGED <<dev, powered>> /\ pc' # "port" BY <1>4 DEF CheckRootHubPortStatus, devVars,
          Disconnected, Connected
  <2>2. Device' = Device \/ Device' = [p \in Ports |-> Unknown]
    BY <1>4 DEF CheckRootHubPortStatus, Disconnected, Connected
  <2>3. Unknown.bStatus = ROOT_DEV_DISCONNECT BY DEF Unknown
  <2> QED BY <2>1, <2>2, <2>3 DEF PortInv
<1>5. CASE ResetRootHubPort
  <2>1. UNCHANGED Device /\ pc' # "port" BY <1>5 DEF ResetRootHubPort, Again
  <2>2. UNCHANGED <<dev, powered>> \/ dev' = Reset(dev) BY <1>5 DEF ResetRootHubPort, devVars
  <2>3. CASE UNCHANGED <<dev, powered>> BY <2>1, <2>3 DEF PortInv
  <2>4. CASE dev' = Reset(dev)
    <3>1. \A p \in Ports : dev'[p].on = 0 /\ dev'[p].change = 0 BY <1>0, <2>4, ResetFields
    <3> QED BY <2>1, <3>1, SMT DEF PortInv
  <2> QED BY <2>2, <2>3, <2>4
<1>6. CASE Identify
  BY <1>6 DEF Identify, Again, PortInv
<1>7. CASE EnumHidDevice
  BY <1>7 DEF EnumHidDevice, devVars, PortInv
<1>8. CASE EnumHubDevice
  <2>1. UNCHANGED Device /\ pc' # "port" BY <1>8 DEF EnumHubDevice
  <2>2. \/ UNCHANGED <<dev, powered>>
        \/ powered' = 1 /\ dev' = [p \in Ports |-> [dev[p] EXCEPT !.change = dev[p].there]]
    BY <1>8 DEF EnumHubDevice
  <2>3. CASE UNCHANGED <<dev, powered>> BY <2>1, <2>3 DEF PortInv
  <2>4. CASE powered' = 1 /\ dev' = [p \in Ports |-> [dev[p] EXCEPT !.change = dev[p].there]]
    <3>1. \A p \in Ports : dev'[p].on = dev[p].on /\ dev'[p].there = dev[p].there
      BY <1>0, <2>4, PoweredFields
    <3> QED BY <2>1, <2>4, <3>1 DEF PortInv
  <2> QED BY <2>2, <2>3, <2>4
<1>9. CASE PollHub
  BY <1>9 DEF PollHub, devVars, PortInv
<1>10. CASE PreEnum1
  <2>1. powered' = powered /\ pc' # "port"
    BY <1>0, <1>10, NextPortTypes DEF PreEnum1, Forget
  <2>2. \A p \in Ports : /\ dev'[p].on = dev[p].on /\ dev'[p].there = dev[p].there
                         /\ dev'[p].change = 1 => dev[p].change = 1
    <3>1. 0 \in 0 .. 1 /\ 0 # 1 BY SMT
    <3>2. dev' \in {dev, [dev EXCEPT ![hub_port].change = 0]} BY <1>10 DEF PreEnum1
    <3>3. CASE dev' = dev BY <3>3
    <3>4. CASE dev' = [dev EXCEPT ![hub_port].change = 0]
      <4>1. /\ \A p \in Ports : p # hub_port => dev'[p] = dev[p]
            /\ dev'[hub_port].there = dev[hub_port].there /\ dev'[hub_port].change = 0
            /\ dev'[hub_port].on = dev[hub_port].on
        BY <1>0, <3>1, <3>4, AcknowledgedFields
      <4> QED BY <3>1, <4>1
    <3> QED BY <3>2, <3>3, <3>4
  <2>3. Device' \in {Device, [Device EXCEPT ![hub_port] = Unknown]} BY <1>10 DEF PreEnum1, Forget
  <2>4. Unknown.bStatus = ROOT_DEV_DISCONNECT BY DEF Unknown
  <2>5. \A p \in Ports : Device'[p] \in {Device[p], Unknown} BY <1>0, <2>3
  <2> QED BY <2>1, <2>2, <2>4, <2>5 DEF PortInv
<1>11. CASE PreEnum2
  <2> DEFINE e == WithIndex(Device, hub_port, ROOT_DEV_CONNECTED, Index(hub_port))
  <2>1. UNCHANGED powered BY <1>11 DEF PreEnum2
  <2>2. \A p \in Ports : /\ dev'[p].there = dev[p].there /\ dev'[p].change = dev[p].change
                         /\ p # hub_port => dev'[p].on = dev[p].on
    <3>1. dev' \in {dev, Restarted} BY <1>11 DEF PreEnum2
    <3> QED BY <1>0, <3>1, RestartedFields
  <2>3. dev'[hub_port].on = 1 => dev'[hub_port].there = 1 /\ powered = 1
    <3>1. \/ dev' = dev
          \/ /\ dev' = Restarted /\ dev[hub_port].there = 1 /\ HubThere
      BY <1>11 DEF PreEnum2, Asked
    <3>2. pc = "pre2" BY <1>11 DEF PreEnum2
    <3>3. HubThere => powered = 1 BY <3>2 DEF RootInv, PortLoop
    <3> QED BY <1>0, <3>1, <3>3, RestartedFields DEF PortInv
  <2>4. /\ Device' \in {Device, e}
        /\ pc' = "port" => Device' = e /\ hub_port' = hub_port
    BY <1>0, <1>11, NextPortTypes DEF PreEnum2, WithIndex
  <2>5. ROOT_DEV_CONNECTED \in 0 .. 3 /\ Index(hub_port) \in 0 .. NPorts
        /\ Index(hub_port) = hub_port + 1 /\ ROOT_DEV_CONNECTED # ROOT_DEV_DISCONNECT
    BY <1>0, SMT DEF Index, Ports
  <2>6. /\ \A p \in Ports : p # hub_port => e[p] = Device[p]
        /\ e[hub_port].bStatus = ROOT_DEV_CONNECTED
        /\ e[hub_port].DeviceIndex = hub_port + 1
    <3>1. /\ \A p \in Ports : p # hub_port => e[p] = Device[p]
          /\ e[hub_port].bStatus = ROOT_DEV_CONNECTED
          /\ e[hub_port].DeviceIndex = Index(hub_port)
      BY <1>0, <2>5, ConnectFields
    <3> HIDE DEF e
    <3> QED BY <2>5, <3>1
  <2> HIDE DEF e
  <2>7. SUFFICES ASSUME NEW p \in Ports
                 PROVE  /\ dev'[p].on = 1 => dev'[p].there = 1 /\ powered = 1
                        /\ dev'[p].change = 1 => powered = 1
                        /\ IF Device'[p].bStatus = ROOT_DEV_DISCONNECT THEN Device'[p] = Unknown
                           ELSE Device'[p].DeviceIndex = p + 1
                        /\ pc' = "port" /\ hub_port' = p => Device'[p].bStatus = ROOT_DEV_CONNECTED
    BY <2>1 DEF PortInv
  <2>8. CASE p = hub_port
    <3>1. dev'[p].change = 1 => powered = 1 BY <2>2 DEF PortInv
    <3>2. IF Device'[p].bStatus = ROOT_DEV_DISCONNECT THEN Device'[p] = Unknown
          ELSE Device'[p].DeviceIndex = p + 1
      BY <2>4, <2>5, <2>6, <2>8 DEF PortInv
    <3> QED BY <2>3, <2>4, <2>6, <2>8, <3>1, <3>2
  <2>9. CASE p # hub_port
    <3>1. Device'[p] = Device[p] BY <2>4, <2>6, <2>9
    <3> QED BY <2>2, <2>4, <2>9, <3>1 DEF PortInv
  <2> QED BY <2>8, <2>9
<1>12. CASE EnumHubPortDevice
  <2> DEFINE e(s, a) == WithAddr(Device, hub_port, s, a)
  <2>1. UNCHANGED powered /\ pc' # "port" /\ pc = "port"
    BY <1>0, <1>12, NextPortTypes DEF EnumHubPortDevice
  <2>2. \A p \in Ports : /\ dev'[p].there = dev[p].there /\ dev'[p].change = dev[p].change
                         /\ dev'[p].on = dev[p].on
    <3>1. dev' \in {dev, Addressed} BY <1>12 DEF EnumHubPortDevice, PortFound
    <3> QED BY <1>0, <3>1, PortAddresses, AddressedFields
  <2>3. ROOT_DEV_SUCCESS \in 0 .. 3 \ {ROOT_DEV_DISCONNECT}
        /\ ROOT_DEV_FAILED \in 0 .. 3 \ {ROOT_DEV_DISCONNECT}
    BY SMT
  <2>4. PICK s \in 0 .. 3 \ {ROOT_DEV_DISCONNECT}, a \in 0 .. NPorts + DEV_ADDR : Device' = e(s, a)
    BY <1>12, <2>3, PortAddresses DEF EnumHubPortDevice, PortFound, PortFailed, WithAddr
  <2>5. /\ \A p \in Ports : p # hub_port => Device'[p] = Device[p]
        /\ Device'[hub_port].bStatus = s
        /\ Device'[hub_port].DeviceIndex = Device[hub_port].DeviceIndex
    <3>1. s \in 0 .. 3 BY <2>4
    <3>2. /\ \A p \in Ports : p # hub_port => e(s, a)[p] = Device[p]
          /\ e(s, a)[hub_port].bStatus = s
          /\ e(s, a)[hub_port].DeviceIndex = Device[hub_port].DeviceIndex
      BY <1>0, <2>4, <3>1, StatusFields
    <3> HIDE DEF e
    <3> QED BY <2>4, <3>2
  <2>6. Device[hub_port].DeviceIndex = hub_port + 1
    BY <1>0, <2>1, SMT DEF PortInv
  <2> QED BY <2>1, <2>2, <2>5, <2>6 DEF PortInv
<1> QED
  BY <1>1, <1>2, <1>3, <1>4, <1>5, <1>6, <1>7, <1>8, <1>9, <1>10, <1>11, <1>12 DEF Next, Main, Move

-----------------------------------------------------------------------------
(* Addresses.  A port that a step leaves alone stays clean.                *)

LEMMA CleanStays ==
  ASSUME NEW p \in Ports, Clean(p), dev'[p] = dev[p], Device'[p] = Device[p],
         HostCtl'[p + 1] = HostCtl[p + 1], AtPort(p)' <=> AtPort(p),
         pc' \in Bringing => pc \in Bringing \/ Device[p].bAddress = 0,
         p \in hub_dat' /\ Ahead(p)' /\ HubThere' => p \in hub_dat /\ Ahead(p) /\ HubThere,
         ~(pc' = "pre2" /\ hub_port' = p /\ p \in hub_dat' /\ Asked')
  PROVE  Clean(p)'
<1>1. Answers(p)' BY DEF Clean, Answers, OwnAddr
<1>2. Known(p)' BY DEF Clean, Known, OwnAddr
<1>3. NewComer(p)' BY DEF Clean, NewComer
<1>4. Promised(p)' BY DEF Clean, Promised
<1> QED BY <1>1, <1>2, <1>3, <1>4 DEF Clean

LEMMA MoveCleans ==
  ASSUME HostTypeOK, RootInv, PortInv, CleanInv, Move
  PROVE  CleanInv'
<1> USE HostNumbers
<1>0. dev \in [Ports -> DevRec] /\ Device \in [Ports -> PortRec] /\ hub_port \in Ports
  BY TypesAgree DEF HostTypeOK
<1>1. UNCHANGED <<Device, HostCtl, pc, hub_dat, hub_port, bStatus>> /\ excuse \subseteq excuse'
  BY DEF Move, loopVars, rootVars, PlugRoot, PullRoot, PlugOrPullPort
<1> SUFFICES ASSUME NEW p \in Ports, p \notin excuse' PROVE Clean(p)'
  BY DEF CleanInv
<1>2. Clean(p) BY <1>1 DEF CleanInv
<1>3. AtPort(p)' <=> AtPort(p) BY <1>1 DEF AtPort
<1>4. CASE PlugRoot
  <2>1. dev' = dev /\ ~HubThere' BY <1>4 DEF PlugRoot, RootInv, HubThere
  <2>2. ~Asked' BY <2>1 DEF Asked, HubThere
  <2> QED BY <1>1, <1>2, <1>3, <2>1, <2>2, CleanStays
<1>5. CASE PullRoot
  <2>1. dev'[p].on = 0 /\ dev'[p].change = 0 BY <1>0, <1>5, ResetFields DEF PullRoot
  <2>2. ~HubThere' /\ ~Asked' BY <1>5 DEF PullRoot, HubThere, Asked
  <2>3. Answers(p)' BY <2>1, SMT DEF Answers
  <2>4. Known(p)' BY <1>1, <1>2 DEF Clean, Known, OwnAddr
  <2>5. NewComer(p)' BY <1>1, <1>2, <1>3, <2>1, SMT DEF Clean, NewComer
  <2>6. Promised(p)' BY <2>2 DEF Promised
  <2> QED BY <2>3, <2>4, <2>5, <2>6 DEF Clean
<1>6. CASE PlugOrPullPort
  <2>1. PICK h \in Ports :
          /\ dev' = [dev EXCEPT ![h] = [Unplugged EXCEPT !.there = 1 - dev[h].there,
                                                        !.change = powered]]
          /\ excuse' = IF Unseen(h) THEN excuse \cup {h} ELSE excuse
          /\ UNCHANGED <<kind, root_addr, powered, portVars>>
    BY <1>6 DEF PlugOrPullPort
  <2>2. HubThere' <=> HubThere BY <2>1 DEF HubThere, portVars
  <2>3. CASE p # h
    <3>1. dev'[p] = dev[p] BY <1>0, <2>1, <2>3
    <3>2. Asked' <=> Asked BY <1>1, <2>1, <2>2 DEF Asked, portVars
    <3>3. Answers(p)' BY <1>1, <1>2, <1>3, <3>1 DEF Clean, Answers, OwnAddr
    <3>4. Known(p)' BY <1>1, <1>2 DEF Clean, Known, OwnAddr
    <3>5. NewComer(p)' BY <1>1, <1>2, <1>3, <3>1 DEF Clean, NewComer
    <3>6. Ahead(p)' <=> Ahead(p) BY <1>1 DEF Ahead
    <3>7. Promised(p)' BY <1>1, <1>2, <2>2, <3>1, <3>2, <3>6 DEF Clean, Promised
    <3> QED BY <3>3, <3>4, <3>5, <3>7 DEF Clean
  <2>4. CASE p = h
    <3>1. /\ dev'[p].on = 0 /\ dev'[p].change = powered
          /\ dev'[p].there = 1 - dev[p].there /\ dev[p].there \in 0 .. 1
      <4>1. dev'[p] = [Unplugged EXCEPT !.there = 1 - dev[p].there, !.change = powered]
        BY <1>0, <2>1, <2>4
      <4>2. dev[p] \in DevRec BY <1>0
      <4> QED BY <4>1, <4>2, SMT DEF Unplugged, DevRec
    <3>2. dev'[p].there = 1 => Device[p].bAddress = 0
      <4>1. ~Unseen(p) BY <2>1, <2>4
      <4>2. dev'[p].there = 1 => dev[p].there = 0 BY <3>1, SMT
      <4> QED BY <1>2, <4>1, <4>2 DEF Unseen, Clean, Known
    <3>3. pc \in PortLoop /\ HubThere' => dev'[p].change = 1 BY <2>2, <3>1 DEF RootInv
    <3>4. Answers(p)' BY <3>1, SMT DEF Answers
    <3>5. Known(p)' BY <1>1, <1>2 DEF Clean, Known, OwnAddr
    <3>6. NewComer(p)' BY <1>1, <1>2, <1>3, <3>2 DEF Clean, NewComer
    <3>7. Promised(p)'
      BY <1>1, <3>3, SMT DEF Promised, Ahead, PortLoop, Asked
    <3> QED BY <3>4, <3>5, <3>6, <3>7 DEF Clean
  <2> QED BY <2>3, <2>4
<1> QED BY <1>4, <1>5, <1>6 DEF Move

(* The root device.                                                        *)
LEMMA RootCleans ==
  ASSUME HostTypeOK, RootInv, PortInv, CleanInv,
         \/ CheckRootHubPortStatus \/ ResetRootHubPort \/ Identify
         \/ EnumHidDevice \/ EnumHubDevice \/ PollHub
  PROVE  CleanInv'
<1> USE HostNumbers
<1>0. dev \in [Ports -> DevRec] /\ Device \in [Ports -> PortRec] /\ hub_port \in Ports
  BY TypesAgree DEF HostTypeOK
<1> SUFFICES ASSUME NEW p \in Ports, p \notin excuse' PROVE Clean(p)'
  BY DEF CleanInv
<1>1. p # RootPort /\ p + 1 # 0 BY SMT DEF RootPort, Ports
<1>2. CASE CheckRootHubPortStatus
  <2>1. pc = "check" /\ UNCHANGED <<dev, port_en, kind, powered, hub_dat, hub_port>>
    BY <1>2 DEF CheckRootHubPortStatus, devVars
  <2>2. CASE Disconnected /\ kind = "none"
    <3>1. dev'[p].on # 1
      <4>1. powered # 1 BY <2>2 DEF RootInv, HubThere
      <4> QED BY <2>1, <4>1 DEF PortInv
    <3>2. Device'[p] = Unknown /\ pc' = "poll" BY <2>2 DEF Disconnected
    <3>3. Device'[p].bStatus = 0 /\ Device'[p].bAddress = 0 BY <3>2, SMT DEF Unknown
    <3>4. Answers(p)' BY <3>1 DEF Answers
    <3>5. Known(p)' BY <3>3, SMT DEF Known
    <3>6. NewComer(p)' BY <3>3 DEF NewComer
    <3>7. Promised(p)' BY <3>2 DEF Promised, Ahead
    <3> QED BY <3>4, <3>5, <3>6, <3>7 DEF Clean
  <2>3. CASE Connected
    <3>1. UNCHANGED <<Device, HostCtl>> /\ pc' = "attach" /\ p \notin excuse /\ p \notin Remembered
      BY <1>1, <2>3 DEF Connected
    <3>2. Device[p].bAddress = 0 BY <3>1, SMT DEF Remembered, Unknown
    <3>3. Clean(p) BY <3>1 DEF CleanInv
    <3>4. ~AtPort(p) /\ ~AtPort(p)' /\ ~Ahead(p)' BY <2>1, <3>1 DEF AtPort, Ahead
    <3> QED BY <2>1, <3>1, <3>2, <3>3, <3>4, CleanStays
  <2>4. CASE pc' = "poll" /\ UNCHANGED <<rootVars, Device, HostCtl, enum_cnt, excuse>>
    <3>1. Clean(p) BY <2>4 DEF CleanInv
    <3>2. ~AtPort(p) /\ ~AtPort(p)' /\ ~Ahead(p)' /\ pc' \notin Bringing
      BY <2>1, <2>4 DEF AtPort, Ahead, Bringing
    <3> QED BY <2>1, <2>4, <3>1, <3>2, CleanStays
  <2> QED BY <1>2, <2>2, <2>3, <2>4 DEF CheckRootHubPortStatus
<1>3. CASE ResetRootHubPort
  <2>1. /\ UNCHANGED <<Device, HostCtl, hub_dat, hub_port>> /\ p \notin excuse
        /\ pc = "attach" /\ pc' \in {"attach", "poll", "identify"}
    BY <1>3 DEF ResetRootHubPort, Again
  <2>2. Clean(p) BY <2>1 DEF CleanInv
  <2>3. Device[p].bAddress = 0 BY <2>1, <2>2 DEF Clean, NewComer, Bringing
  <2>4. ~AtPort(p) /\ ~AtPort(p)' /\ ~Ahead(p)' BY <2>1 DEF AtPort, Ahead
  <2>5. CASE dev' = dev BY <2>1, <2>2, <2>3, <2>4, <2>5, CleanStays
  <2>6. CASE dev' = Reset(dev)
    <3>1. dev'[p].on = 0 BY <1>0, <2>6, ResetFields
    <3>2. Answers(p)' BY <3>1, SMT DEF Answers
    <3>3. Known(p)' BY <2>1, <2>2 DEF Clean, Known, OwnAddr
    <3>4. NewComer(p)' BY <2>1, <2>3 DEF NewComer
    <3>5. Promised(p)' BY <2>1, <2>4 DEF Promised
    <3> QED BY <3>2, <3>3, <3>4, <3>5 DEF Clean
  <2> QED BY <1>3, <2>5, <2>6 DEF ResetRootHubPort, devVars
<1>4. CASE Identify
  <2>1. /\ UNCHANGED <<dev, Device, HostCtl, hub_dat, hub_port>> /\ p \notin excuse
        /\ pc = "identify" /\ pc' \in {"attach", "poll", "classify"}
    BY <1>4 DEF Identify, Again
  <2>2. Clean(p) BY <2>1 DEF CleanInv
  <2>3. ~AtPort(p) /\ ~AtPort(p)' /\ ~Ahead(p)' /\ pc \in Bringing
    BY <2>1 DEF AtPort, Ahead, Bringing
  <2> QED BY <2>1, <2>2, <2>3, CleanStays
<1>5. CASE EnumHidDevice \/ EnumHubDevice
  <2>1. /\ UNCHANGED <<Device, hub_dat, hub_port>> /\ p \notin excuse
        /\ pc = "classify" /\ pc' = "poll"
    BY <1>1, <1>5 DEF EnumHidDevice, EnumHubDevice
  <2>2. HostCtl'[p + 1] = HostCtl[p + 1]
    BY <1>1, <1>5, RecordTypes DEF EnumHidDevice, EnumHubDevice, HostTypeOK
  <2>3. Clean(p) BY <2>1 DEF CleanInv
  <2>4. Device[p].bAddress = 0 BY <2>1, <2>3 DEF Clean, NewComer, Bringing
  <2>5. ~AtPort(p) /\ ~AtPort(p)' /\ ~Ahead(p)' BY <2>1 DEF AtPort, Ahead
  <2>6. dev'[p].on = dev[p].on /\ dev'[p].addr = dev[p].addr
    <3>1. \/ dev' = dev
          \/ dev' = [q \in Ports |-> [dev[q] EXCEPT !.change = dev[q].there]]
      BY <1>5 DEF EnumHidDevice, EnumHubDevice, devVars
    <3>2. CASE dev' = dev BY <3>2
    <3>3. CASE dev' = [q \in Ports |-> [dev[q] EXCEPT !.change = dev[q].there]]
      BY <1>0, <3>3, PoweredFields
    <3> QED BY <3>1, <3>2, <3>3
  <2>7. Answers(p)' BY <2>1, <2>3, <2>5, <2>6 DEF Clean, Answers, OwnAddr
  <2>8. Known(p)' BY <2>1, <2>2, <2>3 DEF Clean, Known, OwnAddr
  <2>9. NewComer(p)' BY <2>1, <2>4 DEF NewComer
  <2>10. Promised(p)' BY <2>1, <2>5 DEF Promised
  <2> QED BY <2>7, <2>8, <2>9, <2>10 DEF Clean
<1>6. CASE PollHub
  <2>1. /\ UNCHANGED <<dev, kind, port_en, Device, HostCtl>> /\ p \notin excuse
        /\ pc = "poll" /\ pc' \in {"pre1", "check"}
    BY <1>6 DEF PollHub, devVars
  <2>2. Clean(p) BY <2>1 DEF CleanInv
  <2>3. ~AtPort(p) /\ ~AtPort(p)' /\ pc' \notin Bringing BY <2>1 DEF AtPort, Bringing
  <2>4. Answers(p)' BY <2>1, <2>2, <2>3 DEF Clean, Answers, OwnAddr
  <2>5. Known(p)' BY <2>1, <2>2 DEF Clean, Known, OwnAddr
  <2>6. NewComer(p)' BY <2>1, <2>2, <2>3 DEF Clean, NewComer
  <2>7. pc' = "pre1" => hub_dat' = Changes BY <1>6 DEF PollHub
  <2>8. Promised(p)' BY <2>1, <2>7, SMT DEF Promised, Ahead, Changes
  <2> QED BY <2>4, <2>5, <2>6, <2>8 DEF Clean
<1> QED BY <1>2, <1>3, <1>4, <1>5, <1>6

LEMMA NextPortGoesOn ==
  ASSUME HostTypeOK, NextPort, NEW p \in Ports, pc \in PortLoop
  PROVE  /\ pc' \in {"pre1", "check"} /\ ~AtPort(p)' /\ pc' \notin Bringing
         /\ Ahead(p)' => hub_port < p
BY HostNumbers, SMT DEF NextPort, AtPort, Ahead, Bringing, PortLoop, HostTypeOK, Ports

LEMMA PreEnum1Cleans ==
  ASSUME HostTypeOK, RootInv, PortInv, CleanInv, PreEnum1
  PROVE  CleanInv'
<1> USE HostNumbers
<1>0. dev \in [Ports -> DevRec] /\ Device \in [Ports -> PortRec] /\ hub_port \in Ports
  BY TypesAgree DEF HostTypeOK
<1> SUFFICES ASSUME NEW p \in Ports, p \notin excuse' PROVE Clean(p)'
  BY DEF CleanInv
<1>1. /\ pc = "pre1" /\ UNCHANGED <<kind, port_en, powered, SelfAddr, root_addr>>
      /\ ~AtPort(p) /\ (HubThere' <=> HubThere)
  BY DEF PreEnum1, portVars, AtPort, HubThere
<1>2. dev' \in {dev, [dev EXCEPT ![hub_port].change = 0]} BY DEF PreEnum1
<1>3. 0 \in 0 .. 1 BY SMT
<1>4. p # hub_port => dev'[p] = dev[p] BY <1>0, <1>2
<1>5. hub_port < p => Ahead(p) BY <1>0, <1>1, SMT DEF Ahead, Ports
<1>6. CASE p # hub_port
  <2>1. \/ UNCHANGED <<Device, HostCtl, hub_dat, hub_port>> /\ pc' = "pre2" /\ p \notin excuse
        \/ Forget
    BY DEF PreEnum1
  <2>2. CASE UNCHANGED <<Device, HostCtl, hub_dat, hub_port>> /\ pc' = "pre2" /\ p \notin excuse
    <3>1. Clean(p) BY <2>2 DEF CleanInv
    <3>2. ~AtPort(p)' /\ pc' \notin Bringing /\ (Ahead(p)' => Ahead(p))
      BY <1>1, <1>5, <2>2, SMT DEF AtPort, Bringing, Ahead
    <3> QED BY <1>1, <1>4, <1>6, <2>2, <3>1, <3>2, CleanStays
  <2>3. CASE Forget
    <3>1. p \notin excuse BY <1>6 DEF PreEnum1
    <3>2. Device[hub_port].DeviceIndex \in {0, hub_port + 1}
      <4>1. Unknown.DeviceIndex = 0 BY DEF Unknown
      <4> QED BY <1>0, <4>1 DEF PortInv
    <3>3. /\ hub_port + 1 # p + 1 /\ 0 # p + 1 /\ p + 1 \in 0 .. NPorts
      BY <1>0, <1>6, SMT DEF Ports
    <3>4. HostCtl'[p + 1] = HostCtl[p + 1] BY <2>3, <3>2, <3>3 DEF Forget, HostTypeOK
    <3>5. Device'[p] = Device[p] BY <1>0, <1>6, <2>3 DEF Forget
    <3>6. Clean(p) BY <3>1 DEF CleanInv
    <3>7. pc \in PortLoop /\ NextPort BY <1>1, <2>3 DEF PortLoop, Forget
    <3>8. /\ pc' \in {"pre1", "check"} /\ ~AtPort(p)' /\ pc' \notin Bringing
          /\ Ahead(p)' => Ahead(p)
      BY <1>5, <3>7, NextPortGoesOn
    <3>9. hub_dat' \subseteq hub_dat BY <2>3 DEF Forget
    <3> QED BY <1>1, <1>4, <1>6, <3>4, <3>5, <3>6, <3>8, <3>9, CleanStays
  <2> QED BY <2>1, <2>2, <2>3
<1>7. CASE p = hub_port /\ Forget /\ (dev[p].there = 0 \/ port_en = 0)
  <2>1. Device'[p] = Unknown /\ p \notin hub_dat' BY <1>0, <1>7 DEF Forget
  <2>2. Device'[p].bStatus = 0 /\ Device'[p].bAddress = 0 BY <2>1, SMT DEF Unknown
  <2>3. dev'[p].on # 1
    <3>1. dev[p].on # 1 BY <1>7, SMT DEF PortInv, RootInv, HubThere
    <3>2. CASE dev' = dev BY <3>1, <3>2
    <3>3. CASE dev' = [dev EXCEPT ![hub_port].change = 0]
      <4>1. dev'[hub_port].on = dev[hub_port].on BY <1>0, <1>3, <3>3, AcknowledgedFields
      <4> QED BY <1>7, <3>1, <4>1
    <3> QED BY <1>2, <3>2, <3>3
  <2>4. Answers(p)' BY <2>3 DEF Answers
  <2>5. Known(p)' BY <2>2, SMT DEF Known
  <2>6. NewComer(p)' BY <2>2 DEF NewComer
  <2>7. Promised(p)' BY <2>1 DEF Promised
  <2> QED BY <2>4, <2>5, <2>6, <2>7 DEF Clean
<1>8. CASE /\ p = hub_port /\ Asked /\ dev[p].change = 1 /\ dev[p].there = 1 /\ pc' = "pre2"
           /\ dev' = [dev EXCEPT ![hub_port].change = 0]
           /\ UNCHANGED <<Device, HostCtl, hub_dat, hub_port, excuse>>
  <2>1. Clean(p) BY <1>8 DEF CleanInv
  <2>2. Device[p].bAddress = 0 BY <1>8, <2>1 DEF Clean, NewComer
  <2>3. dev'[p].on = dev[p].on /\ dev'[p].addr = dev[p].addr
    <3>1. /\ dev'[hub_port].on = dev[hub_port].on /\ dev'[hub_port].addr = dev[hub_port].addr
      BY <1>0, <1>3, <1>8, AcknowledgedFields
    <3> QED BY <1>8, <3>1
  <2>4. ~AtPort(p)' /\ ~Ahead(p)' BY <1>0, <1>8, SMT DEF AtPort, Ahead, Ports
  <2>5. Answers(p)' BY <1>1, <1>8, <2>1, <2>3, <2>4 DEF Clean, Answers, OwnAddr
  <2>6. Known(p)' BY <1>8, <2>1 DEF Clean, Known, OwnAddr
  <2>7. NewComer(p)' BY <1>8, <2>2 DEF NewComer
  <2>8. Promised(p)' BY <1>8, <2>2, <2>4 DEF Promised
  <2> QED BY <2>5, <2>6, <2>7, <2>8 DEF Clean
<1>9. CASE /\ p = hub_port /\ ~(Asked /\ dev[p].change = 1) /\ pc' = "pre2"
           /\ UNCHANGED <<dev, Device, HostCtl, hub_dat, hub_port, excuse>>
  <2>1. Clean(p) BY <1>9 DEF CleanInv
  <2>2. ~AtPort(p)' /\ ~Ahead(p)' /\ pc' \notin Bringing
    BY <1>0, <1>9, SMT DEF AtPort, Ahead, Ports, Bringing
  <2>3. Ahead(p) BY <1>0, <1>1, <1>9, SMT DEF Ahead, Ports
  <2>4. ~(p \in hub_dat' /\ Asked')
    <3>1. Asked' <=> Asked BY <1>1, <1>9 DEF Asked
    <3>2. Asked => p \in hub_dat /\ HubThere BY <1>9 DEF Asked
    <3> QED BY <1>9, <2>1, <2>3, <3>1, <3>2 DEF Clean, Promised
  <2> QED BY <1>1, <1>9, <2>1, <2>2, <2>4, CleanStays
<1>10. CASE p = hub_port /\ excuse' = excuse \cup {hub_port}
  BY <1>10
<1>11. dev[hub_port].there \in 0 .. 1
  <2>1. dev[hub_port] \in DevRec BY <1>0
  <2> QED BY <2>1 DEF DevRec
<1>12. dev[hub_port].there = 0 \/ dev[hub_port].there = 1 BY <1>11, SMT
<1> QED BY <1>6, <1>7, <1>8, <1>9, <1>10, <1>12 DEF PreEnum1

LEMMA PreEnum2Cleans ==
  ASSUME HostTypeOK, RootInv, PortInv, CleanInv, PreEnum2
  PROVE  CleanInv'
<1> USE HostNumbers
<1>0. dev \in [Ports -> DevRec] /\ Device \in [Ports -> PortRec] /\ hub_port \in Ports
  BY TypesAgree DEF HostTypeOK
<1> SUFFICES ASSUME NEW p \in Ports, p \notin excuse' PROVE Clean(p)'
  BY DEF CleanInv
<1>1. /\ pc = "pre2" /\ UNCHANGED <<kind, port_en, HostCtl>> /\ p \notin excuse
      /\ ~AtPort(p) /\ (HubThere' <=> HubThere) /\ pc \in PortLoop
  BY DEF PreEnum2, portVars, AtPort, HubThere, PortLoop
<1>2. Clean(p) BY <1>1 DEF CleanInv
<1> DEFINE e == WithIndex(Device, hub_port, ROOT_DEV_CONNECTED, Index(hub_port))
<1>3. ROOT_DEV_CONNECTED \in 0 .. 3 /\ Index(hub_port) \in 0 .. NPorts
  BY <1>0, SMT DEF Index, Ports
<1>4. /\ \A q \in Ports : q # hub_port => e[q] = Device[q]
      /\ e[hub_port].bStatus = ROOT_DEV_CONNECTED /\ e[hub_port].bAddress = Device[hub_port].bAddress
  BY <1>0, <1>3, ConnectFields
<1>5. dev' \in {dev, Restarted} /\ Device' \in {Device, e} BY DEF PreEnum2, WithIndex
<1> HIDE DEF e
<1>6. CASE p # hub_port
  <2>1. dev'[p] = dev[p] BY <1>0, <1>5, <1>6, RestartedFields
  <2>2. Device'[p] = Device[p] BY <1>4, <1>5, <1>6
  <2>3. /\ ~AtPort(p)' /\ pc' \notin Bringing /\ pc' # "pre2"
        /\ Ahead(p)' => Ahead(p)
    <3>1. CASE NextPort
      <4>1. /\ pc' \in {"pre1", "check"} /\ ~AtPort(p)' /\ pc' \notin Bringing
            /\ Ahead(p)' => hub_port < p
        BY <1>1, <3>1, NextPortGoesOn
      <4> QED BY <1>1, <4>1 DEF Ahead
    <3>2. CASE pc' = "port" /\ hub_port' = hub_port
      BY <1>1, <1>6, <3>2 DEF AtPort, Bringing, Ahead
    <3> QED BY <3>1, <3>2 DEF PreEnum2
  <2>4. hub_dat' \subseteq hub_dat BY DEF PreEnum2
  <2> QED BY <1>1, <1>2, <2>1, <2>2, <2>3, <2>4, CleanStays
<1>7. CASE p = hub_port /\ pc' = "port"
  <2>1. /\ Asked /\ dev[p].there = 1 /\ dev' = Restarted /\ Device' = e /\ hub_port' = hub_port
        /\ hub_dat' = hub_dat /\ ~Bounced
    <3>1. NextPort => pc' # "port" BY DEF NextPort
    <3> QED BY <1>7, <3>1 DEF PreEnum2, WithIndex, e
  <2>2. dev[p].change = 0
    <3>1. dev[p] \in DevRec BY <1>0
    <3>2. dev[p].change \in 0 .. 1 BY <3>1 DEF DevRec
    <3> QED BY <1>7, <2>1, <3>2, SMT DEF Bounced
  <2>3. Device[p].bAddress = 0 BY <1>1, <1>2, <1>7, <2>1, <2>2 DEF Clean, Promised, Asked
  <2>4. /\ dev'[p].on = 1 /\ dev'[p].addr = 0 /\ dev'[p].change = 0
        /\ Device'[p].bStatus = ROOT_DEV_CONNECTED /\ Device'[p].bAddress = 0
    BY <1>0, <1>4, <1>7, <2>1, <2>2, <2>3, RestartedFields
  <2>5. AtPort(p)' /\ ~Ahead(p)' BY <1>0, <1>7, <2>1, SMT DEF AtPort, Ahead, Ports
  <2>6. Answers(p)' BY <2>4, <2>5 DEF Answers
  <2>7. Known(p)' BY <2>4, SMT DEF Known
  <2>8. NewComer(p)' BY <2>4 DEF NewComer
  <2>9. Promised(p)' BY <1>7, <2>5 DEF Promised
  <2> QED BY <2>6, <2>7, <2>8, <2>9 DEF Clean
<1>8. CASE p = hub_port /\ pc' # "port"
  <2>1. /\ NextPort /\ p \notin hub_dat' /\ Device' = Device /\ dev' = dev
    BY <1>8 DEF PreEnum2
  <2>2. ~AtPort(p)' /\ pc' \notin Bringing BY <1>1, <2>1, NextPortGoesOn
  <2> QED BY <1>1, <1>2, <2>1, <2>2, CleanStays
<1> QED BY <1>6, <1>7, <1>8

LEMMA OwnAddresses ==
  /\ \A p \in Ports : OwnAddr(p) # 0 /\ OwnAddr(p) # DEV_ADDR
  /\ \A p, q \in Ports : p # q => OwnAddr(p) # OwnAddr(q) /\ p + 1 # q + 1
BY HostNumbers, SMT DEF OwnAddr, Ports

(* A device that answers behind the hub does so while the hub is there;    *)
(* unless something excuses one of the ports it is alone at address 0.     *)
LEMMA WhoAnswers ==
  ASSUME HostTypeOK, RootInv, PortInv, CleanInv, pc = "port"
  PROVE  /\ NewAddr = OwnAddr(hub_port)
         /\ \A p \in Ports : p # hub_port /\ p \notin excuse /\ p \notin Confused
                             => p \notin Answering
         /\ hub_port \notin excuse => /\ Target = 0
                                      /\ dev[hub_port].on = 1 => hub_port \in Answering
         /\ hub_port \notin excuse /\ hub_port \notin Confused /\ Answering # {}
              => hub_port \in Answering
<1> USE HostNumbers
<1>0. hub_port \in Ports BY DEF HostTypeOK
<1>1. NewAddr = OwnAddr(hub_port)
  <2>1. Device[hub_port].bStatus = ROOT_DEV_CONNECTED BY <1>0 DEF PortInv
  <2>2. ROOT_DEV_CONNECTED # ROOT_DEV_DISCONNECT BY SMT
  <2>3. Device[hub_port].DeviceIndex = hub_port + 1 BY <1>0, <2>1, <2>2 DEF PortInv
  <2> QED BY <2>3 DEF NewAddr, OwnAddr
<1>2. hub_port \notin excuse => Target = 0
  BY <1>0 DEF CleanInv, Clean, NewComer, AtPort, Target
<1>3. ASSUME NEW p \in Ports, p # hub_port, p \notin excuse, p \in Answering
      PROVE  dev[p].on = 1 /\ Target # 0
  <2>1. dev[p].on = 1 /\ dev[p].addr = Target BY <1>3 DEF Answering
  <2>2. dev[p].addr = OwnAddr(p) BY <1>3, <2>1 DEF CleanInv, Clean, Answers, AtPort
  <2> QED BY <2>1, <2>2, OwnAddresses
<1>4. hub_port \notin excuse /\ dev[hub_port].on = 1 => hub_port \in Answering
  <2> SUFFICES ASSUME hub_port \notin excuse, dev[hub_port].on = 1 PROVE hub_port \in Answering
    OBVIOUS
  <2>1. dev[hub_port].addr = 0 BY <1>0 DEF CleanInv, Clean, Answers, AtPort
  <2>2. HubThere BY <1>0 DEF PortInv, RootInv
  <2> QED BY <1>0, <1>2, <2>1, <2>2 DEF Answering
<1>5. ASSUME NEW p \in Ports, p # hub_port, p \notin excuse, p \notin Confused
      PROVE  p \notin Answering
  <2> SUFFICES ASSUME p \in Answering PROVE FALSE OBVIOUS
  <2>1. Target # 0 BY <1>3, <1>5
  <2>2. hub_port \in excuse BY <1>2, <2>1
  <2>3. excuse \cap Ports # {} BY <1>0, <2>2
  <2>4. Answering = {hub_port} BY <1>5, <2>3 DEF Confused
  <2> QED BY <1>5, <2>4
<1>6. ASSUME hub_port \notin excuse, hub_port \notin Confused, Answering # {}
      PROVE  hub_port \in Answering
  <2> SUFFICES ASSUME hub_port \notin Answering PROVE FALSE OBVIOUS
  <2>1. PICK p \in Ports : p \in Answering BY <1>6 DEF Answering
  <2>2. p # hub_port BY <2>1
  <2>3. excuse \cap Ports = {} BY <1>0, <1>6 DEF Confused
  <2>4. p \notin excuse BY <2>3
  <2>5. Target # 0 BY <1>3, <2>1, <2>2, <2>4
  <2> QED BY <1>2, <1>6, <2>5
<1> QED BY <1>1, <1>2, <1>4, <1>5, <1>6

LEMMA PortCleans ==
  ASSUME HostTypeOK, RootInv, PortInv, CleanInv, EnumHubPortDevice
  PROVE  CleanInv'
<1> USE HostNumbers
<1>0. dev \in [Ports -> DevRec] /\ Device \in [Ports -> PortRec] /\ hub_port \in Ports
  BY TypesAgree DEF HostTypeOK
<1> SUFFICES ASSUME NEW p \in Ports, p \notin excuse' PROVE Clean(p)'
  BY DEF CleanInv
<1>1. /\ pc = "port" /\ pc \in PortLoop /\ NextPort /\ UNCHANGED <<kind, port_en, hub_dat>>
      /\ p \notin excuse /\ (HubThere' <=> HubThere)
  BY DEF EnumHubPortDevice, PortFound, PortLoop, HubThere
<1>2. Clean(p) BY <1>1 DEF CleanInv
<1>3. /\ pc' \in {"pre1", "check"} /\ ~AtPort(p)' /\ pc' \notin Bringing
      /\ Ahead(p)' => Ahead(p)
  <2>1. Ahead(p)' => hub_port < p BY <1>1, NextPortGoesOn
  <2> QED BY <1>1, <2>1, NextPortGoesOn DEF Ahead
<1>4. /\ Addressed \in [Ports -> DevRec]
      /\ \A q \in Ports :
              /\ Addressed[q].there = dev[q].there /\ Addressed[q].change = dev[q].change
              /\ Addressed[q].on = dev[q].on
              /\ Addressed[q].addr = IF q \in Answering THEN NewAddr ELSE dev[q].addr
  BY <1>0, PortAddresses, AddressedFields
<1>5. CASE p # hub_port
  <2>1. Device'[p] = Device[p] BY <1>0, <1>5 DEF EnumHubPortDevice, PortFound, PortFailed
  <2>2. HostCtl'[p + 1] = HostCtl[p + 1]
    <3>1. HostCtl' \in {HostCtl, [HostCtl EXCEPT ![Device[hub_port].DeviceIndex] = "hid"]}
      BY DEF EnumHubPortDevice, PortFound, PortFailed
    <3>2. Device[hub_port].DeviceIndex = hub_port + 1
      <4>1. Device[hub_port].bStatus = ROOT_DEV_CONNECTED BY <1>0, <1>1 DEF PortInv
      <4>2. ROOT_DEV_CONNECTED # ROOT_DEV_DISCONNECT BY SMT
      <4> QED BY <1>0, <4>1, <4>2 DEF PortInv
    <3>3. p + 1 # hub_port + 1 /\ p + 1 \in 0 .. NPorts
      BY <1>0, <1>5, OwnAddresses, RecordTypes
    <3> QED BY <3>1, <3>2, <3>3 DEF HostTypeOK
  <2>3. dev'[p].there = dev[p].there /\ dev'[p].change = dev[p].change /\ dev'[p].on = dev[p].on
        /\ dev'[p].addr = dev[p].addr
    <3>1. \/ dev' = dev
          \/ dev' = Addressed /\ p \notin Confused
      BY DEF EnumHubPortDevice, PortFound
    <3>2. CASE dev' = dev BY <3>2
    <3>3. CASE dev' = Addressed /\ p \notin Confused
      <4>1. p \notin Answering BY <1>1, <1>5, <3>3, WhoAnswers
      <4> QED BY <1>4, <3>3, <4>1
    <3> QED BY <3>1, <3>2, <3>3
  <2>4. ~AtPort(p) BY <1>5 DEF AtPort
  <2>5. Answers(p)' BY <1>2, <1>3, <2>1, <2>3, <2>4 DEF Clean, Answers, OwnAddr
  <2>6. Known(p)' BY <1>2, <2>1, <2>2 DEF Clean, Known, OwnAddr
  <2>7. NewComer(p)' BY <1>2, <1>3, <2>1, <2>3 DEF Clean, NewComer
  <2>8. Promised(p)' BY <1>1, <1>2, <1>3, <2>3 DEF Clean, Promised
  <2> QED BY <2>5, <2>6, <2>7, <2>8 DEF Clean
<1>6. CASE p = hub_port
  <2>1. AtPort(p) /\ ~Ahead(p)' BY <1>0, <1>1, <1>6, NextPortGoesOn, SMT DEF AtPort, Ports
  <2>2. Promised(p)' BY <1>3, <2>1 DEF Promised
  <2>3. CASE PortFound
    <3>1. p \in Answering BY <1>0, <1>1, <1>6, <2>3, WhoAnswers DEF PortFound
    <3>2. dev[p].on = 1 BY <3>1 DEF Answering
    <3>3. dev[p].change = 0 BY <1>2, <2>1, <3>2 DEF Clean, Answers
    <3>4. NewAddr = OwnAddr(p) BY <1>1, <1>6, WhoAnswers
    <3>5. dev'[p].addr = OwnAddr(p) /\ dev'[p].change # 1
      <4>1. dev'[p].addr = NewAddr /\ dev'[p].change = 0 BY <1>4, <2>3, <3>1, <3>3 DEF PortFound
      <4> QED BY <3>4, <4>1, SMT
    <3>6. /\ Device'[p].bStatus = ROOT_DEV_SUCCESS /\ Device'[p].bAddress = OwnAddr(p)
          /\ Device[p].DeviceIndex = p + 1
      <4>1. ROOT_DEV_SUCCESS \in 0 .. 3 BY SMT
      <4>2. Device' = WithAddr(Device, hub_port, ROOT_DEV_SUCCESS, NewAddr)
        BY <2>3 DEF PortFound, WithAddr
      <4>3. Device[p].DeviceIndex + DEV_ADDR = p + 1 + DEV_ADDR BY <1>6, <3>4 DEF NewAddr, OwnAddr
      <4>4. Device[p].DeviceIndex \in 0 .. NPorts BY <1>0, <1>6, PortFields
      <4>5. Device[p].DeviceIndex = p + 1 BY <4>3, <4>4, SMT DEF Ports
      <4> QED BY <1>0, <1>6, <3>4, <4>1, <4>2, <4>5, PortAddresses, StatusFields
    <3>7. HostCtl'[p + 1] = "hid"
      <4>1. p + 1 \in 0 .. NPorts BY RecordTypes
      <4> QED BY <1>6, <2>3, <3>6, <4>1 DEF PortFound, HostTypeOK
    <3>8. Answers(p)' BY <1>3, <3>5, <3>6 DEF Answers, OwnAddr
    <3>9. Known(p)' BY <3>6, <3>7 DEF Known, OwnAddr
    <3>10. NewComer(p)' BY <1>3, <3>5 DEF NewComer
    <3> QED BY <2>2, <3>8, <3>9, <3>10 DEF Clean
  <2>4. CASE Answering = {} /\ PortFailed(Target) /\ UNCHANGED <<dev, faults, excuse>>
    <3>1. dev[p].on # 1 BY <1>1, <1>6, <2>4, WhoAnswers
    <3>2. Target = 0 BY <1>1, <1>6, WhoAnswers
    <3>3. Device'[p].bStatus # ROOT_DEV_SUCCESS /\ Device'[p].bAddress = 0
      <4>1. ROOT_DEV_FAILED \in 0 .. 3 /\ ROOT_DEV_FAILED # ROOT_DEV_SUCCESS BY SMT
      <4>2. Device' = WithAddr(Device, hub_port, ROOT_DEV_FAILED, Target)
        BY <2>4 DEF PortFailed, WithAddr
      <4> QED BY <1>0, <1>6, <3>2, <4>1, <4>2, PortAddresses, StatusFields
    <3>4. Answers(p)' BY <2>4, <3>1 DEF Answers
    <3>5. Known(p)' BY <3>3 DEF Known
    <3>6. NewComer(p)' BY <3>3 DEF NewComer
    <3> QED BY <2>2, <3>4, <3>5, <3>6 DEF Clean
  <2>5. CASE hub_port \in excuse' BY <1>6, <2>5
  <2> QED BY <2>3, <2>4, <2>5 DEF EnumHubPortDevice
<1> QED BY <1>5, <1>6

-----------------------------------------------------------------------------
(* The theorems.                                                           *)

HostInv == HostTypeOK /\ RootInv /\ PortInv /\ CleanInv

LEMMA HostStep == HostInv /\ [Next]_vars => HostInv'
<1> SUFFICES ASSUME HostInv, [Next]_vars PROVE HostInv'
  OBVIOUS
<1> USE DEF HostInv
<1>1. CASE Move BY <1>1, MoveTypes, RootKeeps, PortKeeps, MoveCleans DEF Next
<1>2. CASE CheckRootHubPortStatus
  BY <1>2, CheckTypes, RootKeeps, PortKeeps, RootCleans DEF Next, Main
<1>3. CASE ResetRootHubPort BY <1>3, ResetTypes, RootKeeps, PortKeeps, RootCleans DEF Next, Main
<1>4. CASE Identify BY <1>4, IdentifyTypes, RootKeeps, PortKeeps, RootCleans DEF Next, Main
<1>5. CASE EnumHidDevice \/ EnumHubDevice
  BY <1>5, EnumTypes, RootKeeps, PortKeeps, RootCleans DEF Next, Main
<1>6. CASE PollHub BY <1>6, PollTypes, RootKeeps, PortKeeps, RootCleans DEF Next, Main
<1>7. CASE PreEnum1 BY <1>7, PreEnum1Types, RootKeeps, PortKeeps, PreEnum1Cleans DEF Next, Main
<1>8. CASE PreEnum2 BY <1>8, PreEnum2Types, RootKeeps, PortKeeps, PreEnum2Cleans DEF Next, Main
<1>9. CASE EnumHubPortDevice
  BY <1>9, PortTypes, RootKeeps, PortKeeps, PortCleans DEF Next, Main
<1>10. CASE UNCHANGED vars
  <2>1. HostTypeOK' /\ RootInv'
    BY <1>10 DEF vars, devVars, portVars, rootVars, loopVars, HostTypeOK, RootInv, HubThere
  <2>2. PortInv' BY <1>10 DEF vars, devVars, portVars, rootVars, loopVars, PortInv
  <2>3. CleanInv'
    BY <1>10 DEF vars, devVars, portVars, rootVars, loopVars, CleanInv, Clean, Answers, Known,
                 NewComer, Promised, AtPort, Ahead, Asked, HubThere, OwnAddr
  <2> QED BY <2>1, <2>2, <2>3
<1> QED BY <1>1, <1>2, <1>3, <1>4, <1>5, <1>6, <1>7, <1>8, <1>9, <1>10 DEF Next, Main

(* The host's tables, the attempts and the address register keep their     *)
(* types for any number of ports; no attempt is made beyond RootTries.     *)
THEOREM HostTypeCorrect == Spec => []HostTypeOK
<1>1. HostInv => HostTypeOK BY DEF HostInv
<1> QED BY HostInit, HostStep, <1>1, PTL DEF Spec, HostInv

(* Whatever is plugged, pulled or fails, and in whichever step of the      *)
(* loop: a port's device that is polled answers alone at the address the   *)
(* host holds for it, as long as nothing left a device half enumerated.    *)
THEOREM AddressesAreOwn == Spec => []AddressIsOwn
<1>1. HostInv => AddressIsOwn
  <2> SUFFICES ASSUME HostInv, excuse \cap Ports = {}, NEW p \in Ports,
                      Device[p].bStatus = ROOT_DEV_SUCCESS, HubThere, dev[p].on = 1
               PROVE  /\ Device[p].bAddress = dev[p].addr /\ HostCtl[Device[p].DeviceIndex] = "hid"
                      /\ root_addr # dev[p].addr
                      /\ \A q \in Ports \ {p} : dev[q].on = 1 => dev[q].addr # dev[p].addr
    BY DEF AddressIsOwn
  <2>1. \A q \in Ports : Clean(q) BY DEF HostInv, CleanInv
  <2>2. ROOT_DEV_SUCCESS # ROOT_DEV_CONNECTED /\ ROOT_DEV_SUCCESS # ROOT_DEV_DISCONNECT
    BY HostNumbers, SMT
  <2>3. ~AtPort(p) BY <2>2 DEF HostInv, PortInv, AtPort
  <2>4. dev[p].addr = OwnAddr(p) BY <2>1, <2>3 DEF Clean, Answers
  <2>5. Device[p].bAddress = OwnAddr(p) /\ HostCtl[p + 1] = "hid" BY <2>1 DEF Clean, Known
  <2>6. Device[p].DeviceIndex = p + 1 BY <2>2 DEF HostInv, PortInv
  <2>7. root_addr # OwnAddr(p) BY OwnAddresses DEF HostInv, HostTypeOK
  <2>8. ASSUME NEW q \in Ports \ {p}, dev[q].on = 1
        PROVE  dev[q].addr # dev[p].addr
    <3>1. dev[q].addr = 0 \/ dev[q].addr = OwnAddr(q) BY <2>1, <2>8 DEF Clean, Answers
    <3> QED BY <2>4, <2>8, <3>1, OwnAddresses
  <2> QED BY <2>4, <2>5, <2>6, <2>7, <2>8
<1> QED BY HostInit, HostStep, <1>1, PTL DEF Spec, HostInv

=============================================================================
