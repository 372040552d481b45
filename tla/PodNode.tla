------------------------------ MODULE PodNode ------------------------------
(***************************************************************************)
(* The pod VM's end of the pod network: Setup and Teardown of the agent      *)
(* protocol forwarder, which rebuild in the VM's pod namespace the routes     *)
(* that Inspect found in the pod's namespace on the worker node, and may     *)
(* hand the VM's second interface to the pod.  Addresses come by DHCP while   *)
(* Setup waits for them, and systemd restarts a forwarder that failed.       *)
(***************************************************************************)
EXTENDS Naturals, Sequences, FiniteSets, SequencesExt

CONSTANTS Externals,   \* values of ExternalNetViaPodVM
          Dedicateds,  \* values of Dedicated: the tunnel uses the second interface
          PodSubnets,  \* PodSubnetCIDRs
          Cases,       \* what goes wrong, see Case
          MaxFaults    \* failed calls, crashes and ended servers

Steps == {"primary", "ip", "iptables", "link", "move", "kernelroute", "routes",
          "external", "default", "newdefault", "serving", "failed"}

\* Whether the second interface gets its address after the first, and the steps of
\* Setup that may fail.
Case == [ordered : BOOLEAN, faulty : SUBSET Steps]

ASSUME PodNodeAssumption == Cases \subseteq Case /\ MaxFaults \in Nat

VARIABLES case,    \* what goes wrong
          cni,     \* routes of the pod's namespace on the worker node
          single,  \* the pod's address has no subnet
          ext, dedicated,
          dhcp,    \* interfaces of the VM that have an address and a default route
          iface,   \* namespace of the VM's interfaces
          pc,      \* Setup, "serving" after it, or "failed"
          primary, \* hostPrimaryInterface
          link,    \* VXLAN interface: absent, in the "host" or the "pod" namespace
          rules,   \* iptables rules of the tunnel
          todo,    \* routes that Setup has yet to add
          table,   \* routes of the VM's pod namespace
          lastErr, \* step at which Setup failed last
          faults

envVars == <<case, cni, single, ext, dedicated>>
vars == <<envVars, dhcp, iface, pc, primary, link, rules, todo, table, lastErr, faults>>

(***************************************************************************)
(* Routes, over 3-bit addresses: a prefix is an address and a length         *)
(***************************************************************************)
NoGw == 8
Covers(p, a) == a \div 2^(3 - p[2]) = p[1] \div 2^(3 - p[2])
Default == <<0, 0>>
Subnet == <<4, 2>>    \* of the pod's address, 4
Cluster == <<4, 1>>   \* of all pods
Second == <<2, 2>>    \* of the VM's second interface, 2, with the gateway 3
Route(dst, gw, dev) == [dst |-> dst, gw |-> gw, dev |-> dev]

\* The kernel resolves a gateway by the longest route that covers it, which has
\* to be a route without a gateway.
Resolves(T, r) ==
  r.gw = NoGw \/ \E l \in T :
    /\ l.gw = NoGw /\ l.dev = r.dev /\ Covers(l.dst, r.gw)
    /\ \A o \in T : Covers(o.dst, r.gw) => o.dst[2] <= l.dst[2]

\* RouteAdd fails if there is a route to the destination or the gateway is not reachable.
Accepts(T, r) == (\A o \in T : o.dst # r.dst) /\ Resolves(T, r)

\* Route.compare, by which RouteList sorts.
compare(r, q) == r.dst[1] < q.dst[1] \/ (r.dst[1] = q.dst[1] /\ r.dst[2] < q.dst[2])
RouteList(T) == SetToSortSeq(T, compare)

\* Tables that a CNI plugin can make: a bridge has the subnet's route, Calico one
\* to a link-local gateway, PTP one to the gateway and the subnet behind it.
CniTables ==
  LET R == {Route(d, NoGw, "pod") : d \in {Subnet, <<5, 3>>, <<1, 3>>}}
             \union {Route(Default, g, "pod") : g \in {5, 1}}
             \union {Route(d, 5, "pod") : d \in {Subnet, Cluster}}
  IN {T \in SUBSET R :
        /\ \A r, q \in T : r.dst = q.dst => r = q
        /\ \A r \in T : Resolves(T \ {r}, r)
        /\ \E r \in T : r.dst = Default}

\* Faulty variant of Inspect: the routes to the pod subnets come without a gateway.
InspectNoGateway(T) ==
  RouteList(T) \o SetToSeq({Route(d, NoGw, "pod") : d \in PodSubnets})

\* The routes that Inspect sends: those of the pod, and one for every pod subnet
\* through the pod's default gateway.
Inspect(T) ==
  LET gateway == (CHOOSE r \in T : r.dst = Default).gw
  IN RouteList(T) \o SetToSeq({Route(d, gateway, "pod") : d \in PodSubnets})

\* Routes without a gateway first.
Ordered(rs) == SelectSeq(rs, LAMBDA r : r.gw = NoGw) \o SelectSeq(rs, LAMBDA r : r.gw # NoGw)

(***************************************************************************)
(* The VM's interfaces                                                      *)
(***************************************************************************)
Ifaces == {0, 1}
OnHost(up) == {i \in up : iface[i] = "host"}

\* Of the interfaces of one kind with a default route, the one with the lowest number.
findPrimaryInterface(up) == CHOOSE i \in up : \A j \in up : i <= j

Init ==
  /\ case \in Cases /\ cni \in CniTables /\ single \in BOOLEAN /\ ext \in Externals /\ dedicated \in Dedicateds
  /\ dhcp = {} /\ iface = [i \in Ifaces |-> "host"] /\ pc = "primary" /\ primary = 0
  /\ link = "none" /\ rules = FALSE /\ todo = << >> /\ table = {}
  /\ lastErr = "none" /\ faults = 0

DhcpAnswers(i) ==
  /\ i \notin dhcp /\ iface[i] = "host" /\ (case.ordered /\ i = 1 => 0 \in dhcp)
  /\ dhcp' = dhcp \union {i}
  /\ UNCHANGED <<envVars, iface, pc, primary, link, rules, todo, table, lastErr, faults>>

Fails == pc' = "failed" /\ lastErr' = pc
Goes(at) == pc' = at /\ UNCHANGED lastErr

(***************************************************************************)
(* Setup                                                                    *)
(***************************************************************************)
\* detectPrimaryInterface returns as soon as there is a default route.
DetectPrimary ==
  /\ pc = "primary" /\ OnHost(dhcp) # {}
  /\ primary' = findPrimaryInterface(OnHost(dhcp)) /\ Goes("ip")
  /\ UNCHANGED <<envVars, dhcp, iface, link, rules, todo, table, faults>>

\* detectIP of the primary interface and, for a dedicated tunnel, of the second.
DetectIP ==
  /\ pc = "ip"
  /\ IF dedicated /\ primary = 1 THEN Fails
     ELSE (dedicated => 1 \in dhcp) /\ Goes("iptables")
  /\ UNCHANGED <<envVars, dhcp, iface, primary, link, rules, todo, table, faults>>

\* Three minutes go by without a route or an address.
DetectTimesOut ==
  /\ \/ pc = "primary" /\ OnHost(dhcp) = {}
     \/ pc = "ip" /\ dedicated /\ primary = 0 /\ 1 \notin dhcp
  /\ Fails
  /\ UNCHANGED <<envVars, dhcp, iface, primary, link, rules, todo, table, faults>>

IptablesSetup ==
  /\ pc = "iptables" /\ rules' = TRUE /\ Goes("link")
  /\ UNCHANGED <<envVars, dhcp, iface, primary, link, todo, table, faults>>

\* LinkAdd: a VXLAN interface from an earlier start has the VNI.
LinkAdd ==
  /\ pc = "link"
  /\ IF link = "none" THEN link' = "host" /\ Goes("move") ELSE Fails /\ UNCHANGED link
  /\ UNCHANGED <<envVars, dhcp, iface, primary, rules, todo, table, faults>>

KernelRoute == Route(Subnet, NoGw, "pod")

\* SetNamespace, SetName, SetHardwareAddr, SetMTU, AddAddr and SetUp: the kernel
\* adds the route of the address's subnet.
Move ==
  /\ pc = "move" /\ link' = "pod" /\ Goes("kernelroute")
  /\ table' = IF single THEN table ELSE table \union {KernelRoute}
  /\ UNCHANGED <<envVars, dhcp, iface, primary, rules, todo, faults>>

\* Faulty variant of DeleteKernelRoute: the kernel's route stays.
DeleteKernelRouteNot ==
  /\ pc = "kernelroute" /\ todo' = Ordered(Inspect(cni)) /\ Goes("routes")
  /\ UNCHANGED <<envVars, dhcp, iface, primary, link, rules, table, faults>>

DeleteKernelRoute ==
  /\ pc = "kernelroute" /\ todo' = Ordered(Inspect(cni)) /\ Goes("routes")
  /\ table' = IF single THEN table ELSE table \ {KernelRoute}
  /\ UNCHANGED <<envVars, dhcp, iface, primary, link, rules, faults>>

AddRoute ==
  /\ pc = "routes" /\ todo # << >>
  /\ IF Accepts(table, Head(todo))
     THEN table' = table \union {Head(todo)} /\ todo' = Tail(todo) /\ Goes("routes")
     ELSE Fails /\ UNCHANGED <<table, todo>>
  /\ UNCHANGED <<envVars, dhcp, iface, primary, link, rules, faults>>

\* Neighbours are added to a new interface; Setup may go on with the external network.
RoutesDone ==
  /\ pc = "routes" /\ todo = << >> /\ Goes(IF ext THEN "external" ELSE "serving")
  /\ UNCHANGED <<envVars, dhcp, iface, primary, link, rules, todo, table, faults>>

(***************************************************************************)
(* setupExternalNetwork, whose errors are logged                             *)
(***************************************************************************)
\* getSecondaryInterfaceDetails: an interface other than the primary with an address,
\* and with a default route or in the subnet whose default route is the primary's.
Secondary(i) == i \in OnHost(dhcp) \ {primary}

\* moveInterfaceToNamespace up to SetUp: the kernel adds the interface's subnet.
MoveSecondary ==
  /\ pc = "external"
  /\ \/ /\ ~\E i \in Ifaces : Secondary(i)
        /\ Goes("serving") /\ UNCHANGED <<iface, table>>
     \/ \E i \in Ifaces : /\ Secondary(i) /\ iface' = [iface EXCEPT ![i] = "pod"]
                          /\ table' = table \union {Route(Second, NoGw, "second")}
                          /\ Goes("default")
  /\ UNCHANGED <<envVars, dhcp, primary, link, rules, todo, faults>>

DeleteDefaults ==
  /\ pc = "default" /\ Goes("newdefault") /\ table' = {r \in table : r.dst # Default}
  /\ UNCHANGED <<envVars, dhcp, iface, primary, link, rules, todo, faults>>

NewDefault ==
  LET r == Route(Default, 3, "second") IN
  /\ pc = "newdefault" /\ Goes("serving")
  /\ table' = IF Accepts(table, r) THEN table \union {r} ELSE table
  /\ UNCHANGED <<envVars, dhcp, iface, primary, link, rules, todo, faults>>

(***************************************************************************)
(* Failures, the end of the server and restarts                             *)
(***************************************************************************)
ExternalSteps == {"external", "default", "newdefault"}
Fault == faults < MaxFaults /\ faults' = faults + 1

\* A call fails: Setup returns the error, and undoes nothing, or logs it if it
\* comes from the external network.
CallFails ==
  /\ Fault /\ pc \in case.faulty
  /\ IF pc \in ExternalSteps THEN Goes("serving") ELSE Fails
  /\ UNCHANGED <<envVars, dhcp, iface, primary, link, rules, todo, table>>

\* The server ends: Teardown deletes the VXLAN interface, and its routes with it.
ServerEnds ==
  /\ Fault /\ pc = "serving" /\ Fails /\ link' = "none" /\ rules' = FALSE
  /\ table' = {r \in table : r.dev # "pod"}
  /\ UNCHANGED <<envVars, dhcp, iface, primary, todo>>

Restart ==
  /\ pc = "failed" /\ Goes("primary")
  /\ UNCHANGED <<envVars, dhcp, iface, primary, link, rules, todo, table, faults>>

Step ==
  \/ DetectPrimary
  \/ DetectIP
  \/ IptablesSetup
  \/ LinkAdd
  \/ Move
  \/ DeleteKernelRoute
  \/ AddRoute
  \/ RoutesDone
  \/ MoveSecondary
  \/ DeleteDefaults
  \/ NewDefault
  \/ Restart

Next ==
  \/ Step
  \/ \E i \in Ifaces : DhcpAnswers(i)
  \/ DetectTimesOut
  \/ CallFails
  \/ ServerEnds

Spec == Init /\ [][Next]_vars
\* The process runs, systemd restarts it, and DHCP answers.
FairSpec == Spec /\ WF_vars(Step) /\ \A i \in Ifaces : WF_vars(DhcpAnswers(i))

(***************************************************************************)
(* Properties                                                               *)
(***************************************************************************)
\* The state of Setup is well formed, and the pod namespace never has two routes
\* to one destination or routes of an interface it does not have.
TypeOK ==
  /\ case \in Cases /\ faults \in 0..MaxFaults
  /\ pc \in Steps /\ lastErr \in Steps \union {"none"} /\ primary \in Ifaces
  /\ iface \in [Ifaces -> {"host", "pod"}] /\ dhcp \subseteq Ifaces
  /\ link \in {"none", "host", "pod"} /\ rules \in BOOLEAN
  /\ \A r, q \in table : r.dst = q.dst => r = q
  /\ \A r \in table : IF r.dev = "pod" THEN link = "pod" ELSE \E i \in Ifaces : iface[i] = "pod"

Moved == \E i \in Ifaces : iface[i] = "pod"

\* A serving forwarder gives the pod the worker's routes and those to the pod
\* subnets, with the default route replaced if the external network is set up.
\* Whatever routes a CNI plugin made on the worker node, the kernel accepts them in
\* the order in which Setup adds them: Setup never fails at a route unless an earlier
\* start has handed over the second interface.  The VM's first interface, which the
\* worker node reaches the forwarder at, stays with the VM as long as it gets its
\* address first.  The state is well formed (TypeOK).
RoutesReproduced ==
  LET gateways == {r.gw : r \in {q \in cni : q.dst = Default}}
      sent == {r \in cni : Moved => r.dst # Default}
                \union {Route(d, g, "pod") : d \in PodSubnets, g \in gateways}
      external == {Route(Second, NoGw, "second"), Route(Default, 3, "second")}
  IN /\ TypeOK /\ (lastErr = "routes" => Moved) /\ (case.ordered => iface[0] = "host")
     /\ pc = "serving" => table = sent \union IF Moved THEN external ELSE {}

\* As long as failures come before the VXLAN interface is made, restarts repair them
\* and addresses that come late only delay Setup: in the end the forwarder serves.
EventuallyServes ==
  case.faulty \subseteq {"primary", "ip", "iptables"} => <>(pc = "serving")
=============================================================================
