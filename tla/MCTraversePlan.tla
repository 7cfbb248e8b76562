--------------------------- MODULE MCTraversePlan ---------------------------
(***************************************************************************)
(* One round of the plan: the peers' sessions are any of a small set, then *)
(* the traverse commands are computed.  The bounds take every NAT type on  *)
(* both sides, one and two components, ports below, near and above the     *)
(* floor of the sprays and at the top of the range, two components near to *)
(* and far from each other, and peers that do and do not share a NAT       *)
(* address, a netmask and a subnet.                                        *)
(***************************************************************************)
EXTENDS TraversePlan

CONSTANTS
  MaxComps,  \* bound: components a client reports
  UPorts,    \* ports the NAT of u may have opened,
  PPorts,    \* and that of p
  Ids        \* values of the id counter

HighestPort == 65535

ASSUME CompsAssumption == MaxComps \in Nat
ASSUME PortAssumption  ==
  \A port \in UPorts \cup PPorts : port \in Nat /\ port <= HighestPort
ASSUME IdAssumption    == Ids \subseteq Nat

VARIABLES us, ps, clobbered, id, told

vars == <<us, ps, clobbered, id, told>>

\* Component i of a client, for which its NAT opened this port.
Component(hostIP, reflexIP, port, i) ==
  [host   |-> [ip |-> hostIP, port |-> port + i],
   reflex |-> [ip |-> reflexIP, port |-> port],
   len    |-> (port % 7) + i,
   step   |-> i]

\* The NAT opens another port for each component.
Opened(count, ports) ==
  {port \in [1 .. count -> ports] :
     \A i, j \in 1 .. count : port[i] = port[j] => i = j}

ClientSessions(hostIPs, reflexIPs, ports, masks, nats) ==
  UNION {{[nat |-> nat, got |-> got, mask |-> mask,
           comps |-> [i \in 1 .. count |-> Component(hostIP, reflexIP, port[i], i)]] :
            nat \in nats, got \in BOOLEAN, mask \in masks, hostIP \in hostIPs,
            reflexIP \in reflexIPs, port \in Opened(count, ports)} :
         count \in 1 .. MaxComps}

USessions == ClientSessions({<<1, 1>>}, {<<7, 1>>}, UPorts, {1}, NatType)
PSessions == ClientSessions({<<1, 2>>, <<2, 2>>}, {<<7, 1>>, <<8, 1>>}, PPorts,
                            {0, 1}, NatType \ {Unset})

Init ==
  /\ us \in USessions
  /\ ps \in PSessions
  /\ Len(us.comps) = Len(ps.comps)
  /\ clobbered \in BOOLEAN
  /\ id \in Ids
  /\ told = {}

Tell ==
  /\ told = {}
  /\ PortHolder(us, ps) = "nobody"
  /\ told' = {Plan(us, ps, id, clobbered)}
  /\ UNCHANGED <<us, ps, clobbered, id>>

Ask ==
  /\ told = {}
  /\ PortHolder(us, ps) # "nobody"
  /\ us' = [us EXCEPT !.got = @ \/ PortHolder(us, ps) = "u"]
  /\ ps' = [ps EXCEPT !.got = @ \/ PortHolder(us, ps) = "p"]
  /\ UNCHANGED <<clobbered, id, told>>

Next == Tell \/ Ask

Spec == Init /\ [][Next]_vars

-----------------------------------------------------------------------------
Other(side) == CASE side = "u" -> "p" [] side = "p" -> "u" [] OTHER -> side

\* It does not matter which of the two answers last: the other one is asked
\* for its ports, or told the same candidates, as if it had been first (the
\* branches of onMessage written once for each direction).  Only a clobbered
\* uReflexPort can tell the two apart.
RoleSymmetric ==
  /\ PortHolder(us, ps) = Other(PortHolder(ps, us))
  /\ ~clobbered => /\ ForU(us, ps, id) = ForP(ps, us, id, FALSE)
                   /\ ForP(us, ps, id, FALSE) = ForU(ps, us, id)

\* The candidates of one side before the relay.
Candidates(command, i) ==
  {command[i].list[k] : k \in 1 .. Len(command[i].list) - 1}

\* Every candidate a client is told, but the relay that ends its list, is its
\* peer's host or reflexive address for that very component, or the start of a
\* spray at the NAT the peer is behind; nobody is sent to itself (the checklist
\* loops of onMessage).
AboutPeer(command, theirs) ==
  \A i \in DOMAIN command :
    /\ command[i].list[Len(command[i].list)] = Relay
    /\ \A address \in Candidates(command, i) :
         \/ address \in {theirs.comps[i].host, theirs.comps[i].reflex}
         \/ /\ command[i].window.len = SprayLen
            /\ address.ip = theirs.comps[i].reflex.ip

OnlyPeerAddresses ==
  \A plan \in told : AboutPeer(plan.u, ps) /\ AboutPeer(plan.p, us)

\* A spray for component i of theirs covers the port that was observed for it,
\* but in these cases:
\*   - the port is below the floor of the sprays;
\*   - it is not within the radius of the port of the FIRST component, around
\*     which the window of every component is laid;
\*   - the first port was lost when it was read, and the floor taken instead.
\* It ends within the range of ports unless the first port is near its top.
SprayReaches(guess, window, theirs, i, lost) ==
  LET first == theirs.comps[1].reflex.port
      own   == theirs.comps[i].reflex.port
  IN  /\ \/ guess.port <= own /\ own < guess.port + window.len
         \/ own < LowestPort
         \/ own < first - SprayRadius \/ own >= first + SprayRadius
         \/ lost /\ guess.port = LowestPort
      /\ \/ guess.port + window.len - 1 <= HighestPort
         \/ first + SprayRadius - 1 > HighestPort

\* A window is at the NAT of the peer, and is the prediction that the peer
\* reported for the component, from its observed port, or a spray.
WindowReaches(command, theirs, lost) ==
  \A i \in DOMAIN command :
    LET window == command[i].window
        guess  == command[i].list[window.index + 1]
        comp   == theirs.comps[i]
    IN  window.len > 0 =>
          /\ guess.ip = comp.reflex.ip
          /\ \/ /\ guess = comp.reflex
                /\ window.len = comp.len /\ window.step = comp.step
             \/ /\ window.len = SprayLen /\ window.step = 1
                /\ SprayReaches(guess, window, theirs, i, lost)

\* A client tries the ports at which its peer can be met: the prediction the
\* peer reported for that very component, or a spray that covers the port its
\* NAT opened for it, with the exceptions of SprayReaches.  Only what p is told
\* can suffer from a lost port, since only uReflexPort is overwritten (len,
\* step and index of the checklists).
WindowsReachPeer ==
  \A plan \in told :
    WindowReaches(plan.u, ps, FALSE) /\ WindowReaches(plan.p, us, clobbered)

\* Both peers use the same relay id for a component, every relay of the round
\* has an id of its own, and all of them are consumed from the counter, so the
\* next round cannot reuse one (getUniqueID in the last loop of onMessage).
RelayIdsShared ==
  \A plan \in told :
    LET ids(command) == {command[i].id : i \in DOMAIN command}
    IN  /\ \A i \in DOMAIN plan.u : plan.u[i].id = plan.p[i].id
        /\ ids(plan.u) \cup {plan.tcpID} =
             id .. id + IdsUsed(Len(us.comps)) - 1
        /\ plan.tcpID \notin ids(plan.u)
=============================================================================
