---------------------------- MODULE TraversePlan ----------------------------
(***************************************************************************)
(* The decision CentreServer::onMessage takes once both peers of a pair    *)
(* have answered "detect": which candidate addresses each of them is told  *)
(* to try, or which of them must first report its port allocation.         *)
(*                                                                         *)
(* A pure module.  us is the session the answering client u keeps about    *)
(* its peer p (connMap[uname][peerName]), ps the one p keeps about u       *)
(* (connMap[peerName][uname]).  A session is a record with                 *)
(*   nat    the reported NAT type, or Unset (natType = -1)                 *)
(*   got    gottenPort: a port prediction was reported                     *)
(*   mask   the netmask, as the number of leading fields of an ip it keeps *)
(*   comps  the sequence of component addresses (trCompAddrVect), records  *)
(*          with host and reflex addresses and the prediction len, step    *)
(* An address is a record [ip, port]; an ip is a sequence of fields, of    *)
(* which a netmask keeps a prefix.                                         *)
(***************************************************************************)
EXTENDS Integers, Sequences

\* enum NatType, by name; Unset is the initial -1 of Session::natType.
Unset == "Unset"
NatType == {"Fail", "Blocked", "Open", "Cone", "SymInc", "SymOneToOne",
            "SymRandom", "Unknown", Unset}

\* The candidate every checklist ends with: the UDP relay of this server, whose
\* ip is written <<0, 0>>.
Relay == [ip |-> <<0, 0>>, port |-> 1234]

SprayRadius == 200   \* ports below the observed one a spray starts from
SprayLen    == 400   \* ports a spray tries
LowestPort  == 1024  \* a spray never starts below it

-----------------------------------------------------------------------------
(***************************************************************************)
(* How the pair is joined.  "predict" needs the port prediction of the     *)
(* SymInc side, "spray" tries a window of ports of the SymRandom side.     *)
(***************************************************************************)
Method(us, ps) ==
  LET pair == <<us.nat, ps.nat>>
  IN  CASE us.nat = "Open" \/ ps.nat = "Open"  -> "direct"
        [] pair = <<"Cone", "Cone">>           -> "direct"
        [] pair = <<"SymInc", "Cone">>         -> "predict u"
        [] pair = <<"Cone", "SymInc">>         -> "predict p"
        [] pair = <<"SymInc", "SymInc">>       -> "direct"
        [] pair = <<"SymRandom", "Cone">>      -> "spray u"
        [] pair = <<"Cone", "SymRandom">>      -> "spray p"
        [] OTHER                               -> "relay only"

\* Which side gets a getPort command instead of the pair being told to traverse.
PortHolder(us, ps) ==
  CASE Method(us, ps) = "predict u" /\ ~us.got -> "u"
    [] Method(us, ps) = "predict p" /\ ~ps.got -> "p"
    [] OTHER                                   -> "nobody"

\* Both behind one NAT address and on one subnet: they can use host addresses.
HostWay(us, ps) ==
  LET uHost == us.comps[1].host
      pHost == ps.comps[1].host
  IN  /\ us.comps[1].reflex.ip = ps.comps[1].reflex.ip
      /\ us.mask = ps.mask
      /\ SubSeq(uHost.ip, 1, us.mask) = SubSeq(pHost.ip, 1, us.mask)

-----------------------------------------------------------------------------
\* A spray that starts too low to reach the observed port (mutation).
SprayBaseTooLow(port) ==
  IF port - SprayLen > LowestPort THEN port - SprayLen ELSE LowestPort

\* The port arithmetic is done on int, so it does not wrap below zero.
SprayBase(port) ==
  IF port - SprayRadius > LowestPort THEN port - SprayRadius ELSE LowestPort

(***************************************************************************)
(* The sprayed candidate.  Whatever the component, its port is computed    *)
(* from the reflexive address of the FIRST component.  Reading a port with *)
(* "%d" into a uint16_t writes four bytes: undefined behaviour, and with   *)
(* the stack layout of a -g build the last of the four reads clears        *)
(* uReflexPort.  So u's port may be seen as 0 (clobbered); p's, read last, *)
(* is intact.                                                              *)
(***************************************************************************)
Sprayed(s, clobbered) ==
  [ip   |-> s.comps[1].reflex.ip,
   port |-> SprayBase(IF clobbered THEN 0 ELSE s.comps[1].reflex.port)]

-----------------------------------------------------------------------------
\* The host candidates (none unless HostWay): first what u is told, then p.
HostPart(us, ps, theirs, i) ==
  IF HostWay(us, ps) THEN <<theirs.comps[i].host>> ELSE <<>>

\* u is told its own address instead of its peer's (mutation).
GuessForUOwn(us, ps, i) ==
  CASE Method(us, ps) = "relay only" -> <<>>
    [] Method(us, ps) = "spray p"    -> <<Sprayed(ps, FALSE)>>
    [] OTHER                         -> <<us.comps[i].reflex>>

\* The candidate the NAT types suggest for component i, as told to u.
GuessForU(us, ps, i) ==
  CASE Method(us, ps) = "relay only" -> <<>>
    [] Method(us, ps) = "spray p"    -> <<Sprayed(ps, FALSE)>>
    [] OTHER                         -> <<ps.comps[i].reflex>>

\* ... and as told to p.
GuessForP(us, ps, i, clobbered) ==
  CASE Method(us, ps) = "relay only" -> <<>>
    [] Method(us, ps) = "spray u"    -> <<Sprayed(us, clobbered)>>
    [] OTHER                         -> <<us.comps[i].reflex>>

NoWindow == [len |-> 0, step |-> 0, index |-> 0]

\* The prediction is attached on the predicted side only when u answers last
\* (mutation).
WindowForUForgotten(us, ps, i) ==
  IF Method(us, ps) = "spray p"
    THEN [len |-> SprayLen, step |-> 1, index |-> Len(HostPart(us, ps, ps, i))]
    ELSE NoWindow

\* The ports to try around the guess, for u; index is the guess's position.
WindowForU(us, ps, i) ==
  LET index == Len(HostPart(us, ps, ps, i))
  IN  CASE Method(us, ps) = "predict p" ->
             [len |-> ps.comps[i].len, step |-> ps.comps[i].step, index |-> index]
        [] Method(us, ps) = "spray p"   ->
             [len |-> SprayLen, step |-> 1, index |-> index]
        [] OTHER                        -> NoWindow

WindowForP(us, ps, i) ==
  LET index == Len(HostPart(us, ps, us, i))
  IN  CASE Method(us, ps) = "predict u" ->
             [len |-> us.comps[i].len, step |-> us.comps[i].step, index |-> index]
        [] Method(us, ps) = "spray u"   ->
             [len |-> SprayLen, step |-> 1, index |-> index]
        [] OTHER                        -> NoWindow

\* The side that sprays from behind SymRandom is told so.
Hint(isSprayed) == IF isSprayed THEN "SymRandom" ELSE "none"

-----------------------------------------------------------------------------
\* Relay ids consumed by one plan: one per component and one for TCP.
IdsUsed(comps) == comps + 1

(***************************************************************************)
(* What the two traverse commands say: for each component, the checklist,  *)
(* the window, the hint and the relay id, and the id for the TCP relay.    *)
(* Both commands list as many components as u reported.                    *)
(***************************************************************************)
ForU(us, ps, id) ==
  [i \in 1 .. Len(us.comps) |->
     [list   |-> HostPart(us, ps, ps, i) \o GuessForU(us, ps, i) \o <<Relay>>,
      window |-> WindowForU(us, ps, i),
      hint   |-> Hint(Method(us, ps) = "spray u"),
      id     |-> id + i - 1]]

\* p is given ids of its own instead of u's (mutation).
ForPFreshIds(us, ps, id, clobbered) ==
  [i \in 1 .. Len(us.comps) |->
     [list   |-> HostPart(us, ps, us, i) \o GuessForP(us, ps, i, clobbered)
                   \o <<Relay>>,
      window |-> WindowForP(us, ps, i),
      hint   |-> Hint(Method(us, ps) = "spray p"),
      id     |-> id + Len(us.comps) + i]]

ForP(us, ps, id, clobbered) ==
  [i \in 1 .. Len(us.comps) |->
     [list   |-> HostPart(us, ps, us, i) \o GuessForP(us, ps, i, clobbered)
                   \o <<Relay>>,
      window |-> WindowForP(us, ps, i),
      hint   |-> Hint(Method(us, ps) = "spray p"),
      id     |-> id + i - 1]]

Plan(us, ps, id, clobbered) ==
  [u     |-> ForU(us, ps, id),
   p     |-> ForP(us, ps, id, clobbered),
   tcpID |-> id + Len(us.comps)]
=============================================================================
