---------------------------- MODULE PacketStream ----------------------------
(***************************************************************************)
(* What a data link protocol promises to the two network layers, with no   *)
(* frames, sequence numbers, timers or channel in sight: the packets a     *)
(* worker takes from its network layer are handed to the network layer of  *)
(* its peer in order, each exactly once, and at most Window of them are    *)
(* under way at a time.                                                    *)
(*                                                                         *)
(* Network layer packets are numbered by from_network_layer, so the state  *)
(* is the number of the next packet to fetch and of the last one given.    *)
(***************************************************************************)
EXTENDS Cyclic

CONSTANTS
  Senders,  \* the workers that take packets from their network layer
  MaxPkt,   \* the largest packet number
  Window    \* the most packets one worker may have under way

VARIABLES
  next_net_pkt,   \* per worker: the next packet its network layer hands out
  last_pkt_given  \* per worker: the last packet its network layer was given

stream_vars == <<next_net_pkt, last_pkt_given>>

(* The packets p has fetched that its peer has not passed on yet.          *)
UnderWay(p) ==
  Distance(Inc(last_pkt_given[Peer(p)], MaxPkt), next_net_pkt[p], MaxPkt)

Init ==
  /\ next_net_pkt = [p \in Proc |-> 0]
  /\ last_pkt_given = [p \in Proc |-> MaxPkt]

(* p takes the next packet of its network layer.                           *)
Fetch(p) ==
  /\ p \in Senders
  /\ UnderWay(p) < Window
  /\ next_net_pkt' = [next_net_pkt EXCEPT ![p] = Inc(@, MaxPkt)]

(* p passes on the next few packets of its peer.                           *)
Give(p) ==
  \E n \in 1 .. UnderWay(Peer(p)) :
    last_pkt_given' = [last_pkt_given EXCEPT ![p] = Advance(@, n, MaxPkt)]

(* One event handler may both fetch and give.                              *)
Turn(p) ==
  /\ Fetch(p) \/ UNCHANGED next_net_pkt
  /\ Give(p) \/ UNCHANGED last_pkt_given

Next == \E p \in Proc : Turn(p)

Spec == Init /\ [][Next]_stream_vars
=============================================================================
