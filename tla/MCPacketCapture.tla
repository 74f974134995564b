---------------------------- MODULE MCPacketCapture ---------------------------
(* Small instances of PacketCapture for TLC.                               *)
EXTENDS PacketCapture

Packet(kind) == [kind |-> kind, key |-> 1]

(* a flow that ends and begins again, and packets that are flows of their  *)
(* own or of none                                                          *)
Mixed == <<Packet("flow"), Packet("single"), Packet("fin"), Packet("none")>>
(* a packet in fragments, a flow it joins, and fragments in a tunnel       *)
Fragments == <<Packet("first"), Packet("flow"), Packet("last"), Packet("middle")>>
Tunnel == <<Packet("tunnel"), Packet("first"), Packet("fin")>>
Plain == <<Packet("none"), Packet("duplicate"), Packet("flow"), Packet("none")>>

Capture(m, d, a, packets) == [mode |-> m, dump |-> d, again |-> a, packets |-> packets]

(* flows without a dump; with one, live capture after a restart in the     *)
(* same slot; shorter sequences where timeouts come in between             *)
Short(packets) == SubSeq(packets, 1, 3)

MCSetups ==
    {Capture("file", FALSE, FALSE, packets) : packets \in {Mixed, Fragments, Tunnel}}
    \cup {Capture("ring", FALSE, FALSE, packets) : packets \in {Short(Mixed), Fragments, Tunnel}}
    \cup {Capture("file", TRUE, FALSE, Plain), Capture("live", TRUE, TRUE, Short(Plain))}
===============================================================================
