------------------------------- MODULE Inbound -------------------------------
(***************************************************************************)
(* How packets of peers reach a node's object cache: a peer frames a       *)
(* packet and sends it on a QUIC stream of its own (quic_server.py); the   *)
(* stream's data comes in pieces, between the pieces of other streams and  *)
(* the node's own use of the cache, and is put together in a buffer; when  *)
(* the stream ends the frame is taken apart (Wire) and the packet goes to  *)
(* check_and_put of the cache (MoQCache).                                  *)
(*                                                                         *)
(* _handle_message is a task of its own, which asyncio starts in the order *)
(* of the streams' ends; it is one step with the end of the stream here,   *)
(* as if the last data had come when the task starts.                      *)
(***************************************************************************)
EXTENDS MoQCache, Wire

CONSTANTS
    Streams,        \* ids of the streams peers may have open at a time
    NameBytes,      \* the bytes of the names of nodes and tracks
    PayloadBytes,   \* the bytes of each payload
    Cuts            \* bound: lengths of a stream's data at which it may be cut

ASSUME InboundAssumption ==
    /\ PayloadBytes \in [Payload -> Seq(Byte)]
    /\ \A d \in Payload : Size[d] = Len(PayloadBytes[d])
    /\ \A n \in DOMAIN NameBytes : NameBytes[n] \in Seq(Byte)
    /\ Cuts \subseteq Nat

VARIABLES
    packet,         \* what the peer sends on each stream: <<header, payload>>
    buffer          \* _buffer: the data of each stream so far

inboundVars == <<vars, packet, buffer>>

-----------------------------------------------------------------------------
(* The sending peer. *)

\* The namespace and the track of a packet: create_dfl_header for a chunk,
\* on_forward_packet for a packet passed on, _send_raw for any other.
Namespace(h) ==
    <<NameBytes["dfl"], NameBytes[h.node]>>
    \o (IF h.kind = "packet" THEN <<>> ELSE <<NameBytes[h.kind]>>)

Track(h) ==
    CASE h.kind = "model_part" -> NameBytes["weights"]
      [] h.kind = "relay" -> NameBytes["forward"]
      [] h.kind = "packet" -> NameBytes["packet"]

MoQHeader(h, d) ==
    [type |-> 4, namespace |-> Namespace(h), track |-> Track(h),
     group |-> h.round, object |-> h.part, priority |-> 0,
     length |-> Size[d]]

\* What _send_raw makes of a packet.
Frame == [h \in Header, d \in Payload |->
            FrameMessage(MoQHeader(h, d), PayloadBytes[d])]

Framed(s) == Frame[packet[s]]

Open(s) == packet[s] # None

InboundInit ==
    /\ Init
    /\ packet = [s \in Streams |-> None]
    /\ buffer = [s \in Streams |-> <<>>]

\* _send_raw of a peer: the next stream, with the frame.  The node's own chunks
\* come back under no header of its own.
SendRaw(s, h, d) ==
    /\ ~Open(s)
    /\ h \notin OwnHeader
    /\ packet' = [packet EXCEPT ![s] = <<h, d>>]
    /\ UNCHANGED <<vars, buffer>>

-----------------------------------------------------------------------------
(* The receiving node. *)

\* A piece of the stream's data, up to its n-th byte.
DataReceived(s, n) ==
    /\ Open(s)
    /\ Len(buffer[s]) < n /\ n <= Len(Framed(s))
    /\ buffer' = [buffer EXCEPT ![s] = @ \o SubSeq(Framed(s), Len(@) + 1, n)]
    /\ UNCHANGED <<vars, packet>>

Closed(s) ==
    /\ packet' = [packet EXCEPT ![s] = None]
    /\ buffer' = [buffer EXCEPT ![s] = <<>>]

\* on_packet_received passes the payload to the cache under its header's key.
OnPacketReceived(header, payload) ==
    \E h \in Header, d \in Payload :
        /\ header = MoQHeader(h, d) /\ payload = PayloadBytes[d]
        /\ CheckAndPut(h, d)

\* _handle_stream_data at the end of the stream, with the rest of its data: the
\* frame is handed to the packet router.
StreamEnds(s) ==
    /\ Open(s)
    /\ LET data == buffer[s] \o SubSeq(Framed(s), Len(buffer[s]) + 1, Len(Framed(s)))
           frame == ExtractFrame(data)
       IN  IF frame = NoFrame THEN UNCHANGED vars
           ELSE OnPacketReceived(frame[1], frame[2])
    /\ Closed(s)

\* The connection is lost before the stream has ended.
StreamLost(s) ==
    /\ Open(s)
    /\ Closed(s)
    /\ UNCHANGED vars

InboundNext ==
    \/ Calls /\ UNCHANGED <<packet, buffer>>
    \/ \E s \in Streams :
         \/ \E h \in Header, d \in Payload : SendRaw(s, h, d)
         \/ \E n \in Cuts : DataReceived(s, n)
         \/ StreamEnds(s)
         \/ StreamLost(s)

InboundSpec == InboundInit /\ [][InboundNext]_inboundVars

-----------------------------------------------------------------------------
(* Correctness. *)

\* A namespace that was read has the prefix of the node of the packet and of no
\* other, which is what purge_prefix deletes by (PurgePrefix), is put together
\* again from the prefix and the rest, and is read back from its path.
NamesRead(ns, h) ==
    LET prefix(n) == <<NameBytes["dfl"], NameBytes[n]>>
    IN  /\ \A n \in Nodes : HasPrefix(ns, prefix(n)) <=> n = h.node
        /\ ns = FoldLeft(Join, prefix(h.node), StripPrefix(ns, prefix(h.node)))
        /\ ToTuple(FromTuple(ns)) = ns

\* extract_frame: "None if more bytes are needed".  Wherever a stream's data is
\* cut, no frame is taken out of what has come while some is missing, and
\* all of it gives the packet the peer has sent, under a name that no other
\* node's packets have.
FramesIntact ==
    \A s \in Streams :
      LET frame == ExtractFrame(buffer[s])
      IN  Open(s) => IF Len(buffer[s]) < Len(Framed(s))
                     THEN frame = NoFrame
                     ELSE /\ frame = <<MoQHeader(packet[s][1], packet[s][2]),
                                       PayloadBytes[packet[s][2]]>>
                          /\ NamesRead(frame[1].namespace, packet[s][1])
=============================================================================
