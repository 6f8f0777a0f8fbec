--------------------------- MODULE SessionFrames ---------------------------
(***************************************************************************)
(* The RLPx session after the handshake (libp2p/Session, RLPXFrameCoder):  *)
(* the keys both ends set up, the write queue, packets cut into compressed *)
(* or plain frames, authentication frame by frame, reassembly, ping and    *)
(* disconnect packets.                                                     *)
(*                                                                         *)
(* A payload is an identity and a size; a chunk is a range of it.  The MAC *)
(* of a direction is its seed and the number of frames it has absorbed:    *)
(* each one is a hash over all before it.  The header and the body of a    *)
(* frame are read in one step, as nothing but the stream is read between   *)
(* them.  The 24 bit length field holds a compressed chunk of at most      *)
(* 15 MiB, and the sequence id of 16 bits is never used up by a payload    *)
(* of 32 bit size.                                                         *)
(***************************************************************************)
EXTENDS Naturals, Sequences, SequencesExt

CONSTANTS
  MaxPacketSize,   \* RLPXFrameCoder::MAX_PACKET_SIZE
  MinCompression,  \* MIN_COMPRESSION_SIZE
  Sizes,           \* sizes of the payloads the capabilities send
  MaxPackets       \* bound: packets sent by an end, answers to pings aside

VARIABLE
  end  \* the two sessions, records with the fields below

Ends == {"initiator", "recipient"}
Other(e) == CHOOSE o \in Ends : o # e
-----------------------------------------------------------------------------
(* RLPXFrameCoder *)

\* setup: the nonce of an end stands for its whole key material.  Leaves the cipher
\* key of both directions and the seeds of the two MACs.
setup(originated, remoteNonce, nonce) ==
  [key |-> IF originated THEN <<remoteNonce, nonce>> ELSE <<nonce, remoteNonce>>,
   egress |-> [seed |-> <<remoteNonce, IF originated THEN "auth" ELSE "ack">>, frames |-> 0],
   ingress |-> [seed |-> <<nonce, IF originated THEN "ack" ELSE "auth">>, frames |-> 0]]

\* writeFrame with the one item of writeSingleFramePacket in the header, or with the
\* protocol id and the sequence id of the other writers.
writeFrame(m, multiFrame, compressed, chunk) ==
  [key |-> m.key, mac |-> m.egress, protocolId |-> IF compressed THEN 1 ELSE 0,
   items |-> IF multiFrame THEN 2 ELSE 1, chunk |-> chunk]

\* authAndDecryptHeader and authAndDecryptFrame.
Authentic(m, frame) == frame.mac = m.ingress /\ frame.key = m.key
-----------------------------------------------------------------------------
(* Session, as functions of its state s *)

Session(e) ==
  [macs |-> setup(e = "initiator", Other(e), e),
   sent |-> <<>>,                     \* packets passed to send_
   queue |-> <<>>,                    \* m_writeQueue
   cursor |-> [seq |-> 0, sent |-> 0],  \* sequence_id and sent_size of the write in flight
   out |-> <<>>,                      \* frames written and not yet read by the other end
   multi |-> <<>>,                    \* m_multiData: the chunks collected so far
   got |-> <<>>,                      \* packets handed to readPacket
   dropped |-> "no"]                  \* m_dropped, and why

isConnected(s) == s.dropped = "no"

drop(s, reason) == IF isConnected(s) THEN [s EXCEPT !.dropped = reason] ELSE s

\* Mutant: a rest of exactly the maximal size is sent as the last chunk.
FitsExactly(left) == left <= MaxPacketSize

Fits(left) == left < MaxPacketSize

\* splitAndPack: the next frame of payload p at cursor c.
splitAndPack(p, c) ==
  LET left == p.size - c.sent
      last == Fits(left)
      plain == last /\ left < MinCompression
  IN [multiFrame |-> ~(plain /\ c.seq = 0),
      compressed |-> ~plain,
      chunk |-> [of |-> p, from |-> c.sent, len |-> IF last THEN left ELSE MaxPacketSize],
      next |-> IF last THEN [seq |-> 0, sent |-> 0]
               ELSE [seq |-> c.seq + 1, sent |-> c.sent + MaxPacketSize]]

\* write: one frame of the head of the queue.
write(s) ==
  LET f == splitAndPack(Head(s.queue), s.cursor) IN
  [s EXCEPT !.out = Append(@, writeFrame(s.macs, f.multiFrame, f.compressed, f.chunk)),
            !.macs.egress.frames = @ + 1,
            !.cursor = f.next]

\* send_: a payload is queued, and written if no write is in flight.
send(s, kind, size) ==
  LET p == [kind |-> kind, id |-> Len(s.sent), size |-> size]
      queued == [s EXCEPT !.sent = Append(@, p), !.queue = Append(@, p)]
  IN CASE ~isConnected(s) -> s
       [] s.queue = <<>> -> write(queued)
       [] OTHER -> queued

\* ping_, and the answer; a packet of the session is a type and a list of arguments.
prep(s, kind) == send(s, kind, IF kind = "disconnect" THEN 3 ELSE 2)

\* The completion handler of async_write: the next chunk, or on_done and the next payload.
Written(s) ==
  LET rest == [s EXCEPT !.queue = IF s.cursor.seq = 0 THEN Tail(@) ELSE @]
  IN IF rest.queue = <<>> THEN rest ELSE write(rest)

disconnect(s, reason) == drop(prep(s, "disconnect"), reason)

\* readPacket and interpretP2pPacket; packets of capabilities are theirs to handle.
readPacket(s, p) ==
  LET r == [s EXCEPT !.got = Append(@, p)] IN
  CASE p.kind = "ping" -> prep(r, "pong")
    [] p.kind = "disconnect" -> drop(r, "requested")
    [] OTHER -> r

\* checkPacket: the RLP item after the packet type is as long as the rest.
checkPacket(data) ==
  /\ data[1].from = 0
  /\ \A i \in 2 .. Len(data) :
       /\ data[i].of = data[1].of
       /\ data[i].from = data[i - 1].from + data[i - 1].len
  /\ data[Len(data)].from + data[Len(data)].len = data[1].of.size

\* doRead: a frame whose header has more than one item goes to m_multiData, which is
\* a packet when the chunk is shorter than the maximum.
Collected(s, data) ==
  IF checkPacket(data) THEN readPacket(s, data[1].of) ELSE disconnect(s, "bad")

doRead(s, frame) ==
  LET read == [s EXCEPT !.macs.ingress.frames = @ + 1]
      data == Append(s.multi, frame.chunk)
  IN CASE ~Authentic(s.macs, frame) -> drop(s, "bad")
       [] frame.items = 1 -> Collected(read, <<frame.chunk>>)
       [] frame.chunk.len < MaxPacketSize -> Collected([read EXCEPT !.multi = <<>>], data)
       [] OTHER -> [read EXCEPT !.multi = data]
-----------------------------------------------------------------------------
Init == end = [e \in Ends |-> Session(e)]

\* A capability sends a packet; the host pings or disconnects.
Send(e) ==
  /\ isConnected(end[e]) /\ Len(end[e].sent) < MaxPackets[e]
  /\ \E s \in {send(end[e], "user", size) : size \in Sizes}
            \cup {prep(end[e], "ping"), disconnect(end[e], "host")} :
       end' = [end EXCEPT ![e] = s]

WriteDone(e) ==
  /\ isConnected(end[e]) /\ end[e].queue # <<>>
  /\ end' = [end EXCEPT ![e] = Written(@)]

\* A frame arrives.  What an end wrote before it closed the socket still does.
Read(e) ==
  /\ isConnected(end[e]) /\ end[Other(e)].out # <<>>
  /\ end' = [end EXCEPT ![e] = doRead(@, Head(end[Other(e)].out)), ![Other(e)].out = Tail(@)]

\* checkRead or the write handler sees an error of the socket, or its end.
TCPError(e) ==
  /\ isConnected(end[e])
  /\ end' = [end EXCEPT ![e] = drop(@, "tcp")]

Next == \E e \in Ends : Send(e) \/ WriteDone(e) \/ Read(e) \/ TCPError(e)

Spec == Init /\ [][Next]_end
-----------------------------------------------------------------------------
\* Whatever the sizes of the packets, those an end reads are the ones the other end
\* sent, whole and in order, neither end takes the other's frames for a protocol
\* error, and nothing stays in m_multiData once all was written and read.
PacketsArriveWhole ==
  \A e \in Ends :
    LET from == end[e]
        to == end[Other(e)]
    IN /\ IsPrefix(to.got, from.sent)
       /\ to.dropped # "bad"
       /\ isConnected(from) /\ isConnected(to) /\ from.queue = <<>> /\ from.out = <<>>
            => to.got = from.sent
=============================================================================
