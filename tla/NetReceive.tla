----------------------------- MODULE NetReceive -----------------------------
(***************************************************************************)
(* The receive path of nanokoton's IPv4 and UDP layers (src/unnamed/       *)
(* part_001, src/kernel/net/udp.cc): IPLayer::process_packet with          *)
(* process_fragment's reassembly buffers and the reaping in                *)
(* reassemble_packets, the UDP handler that IPLayer calls for protocol 17,  *)
(* and the UDP sockets' bind, connect, close and receive_from.             *)
(*                                                                         *)
(* The network delivers fragments of a fixed set of sent datagrams, each   *)
(* any number of times and in any order (loss, duplication, reordering).   *)
(* Header validation and checksums are left out: a packet that fails them  *)
(* is dropped and changes nothing.  Offsets and lengths are in the 8-byte  *)
(* units of the fragment offset field; payload bytes are abstracted to the *)
(* fragment (datagram, index) they came from.                              *)
(***************************************************************************)
EXTENDS Integers, Sequences, FiniteSets, SequencesExt

CONSTANTS
    Datagrams,        \* names of the datagrams the remote hosts send
    Dgram,            \* Dgram[d]: [src, id, sport, dport, ulen, frags]
    LocalAddr,        \* the interface address the datagrams are sent to
    BindAddrs,        \* addresses the application binds to
    BindPorts,        \* ports the application binds to (never 0)
    Peers,            \* <<address, port>> pairs the application connects to
    AppSockets,       \* UDPSocket objects
    SortedFragments,  \* TRUE: the fragment HashMap iterates by offset
    Timeout,          \* reassembly timeout, in Tick steps
    MaxQueue,         \* bound on a socket's receive queue (model bound)
    None

UdpProto == 17

\* Faulty variant of KeyOf: the identification is left out of the key.
KeyNoId(d) == <<Dgram[d].src % 256, LocalAddr, 0, UdpProto>>

\* The fragment reassembly key of process_fragment: the 32-bit source is
\* shifted left by 32, 16 and 8 in a u64, so only its low byte survives.
KeyOf(d) == <<Dgram[d].src % 256, LocalAddr, Dgram[d].id, UdpProto>>
BufKeys == {KeyOf(d) : d \in Datagrams}

Frag(d, i) == Dgram[d].frags[i]
Pieces == UNION {{[d |-> d, i |-> i] : i \in DOMAIN Dgram[d].frags} : d \in Datagrams}
PieceLen(p) == Frag(p.d, p.i).len
Offsets == {Frag(p.d, p.i).off : p \in Pieces}
IsFragment(d, i) == Frag(d, i).off > 0 \/ Frag(d, i).mf

\* The pieces of d in offset order: what its sender put on the wire.
MaxEnd == Max({Frag(p.d, p.i).off + PieceLen(p) : p \in Pieces})

SentPieces(d) == [i \in DOMAIN Dgram[d].frags |-> [d |-> d, i |-> i]]

VARIABLES
    bufs,        \* fragment_buffers_: key -> FragmentBuffer, or None
    bound,       \* UDPSocket::bound_
    connected,   \* UDPSocket::connected_
    laddr,       \* UDPSocket::local_address_
    lport,       \* UDPSocket::local_port_
    peer,        \* <<remote_address_, remote_port_>>
    rqueue,      \* UDPSocket::receive_queue_
    table        \* UDPLayer::bound_sockets_: <<address, port>> -> socket

vars == <<bufs, bound, connected, laddr, lport, peer, rqueue, table>>
udpVars == <<bound, connected, laddr, lport, peer, rqueue, table>>

TableKeys == BindAddrs \X BindPorts

-----------------------------------------------------------------------------
(* IPLayer.                                                                *)

\* Faulty variants of LastEnd: the fragment's size left out, or the raw
\* offset field used where the code multiplies it by 8.
LastEndNoLen(f) == f.off
LastEndRawOffset(f) == f.off * 8 + f.len

\* The end of a fragment with MF clear: buffer->total_length.
LastEnd(f) == f.off + f.len

\* The orders in which a loop over buffer->fragments can visit the offsets
\* present.  HashMap is not under src/, so its order is unknown unless
\* SortedFragments fixes it to the sorted order spec.md describes.
IterOrders(b) ==
    LET present == {o \in Offsets : b.frags[o] # None}
    IN IF SortedFragments THEN {SetToSortSeq(present, <)} ELSE SetToSeqs(present)

\* The completeness loop of process_fragment: walk the fragments in
\* iteration order, break at the first whose offset is not last_offset.
Walk(b, order) ==
    LET step(acc, o) ==
          IF ~acc.complete THEN acc
          ELSE IF o # acc.last THEN [acc EXCEPT !.complete = FALSE]
          ELSE [complete |-> TRUE, actual |-> acc.actual + PieceLen(b.frags[o]),
                last |-> acc.last + PieceLen(b.frags[o])]
    IN FoldLeft(step, [complete |-> TRUE, actual |-> 0, last |-> 0], order)

IsComplete(b, order) ==
    b.total > 0 /\ Walk(b, order).complete /\ Walk(b, order).actual = b.total

-----------------------------------------------------------------------------
(* UDPLayer.                                                               *)

\* UDPSocket::queue_datagram: bound, for this port, and from the peer if
\* connected.
Accepts(s, dg) ==
    /\ bound[s]
    /\ dg.dport = lport[s]
    /\ ~connected[s] \/ <<dg.src, dg.sport>> = peer[s]

\* UDPLayer::process_packet -> process_udp_packet for a packet whose data
\* are the pieces pkt.pieces: the UDP header is the start of the first
\* piece, so ports and length come from that piece's datagram.
DeliverUdp(pkt) ==
    LET h   == Dgram[pkt.pieces[1].d]
        size == FoldLeft(LAMBDA a, p : a + PieceLen(p), 0, pkt.pieces)
        dg  == [src |-> pkt.src, sport |-> h.sport, dport |-> h.dport,
                pieces |-> pkt.pieces, ulen |-> h.ulen]
        s   == IF <<LocalAddr, h.dport>> \in TableKeys
               THEN table[<<LocalAddr, h.dport>>] ELSE None
    IN IF h.ulen <= size /\ s # None /\ Accepts(s, dg)
       THEN rqueue' = [rqueue EXCEPT ![s] = Append(@, dg)]
       ELSE UNCHANGED rqueue

-----------------------------------------------------------------------------
(* Packet arrival: IPLayer::process_packet.                                *)

\* A packet that is not a fragment goes straight to the protocol handlers.
ArriveWhole(d) ==
    /\ ~IsFragment(d, 1)
    /\ DeliverUdp([src |-> Dgram[d].src, pieces |-> <<[d |-> d, i |-> 1]>>])
    /\ UNCHANGED <<bufs, bound, connected, laddr, lport, peer, table>>

\* process_fragment: find or create the buffer, store the fragment at its
\* offset (replacing any fragment there), set total_length on MF clear,
\* then run the completeness loop; a complete buffer is copied out in the
\* same iteration order, handed to the handlers and erased.
ProcessFragment(d, i) ==
    LET f  == Frag(d, i)
        k  == KeyOf(d)
        b0 == IF bufs[k] = None
              THEN [src |-> Dgram[d].src, total |-> 0, age |-> 0,
                    frags |-> [o \in Offsets |-> None]]
              ELSE bufs[k]
        b  == [b0 EXCEPT !.age = 0, !.frags[f.off] = [d |-> d, i |-> i],
                         !.total = IF f.mf THEN @ ELSE LastEnd(f)]
    IN /\ IsFragment(d, i)
       /\ \E order \in IterOrders(b) :
            IF IsComplete(b, order)
            THEN /\ DeliverUdp([src |-> b.src,
                                pieces |-> [j \in DOMAIN order |-> b.frags[order[j]]]])
                 /\ bufs' = [bufs EXCEPT ![k] = None]
            ELSE /\ bufs' = [bufs EXCEPT ![k] = b]
                 /\ UNCHANGED rqueue
       /\ UNCHANGED <<bound, connected, laddr, lport, peer, table>>

\* Time passes: every buffer grows older by one step (last_accessed is
\* read against the TSC; ages above Timeout + 1 are not told apart).
Tick ==
    /\ \E k \in BufKeys : bufs[k] # None /\ bufs[k].age <= Timeout
    /\ bufs' = [k \in BufKeys |->
                  IF bufs[k] = None THEN None
                  ELSE [bufs[k] EXCEPT !.age = IF @ > Timeout THEN @ ELSE @ + 1]]
    /\ UNCHANGED udpVars

\* IPLayer::poll -> cleanup_old_fragments -> reassemble_packets: delete
\* every buffer idle for more than the timeout.
ReassemblePackets ==
    /\ bufs' = [k \in BufKeys |->
                  IF bufs[k] # None /\ bufs[k].age > Timeout THEN None ELSE bufs[k]]
    /\ UNCHANGED udpVars

-----------------------------------------------------------------------------
(* UDP socket calls.                                                       *)

\* Faulty variant of Bind: bound_ is not cleared when bind_socket fails.
BindNoReset(s, a, p) ==
    /\ ~bound[s]
    /\ laddr' = [laddr EXCEPT ![s] = a]
    /\ lport' = [lport EXCEPT ![s] = p]
    /\ bound' = [bound EXCEPT ![s] = TRUE]
    /\ table' = IF table[<<a, p>>] = None THEN [table EXCEPT ![<<a, p>>] = s] ELSE table
    /\ UNCHANGED <<bufs, connected, peer, rqueue>>

\* UDPSocket::bind: fails on a bound socket; otherwise sets the local
\* address and port and bound_, and UDPLayer::bind_socket refuses a taken
\* <<address, port>> (bound_ is cleared again, the address and port stay).
Bind(s, a, p) ==
    /\ ~bound[s]
    /\ laddr' = [laddr EXCEPT ![s] = a]
    /\ lport' = [lport EXCEPT ![s] = p]
    /\ IF table[<<a, p>>] = None
       THEN /\ table' = [table EXCEPT ![<<a, p>>] = s]
            /\ bound' = [bound EXCEPT ![s] = TRUE]
       ELSE UNCHANGED <<table, bound>>
    /\ UNCHANGED <<bufs, connected, peer, rqueue>>

\* UDPSocket::connect: a bound socket records its peer.
Connect(s, r) ==
    /\ bound[s]
    /\ peer' = [peer EXCEPT ![s] = r]
    /\ connected' = [connected EXCEPT ![s] = TRUE]
    /\ UNCHANGED <<bufs, bound, laddr, lport, rqueue, table>>

\* UDPLayer::remove_socket: erase the first table entry holding s.
RemoveSocket(s) ==
    \E K \in {{k} : k \in {k \in TableKeys : table[k] = s}} \cup
             (IF \E k \in TableKeys : table[k] = s THEN {} ELSE {{}}) :
        table' = [k \in TableKeys |-> IF k \in K THEN None ELSE table[k]]

\* Faulty variant of Close: the receive queue is kept.
CloseKeepQueue(s) ==
    /\ bound[s]
    /\ RemoveSocket(s)
    /\ bound' = [bound EXCEPT ![s] = FALSE]
    /\ connected' = [connected EXCEPT ![s] = FALSE]
    /\ UNCHANGED <<bufs, laddr, lport, peer, rqueue>>

\* UDPSocket::close (also through UDPLayer::close_socket): a bound socket
\* leaves the table, is unbound and disconnected, and its queue is emptied.
Close(s) ==
    /\ bound[s]
    /\ RemoveSocket(s)
    /\ bound' = [bound EXCEPT ![s] = FALSE]
    /\ connected' = [connected EXCEPT ![s] = FALSE]
    /\ rqueue' = [rqueue EXCEPT ![s] = <<>>]
    /\ UNCHANGED <<bufs, laddr, lport, peer>>

\* UDPSocket::receive_from on a bound socket with a queued datagram: pop
\* the front.  With an empty queue it waits or times out, changing nothing.
ReceiveFrom(s) ==
    /\ bound[s]
    /\ rqueue[s] # <<>>
    /\ rqueue' = [rqueue EXCEPT ![s] = Tail(@)]
    /\ UNCHANGED <<bufs, bound, connected, laddr, lport, peer, table>>

-----------------------------------------------------------------------------

\* After IPLayer::init and UDPLayer::init: no buffers, the UDP handler
\* registered, every socket as its constructor leaves it.
Init ==
    /\ bufs = [k \in BufKeys |-> None]
    /\ bound = [s \in AppSockets |-> FALSE]
    /\ connected = [s \in AppSockets |-> FALSE]
    /\ laddr = [s \in AppSockets |-> 0]
    /\ lport = [s \in AppSockets |-> 0]
    /\ peer = [s \in AppSockets |-> <<0, 0>>]
    /\ rqueue = [s \in AppSockets |-> <<>>]
    /\ table = [k \in TableKeys |-> None]

QueuesBelowBound == \A s \in AppSockets : Len(rqueue[s]) < MaxQueue

Next ==
    \/ \E d \in Datagrams : QueuesBelowBound /\ ArriveWhole(d)
    \/ \E p \in Pieces : QueuesBelowBound /\ ProcessFragment(p.d, p.i)
    \/ Tick
    \/ ReassemblePackets
    \/ \E s \in AppSockets, a \in BindAddrs, p \in BindPorts : Bind(s, a, p)
    \/ \E s \in AppSockets, r \in Peers : Connect(s, r)
    \/ \E s \in AppSockets : Close(s)
    \/ \E s \in AppSockets : ReceiveFrom(s)

Spec == Init /\ [][Next]_vars

-----------------------------------------------------------------------------
(* Properties.                                                             *)

\* Type invariant; total_length never exceeds the end of the last fragment
\* sent, in units of 8 bytes as the offset field counts them.
TypeOK ==
    /\ bufs \in [BufKeys -> {None} \cup
                 [src : Nat, total : 0 .. MaxEnd, age : 0 .. Timeout + 1,
                  frags : [Offsets -> Pieces \cup {None}]]]
    /\ bound \in [AppSockets -> BOOLEAN] /\ connected \in [AppSockets -> BOOLEAN]
    /\ table \in [TableKeys -> AppSockets \cup {None}]
    /\ \A s \in AppSockets : Len(rqueue[s]) <= MaxQueue

\* Every datagram that process_udp_packet queues at a socket is one that a
\* remote host sent, whole: its source address and port, its length and its
\* bytes in order, however the network reorders, duplicates or drops
\* fragments and however reassembly buffers time out and are recreated.
QueuedAreSent ==
    \A s \in AppSockets : \A j \in DOMAIN rqueue[s] :
        \E d \in Datagrams :
            rqueue[s][j] = [src |-> Dgram[d].src, sport |-> Dgram[d].sport,
                            dport |-> Dgram[d].dport, pieces |-> SentPieces(d),
                            ulen |-> Dgram[d].ulen]

\* A socket's queue holds only datagrams for the port it is bound to now:
\* close empties it, so nothing queued under an earlier binding survives a
\* rebind to another port.
QueueMatchesBinding ==
    \A s \in AppSockets :
        rqueue[s] # <<>> => bound[s] /\ \A j \in DOMAIN rqueue[s] : rqueue[s][j].dport = lport[s]

\* UDPLayer::bound_sockets_ and the sockets agree: a bound socket is in the
\* table under its own address and port, and every entry names a bound
\* socket under that key, through failed binds, closes and rebinds.
TableMatchesSockets ==
    /\ \A s \in AppSockets : bound[s] => <<laddr[s], lport[s]>> \in TableKeys
                                        /\ table[<<laddr[s], lport[s]>>] = s
    /\ \A k \in TableKeys : table[k] # None => bound[table[k]] /\ <<laddr[table[k]], lport[table[k]]>> = k

\* spec.md section 8: once every fragment of a datagram is in a buffer
\* (and nothing else is), process_fragment has reassembled and delivered
\* it; no buffer waits holding a complete datagram.
NoCompleteBufferPending ==
    \A k \in BufKeys : \A d \in Datagrams :
        bufs[k] # None =>
            {bufs[k].frags[o] : o \in {o \in Offsets : bufs[k].frags[o] # None}}
                # {[d |-> d, i |-> i] : i \in DOMAIN Dgram[d].frags}
=============================================================================
