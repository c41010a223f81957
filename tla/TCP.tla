--------------------------------- MODULE TCP ---------------------------------
(***************************************************************************)
(* The TCP layer of nanokoton (src/unnamed/part_002, tcp.hpp in           *)
(* src/unnamed/part_006): the layer's connection and listener tables and  *)
(* the sockets' connection state and receive path, on one host, facing a  *)
(* remote peer that may send any segment at any time (which covers a      *)
(* network that loses, duplicates and reorders segments).                 *)
(*                                                                         *)
(* Every public operation runs under the layer lock or the socket locks   *)
(* and is one action.  No code sets a socket Established, so send,        *)
(* receive, retransmit_pending_data and the Established branches of       *)
(* close, process_fin and poll are unreachable and are not actions here.  *)
(* Sequence numbers are small integers: 2^32 wrap-around is out of reach. *)
(***************************************************************************)
EXTENDS Integers, Sequences, FiniteSets, SequencesExt, TLC

CONSTANTS
    AppSockets,     \* sockets the application creates with create_socket
    NewSockets,     \* sockets handle_new_connection allocates
    LocalPorts,     \* ports applications bind to (not 0, see README)
    RemotePorts,    \* source ports of the remote peer
    Seqs,           \* sequence numbers the peer's segments carry
    DataLens,       \* payload lengths of the peer's data segments
    Window,         \* receive_window_ (65535 in the code)
    Capacity,       \* receive_queue_ capacity (8192 in the code)
    IpSendCanFail,  \* IPLayer::send_packet may return false
    MaxBuffers,     \* bound on receive_buffers_ per socket
    None

Sockets == AppSockets \cup NewSockets
States == {"Closed", "Listen", "SynSent", "SynReceived"}
Ports == {0} \cup LocalPorts
Keys == Ports \X RemotePorts          \* ConnectionKey (one local address)

\* A segment the peer can send.  Flags are the one receive_segment
\* dispatches on (syn before ack before fin before rst before data).
Segments ==
    [src : RemotePorts, dst : LocalPorts, flag : {"SYN", "FIN", "RST"},
     seq : Seqs, len : {0}]
    \cup [src : RemotePorts, dst : LocalPorts, flag : {"ACK"}, seq : Seqs, len : {0, 1}]
    \cup [src : RemotePorts, dst : LocalPorts, flag : {"DATA"}, seq : Seqs, len : DataLens]

VARIABLES
    st,         \* state_
    lport,      \* local_port_
    rport,      \* remote_port_
    rcvSeq,     \* receive_sequence_
    rne,        \* receive_next_expected_
    rbufs,      \* receive_buffers_: sequence of [start, end, consumed]
    rq,         \* receive_queue_: the sequence numbers of the queued bytes
    conns,      \* TCPLayer::connections_: key -> socket or None
    listeners,  \* TCPLayer::listening_sockets_: port -> socket or None
    fresh,      \* NewSockets not yet allocated
    acked,      \* ghost: sequence numbers of bytes the socket has ACKed
    base,       \* ghost: receive_next_expected_ when the stream (re)started
    bindOk,     \* ghost: the last bind of the socket returned true
    used        \* ghost: the application has listened or connected on it

sockVars == <<st, lport, rport, rcvSeq, rne, rbufs, rq, acked, base>>
appVars == <<bindOk, used>>
vars == <<st, lport, rport, rcvSeq, rne, rbufs, rq, conns, listeners, fresh, acked, base, bindOk, used>>

-----------------------------------------------------------------------------
(* Socket helpers.                                                         *)

\* Faulty variant of ValidateSequence: no lower bound, so old segments pass.
ValidateNoLowerBound(s, seq, len) ==
    len = 0 \/ seq + len <= rcvSeq[s] + Window

\* validate_sequence: a zero-length segment always passes.
ValidateSequence(s, seq, len) ==
    len = 0 \/ (seq >= rcvSeq[s] /\ seq + len <= rcvSeq[s] + Window)

\* Faulty variant of PushBytes: the full check is missing.
PushBytesNoLimit(q, start, end) == q \o [i \in 1 .. end - start |-> start + i - 1]

\* The push loop of reorder_buffers: push the bytes of [start, end) until
\* the queue is full, then drop the rest.
PushBytes(q, start, end) ==
    q \o [i \in 1 .. Min({end - start, Capacity - Len(q)}) |-> start + i - 1]

\* The loop of reorder_buffers over the sorted buffers: a buffer that starts
\* at receive_next_expected_ and is not consumed is pushed, advances
\* receive_next_expected_ to its end and is marked consumed.
RECURSIVE ConsumeFrom(_, _, _, _)
ConsumeFrom(bs, i, q, n) ==
    IF i > Len(bs) THEN [bufs |-> bs, q |-> q, rne |-> n]
    ELSE IF bs[i].start = n /\ ~bs[i].consumed
         THEN ConsumeFrom([bs EXCEPT ![i].consumed = TRUE], i + 1,
                          PushBytes(q, bs[i].start, bs[i].end), bs[i].end)
         ELSE ConsumeFrom(bs, i + 1, q, n)

\* reorder_buffers: sort by sequence_start, then consume.
ReorderBuffers(bs, q, n) ==
    ConsumeFrom(SortSeq(bs, LAMBDA a, b : a.start < b.start), 1, q, n)

\* cleanup_acknowledged_data (the send buffers are always empty: only send
\* fills them).
CleanupAcknowledgedData(bs) == SelectSeq(bs, LAMBDA b : ~b.consumed)

\* Bytes [base[s], a) that an ACK with acknowledgment_number a covers.
AckCovers(s, a) == base[s] .. a - 1

-----------------------------------------------------------------------------
(* TCPLayer table helpers.                                                 *)

\* is_port_available: no connection has the port as its local or its
\* remote port, and no socket listens on it.
IsPortAvailable(p) ==
    /\ \A k \in Keys : conns[k] # None => k[1] # p /\ k[2] # p
    /\ listeners[p] = None

\* Faulty variant of RemoveSocket: only the connection table is cleaned.
RemoveSocketConnsOnly(s) ==
    /\ \E K \in {{k} : k \in {k \in Keys : conns[k] = s}} \cup
                (IF \E k \in Keys : conns[k] = s THEN {} ELSE {{}}) :
          conns' = [k \in Keys |-> IF k \in K THEN None ELSE conns[k]]
    /\ UNCHANGED listeners

\* remove_socket: erase the first connection entry and the first listener
\* entry that hold the socket; the HashMap's iteration order decides which
\* one is first, so any one of them may go.
RemoveSocket(s) ==
    /\ \E K \in {{k} : k \in {k \in Keys : conns[k] = s}} \cup
                (IF \E k \in Keys : conns[k] = s THEN {} ELSE {{}}) :
          conns' = [k \in Keys |-> IF k \in K THEN None ELSE conns[k]]
    /\ \E P \in {{p} : p \in {p \in Ports : listeners[p] = s}} \cup
                (IF \E p \in Ports : listeners[p] = s THEN {} ELSE {{}}) :
          listeners' = [p \in Ports |-> IF p \in P THEN None ELSE listeners[p]]

-----------------------------------------------------------------------------
(* Application calls.                                                      *)

\* TCPSocket::bind(address, port) with port # 0: local_port_ is set before
\* TCPLayer::bind_socket checks is_port_available, and is kept when the
\* check fails.
Bind(s, p) ==
    /\ st[s] = "Closed"
    /\ lport' = [lport EXCEPT ![s] = p]
    /\ bindOk' = [bindOk EXCEPT ![s] = IsPortAvailable(p)]
    /\ UNCHANGED <<used, st, rport, rcvSeq, rne, rbufs, rq, conns, listeners, fresh, acked, base>>

\* TCPSocket::listen: Closed -> Listen, and listen_socket overwrites the
\* listener table entry of the port without a check.
Listen(s) ==
    /\ st[s] = "Closed"
    /\ st' = [st EXCEPT ![s] = "Listen"]
    /\ listeners' = [listeners EXCEPT ![lport[s]] = s]
    /\ UNCHANGED <<lport, rport, rcvSeq, rne, rbufs, rq, conns, fresh, acked, base>>

\* TCPLayer::connect_socket: insert the socket under its key first, then
\* TCPSocket::connect, which returns false unless Closed; the SYN goes out
\* through IPLayer::send_packet, and a failed send makes the socket Closed
\* again (its table entry stays).
ConnectSocket(s, r) ==
    /\ conns' = [conns EXCEPT ![<<lport[s], r>>] = s]
    /\ IF st[s] # "Closed"
       THEN UNCHANGED <<st, rport>>
       ELSE /\ rport' = [rport EXCEPT ![s] = r]
            /\ \E ok \in IF IpSendCanFail THEN BOOLEAN ELSE {TRUE} :
                  st' = [st EXCEPT ![s] = IF ok THEN "SynSent" ELSE "Closed"]
    /\ UNCHANGED <<lport, rcvSeq, rne, rbufs, rq, listeners, fresh, acked, base>>

\* TCPSocket::close from any reachable state: Closed returns at once;
\* otherwise the socket becomes Closed and remove_socket runs.
Close(s) ==
    /\ st[s] # "Closed"
    /\ st' = [st EXCEPT ![s] = "Closed"]
    /\ RemoveSocket(s)
    /\ UNCHANGED <<lport, rport, rcvSeq, rne, rbufs, rq, fresh, acked, base>>

\* TCPSocket::abort: as close, and an RST goes to the peer.
Abort(s) ==
    /\ st[s] # "Closed"
    /\ st' = [st EXCEPT ![s] = "Closed"]
    /\ RemoveSocket(s)
    /\ UNCHANGED <<lport, rport, rcvSeq, rne, rbufs, rq, fresh, acked, base>>

-----------------------------------------------------------------------------
(* Segment arrival: TCPLayer::process_packet -> process_tcp_packet.        *)

\* Faulty variant of ProcessSyn: a SYN restarts the stream in any state.
ProcessSynAnyState(s, g) ==
    /\ st' = [st EXCEPT ![s] = "SynReceived"]
    /\ rport' = [rport EXCEPT ![s] = g.src]
    /\ rcvSeq' = [rcvSeq EXCEPT ![s] = g.seq + 1]
    /\ rne' = [rne EXCEPT ![s] = g.seq + 1]
    /\ base' = [base EXCEPT ![s] = g.seq + 1]
    /\ acked' = [acked EXCEPT ![s] = {}]
    /\ UNCHANGED <<lport, rbufs, rq>>

\* process_syn: only a Listen socket reacts; it takes the peer's ISN and
\* answers with a SYN-ACK acknowledging seq + 1.
ProcessSyn(s, g) ==
    IF st[s] # "Listen" THEN UNCHANGED sockVars
    ELSE /\ st' = [st EXCEPT ![s] = "SynReceived"]
         /\ rport' = [rport EXCEPT ![s] = g.src]
         /\ rcvSeq' = [rcvSeq EXCEPT ![s] = g.seq + 1]
         /\ rne' = [rne EXCEPT ![s] = g.seq + 1]
         /\ base' = [base EXCEPT ![s] = g.seq + 1]
         /\ acked' = [acked EXCEPT ![s] = {}]
         /\ UNCHANGED <<lport, rbufs, rq>>

\* process_data: buffer the segment, reorder_buffers, set
\* receive_sequence_ to the segment's end and ACK it.
ProcessData(s, g) ==
    LET r == ReorderBuffers(Append(rbufs[s], [start |-> g.seq, end |-> g.seq + g.len,
                                             consumed |-> FALSE]), rq[s], rne[s])
    IN /\ rbufs' = [rbufs EXCEPT ![s] = r.bufs]
       /\ rq' = [rq EXCEPT ![s] = r.q]
       /\ rne' = [rne EXCEPT ![s] = r.rne]
       /\ rcvSeq' = [rcvSeq EXCEPT ![s] = g.seq + g.len]
       /\ acked' = [acked EXCEPT ![s] = @ \cup AckCovers(s, g.seq + g.len)]
       /\ UNCHANGED <<st, lport, rport, base>>

\* receive_segment: validate_sequence, then dispatch on the first flag.
\* process_ack only updates send_unacknowledged_ and send_window_, which
\* nothing reachable reads, and drops the payload; process_fin acts only
\* in Established.
ReceiveSegment(s, g) ==
    IF ~ValidateSequence(s, g.seq, g.len) THEN UNCHANGED sockVars
    ELSE CASE g.flag = "SYN"  -> ProcessSyn(s, g)
           [] g.flag = "RST"  -> /\ st' = [st EXCEPT ![s] = "Closed"]
                                 /\ UNCHANGED <<lport, rport, rcvSeq, rne, rbufs, rq, acked, base>>
           [] g.flag = "DATA" -> ProcessData(s, g)
           [] OTHER           -> UNCHANGED sockVars

\* handle_new_connection: a SYN for a listening port with no connection
\* gets a new socket in SynReceived under the segment's key; the SYN is
\* passed to it, and process_syn ignores it outside Listen.
HandleNewConnection(g) ==
    /\ fresh # {}
    /\ LET n == CHOOSE n \in fresh : TRUE
       IN /\ fresh' = fresh \ {n}
          /\ st' = [st EXCEPT ![n] = "SynReceived"]
          /\ lport' = [lport EXCEPT ![n] = g.dst]
          /\ rport' = [rport EXCEPT ![n] = g.src]
          /\ conns' = [conns EXCEPT ![<<g.dst, g.src>>] = n]
          /\ UNCHANGED <<rcvSeq, rne, rbufs, rq, listeners, acked, base>>

\* process_tcp_packet for one segment from the peer.
Arrive(g) ==
    LET k == <<g.dst, g.src>> IN
    IF conns[k] # None
    THEN ReceiveSegment(conns[k], g) /\ UNCHANGED <<conns, listeners, fresh>>
    ELSE IF listeners[g.dst] # None /\ g.flag = "SYN"
         THEN HandleNewConnection(g)
         ELSE UNCHANGED vars

\* poll on one socket: cleanup_acknowledged_data, then reorder_buffers.
PollOnce(b) ==
    LET r == ReorderBuffers(CleanupAcknowledgedData(b.bufs), b.q, b.rne)
    IN [bufs |-> r.bufs, q |-> r.q, rne |-> r.rne]

RECURSIVE PollTimes(_, _)
PollTimes(b, n) == IF n = 0 THEN b ELSE PollTimes(PollOnce(b), n - 1)

\* TCPLayer::poll_sockets: poll every connection entry's socket, once per
\* entry that holds it.
PollSockets ==
    LET n(s) == Cardinality({k \in Keys : conns[k] = s})
        after(s) == PollTimes([bufs |-> rbufs[s], q |-> rq[s], rne |-> rne[s]], n(s))
    IN /\ rbufs' = [s \in Sockets |-> after(s).bufs]
       /\ rq' = [s \in Sockets |-> after(s).q]
       /\ rne' = [s \in Sockets |-> after(s).rne]
       /\ UNCHANGED <<st, lport, rport, rcvSeq, conns, listeners, fresh, acked, base>>

-----------------------------------------------------------------------------

Init ==
    /\ st = [s \in Sockets |-> "Closed"]
    /\ lport = [s \in Sockets |-> 0]
    /\ rport = [s \in Sockets |-> 0]
    /\ rcvSeq = [s \in Sockets |-> 0]
    /\ rne = [s \in Sockets |-> 0]
    /\ rbufs = [s \in Sockets |-> <<>>]
    /\ rq = [s \in Sockets |-> <<>>]
    /\ conns = [k \in Keys |-> None]
    /\ listeners = [p \in Ports |-> None]
    /\ fresh = NewSockets
    /\ acked = [s \in Sockets |-> {}]
    /\ base = [s \in Sockets |-> 0]
    /\ bindOk = [s \in AppSockets |-> FALSE]
    /\ used = [s \in AppSockets |-> FALSE]

\* The application uses a socket once: it binds it (again if bind failed),
\* then listens on it after a successful bind or connects it, and later
\* only closes or aborts it.
Use(s) == /\ ~used[s]
          /\ used' = [used EXCEPT ![s] = TRUE]
          /\ UNCHANGED bindOk

Next ==
    \/ \E s \in AppSockets, p \in LocalPorts : ~used[s] /\ Bind(s, p)
    \/ \E s \in AppSockets : bindOk[s] /\ Use(s) /\ Listen(s)
    \/ \E s \in AppSockets, r \in RemotePorts : Use(s) /\ ConnectSocket(s, r)
    \/ \E s \in AppSockets : Close(s) /\ UNCHANGED appVars
    \/ \E s \in AppSockets : Abort(s) /\ UNCHANGED appVars
    \/ \E g \in Segments : (\A s \in Sockets : Len(rbufs[s]) < MaxBuffers) /\ Arrive(g)
                           /\ UNCHANGED appVars
    \/ PollSockets /\ UNCHANGED appVars

Spec == Init /\ [][Next]_vars

-----------------------------------------------------------------------------
(* Properties.                                                             *)

\* Type invariant; it includes the queue bound that push_bytes enforces by
\* dropping bytes once the receive queue holds Capacity of them.
TypeOK ==
    /\ st \in [Sockets -> States]
    /\ lport \in [Sockets -> Ports] /\ rport \in [Sockets -> {0} \cup RemotePorts]
    /\ rcvSeq \in [Sockets -> Nat] /\ rne \in [Sockets -> Nat]
    /\ \A s \in Sockets : Len(rq[s]) <= Capacity
    /\ conns \in [Keys -> Sockets \cup {None}]
    /\ listeners \in [Ports -> Sockets \cup {None}]
    /\ fresh \subseteq NewSockets
    /\ bindOk \in [AppSockets -> BOOLEAN] /\ used \in [AppSockets -> BOOLEAN]

\* The receive queue filled by reorder_buffers holds the stream in order: each
\* byte's sequence number is one more than the one before it, across any
\* interleaving of arrivals, retransmissions and overlapping buffers.
QueueInOrder ==
    \A s \in Sockets : \A i \in 1 .. Len(rq[s]) - 1 : rq[s][i + 1] = rq[s][i] + 1

\* Every byte that process_data has acknowledged to the peer (its ACK number
\* acknowledges all bytes below it) is in the receive queue: an ACK never
\* covers data the application will not get.
AckedIsDelivered == \A s \in Sockets : acked[s] \subseteq ToSet(rq[s])

\* reorder_buffers never moves read_next_sequence_ past receive_sequence_,
\* the end of the data validate_sequence has let in.
RneWithinReceived == \A s \in Sockets : rne[s] <= rcvSeq[s]

\* A socket that listen_socket registered in listeners_ stays in Listen
\* while it is registered: close and abort remove it from the table.
RegisteredAreListening ==
    \A p \in Ports : listeners[p] # None => st[listeners[p]] = "Listen"
=============================================================================
