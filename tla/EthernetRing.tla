---------------------------- MODULE EthernetRing ----------------------------
(***************************************************************************)
(* The e1000 driver's descriptor rings (src/kernel/net/ethernet.cc) with   *)
(* the NIC as a second actor.  The driver writes a TX descriptor and the   *)
(* tail register (TDT); the NIC transmits the descriptors it owns, from    *)
(* its head (TDH) up to the tail, and writes the DD status bit back.  On   *)
(* RX the NIC fills the descriptors it owns (RDH up to RDT) and sets DD;   *)
(* process_packets -> receive takes the one at rx_index_ once DD is set,   *)
(* re-arms it and writes RDT.                                              *)
(*                                                                         *)
(* Frames are numbered: the k-th successful send carries frame k, the      *)
(* k-th frame off the wire is frame k.  Headers, lengths and buffers are   *)
(* left out.  The code writes the unwrapped u32 indices to TDT and RDT;    *)
(* the 8254x leaves a tail beyond the ring undefined, and the NIC here     *)
(* reads it modulo the ring size, the reading most favourable to the       *)
(* driver.                                                                 *)
(***************************************************************************)
EXTENDS Integers, FiniteSets

CONSTANTS
    Count,      \* tx_descriptor_count_ = rx_descriptor_count_ (256 in the code)
    MaxSends,   \* bound on send calls (tx_index_ is a u32)
    MaxFrames   \* bound on frames arriving from the wire

ASSUME Count \in Nat \ {0} /\ MaxSends \in Nat /\ MaxFrames \in Nat

Slots == 0 .. Count - 1
NoFrame == 0

\* ReceiveDescriptor / TransmitDescriptor: of the fields, the buffer (here
\* the frame it holds, up to n) and the DD bit of status.
Descriptor(n) == [frame : 0 .. n, dd : BOOLEAN]

\* The ring slot the NIC reads from a value written to a tail register.
Slot(t) == t % Count

\* The slots the NIC owns: from its head up to, not including, the tail.
Owned(head, tail) == {(head + k) % Count : k \in 0 .. ((Slot(tail) - head) % Count) - 1}

VARIABLES
    txDesc,     \* tx_descriptors_: frame and DD status of each slot
    txIndex,    \* tx_index_
    txClean,    \* tx_clean_index_
    tdt,        \* value last written to TDT (0x3818)
    tdh,        \* NIC transmit head
    rxDesc,     \* rx_descriptors_
    rxIndex,    \* rx_index_
    rdt,        \* value last written to RDT (0x2818)
    rdh,        \* NIC receive head
    sent,       \* ghost: frames for which send returned true
    wire,       \* ghost: frames the NIC has transmitted
    arrived,    \* ghost: frames that reached the NIC from the wire
    delivered   \* ghost: frames process_packets handed to the callbacks

vars == <<txDesc, txIndex, txClean, tdt, tdh, rxDesc, rxIndex, rdt, rdh,
          sent, wire, arrived, delivered>>
txVars == <<txDesc, txIndex, txClean, tdt, tdh, sent, wire>>
rxVars == <<rxDesc, rxIndex, rdt, rdh, arrived, delivered>>

-----------------------------------------------------------------------------
(* Driver: EthernetDevice::send.                                           *)

\* cleanup_tx_descriptors: from tx_clean_index_ while it differs from
\* tx_index_ and the slot has DD set; the index it stops at.
RECURSIVE CleanEnd(_)
CleanEnd(c) ==
    IF c # txIndex /\ txDesc[c % Count].dd THEN CleanEnd(c + 1) ELSE c

\* The descriptors after cleanup: update_tx_descriptor clears each one passed.
Cleaned(e) ==
    [j \in Slots |-> IF \E c \in txClean .. e - 1 : c % Count = j
                     THEN [txDesc[j] EXCEPT !.dd = FALSE] ELSE txDesc[j]]

\* send with a valid frame: clean up, then refuse a slot whose DD is set,
\* else fill the slot at tx_index_ (status 0), advance tx_index_, write TDT.
Send ==
    LET e == CleanEnd(txClean)
        d == Cleaned(e)
        i == txIndex % Count
        f == Cardinality(sent) + 1
    IN /\ txIndex < MaxSends
       /\ txClean' = e
       /\ IF d[i].dd
          THEN /\ txDesc' = d
               /\ UNCHANGED <<txIndex, tdt, sent>>
          ELSE /\ txDesc' = [d EXCEPT ![i] = [frame |-> f, dd |-> FALSE]]
               /\ txIndex' = txIndex + 1
               /\ tdt' = txIndex + 1
               /\ sent' = sent \cup {f}
       /\ UNCHANGED <<tdh, wire>>
       /\ UNCHANGED rxVars

(* NIC transmit: send the descriptor at the head, write DD back.           *)
NicTransmit ==
    /\ tdh # Slot(tdt)
    /\ wire' = wire \cup {txDesc[tdh].frame}
    /\ txDesc' = [txDesc EXCEPT ![tdh].dd = TRUE]
    /\ tdh' = (tdh + 1) % Count
    /\ UNCHANGED <<txIndex, txClean, tdt, sent>>
    /\ UNCHANGED rxVars

-----------------------------------------------------------------------------
(* Receive side.                                                           *)

\* A frame reaches the NIC: stored at the head if the NIC owns it, else
\* dropped (missed packet).
NicReceive ==
    /\ arrived < MaxFrames
    /\ arrived' = arrived + 1
    /\ IF rdh # Slot(rdt)
       THEN /\ rxDesc' = [rxDesc EXCEPT ![rdh] = [frame |-> arrived + 1, dd |-> TRUE]]
            /\ rdh' = (rdh + 1) % Count
       ELSE UNCHANGED <<rxDesc, rdh>>
    /\ UNCHANGED <<rxIndex, rdt, delivered>>
    /\ UNCHANGED txVars

\* EthernetDevice::receive at slot i: with DD set the frame is copied out,
\* the slot re-armed (status 0), rx_index_ advanced and written to RDT.
Receive(i) ==
    /\ rxDesc[i].dd
    /\ rxDesc' = [rxDesc EXCEPT ![i].dd = FALSE]
    /\ rxIndex' = rxIndex + 1
    /\ rdt' = rxIndex + 1

\* EthernetManager::process_packets calls receive(buffer, &size, 0): with a
\* timeout of 0 the loop spins until DD is set at rx_index_; the frame then
\* goes to the callbacks registered for its EtherType.
ProcessPackets ==
    LET i == rxIndex % Count
    IN /\ Receive(i)
       /\ delivered' = delivered \cup {rxDesc[i].frame}
       /\ UNCHANGED <<rdh, arrived>>
       /\ UNCHANGED txVars

-----------------------------------------------------------------------------

\* After init_descriptors: descriptors zeroed, TDH and RDH written 0; TDT
\* and RDT are never written, so they keep their reset value 0.
Init ==
    /\ txDesc = [j \in Slots |-> [frame |-> NoFrame, dd |-> FALSE]]
    /\ rxDesc = [j \in Slots |-> [frame |-> NoFrame, dd |-> FALSE]]
    /\ txIndex = 0 /\ txClean = 0 /\ tdt = 0 /\ tdh = 0
    /\ rxIndex = 0 /\ rdt = 0 /\ rdh = 0
    /\ sent = {} /\ wire = {} /\ arrived = 0 /\ delivered = {}

Next == Send \/ NicTransmit \/ NicReceive \/ ProcessPackets

Spec == Init /\ [][Next]_vars

-----------------------------------------------------------------------------

TypeOK ==
    /\ txDesc \in [Slots -> Descriptor(MaxSends)]
    /\ rxDesc \in [Slots -> Descriptor(MaxFrames)]
    /\ txClean \in 0 .. txIndex /\ txIndex \in 0 .. MaxSends
    /\ tdh \in Slots /\ rdh \in Slots

\* spec.md section 8 on send: every frame for which send returned true is
\* handed to the NIC for transmission, so it is on the wire already or in
\* a descriptor the NIC owns (send's ring-full check and the TDT it writes).
SentFramesEnqueued ==
    \A f \in sent :
        f \in wire \/ \E j \in Owned(tdh, tdt) : txDesc[j].frame = f

=============================================================================
