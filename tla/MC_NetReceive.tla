--------------------------- MODULE MC_NetReceive ---------------------------
(***************************************************************************)
(* Model values for NetReceive.  Three datagrams to local address 10:     *)
(* dA and dB in two fragments each, from the same host with different     *)
(* identifications (so only the id keeps their reassembly keys apart),    *)
(* and dC unfragmented for another port.  MCCollide makes dB come from    *)
(* 257 with dA's id: its key equals dA's once the source is truncated.    *)
(***************************************************************************)
EXTENDS NetReceive

CONSTANTS dA, dB, dC, u1, u2

MCDatagrams == {dA, dB, dC}
MCSockets == {u1, u2}

TwoFrags == << [off |-> 0, len |-> 1, mf |-> TRUE], [off |-> 1, len |-> 1, mf |-> FALSE] >>
OneFrag == << [off |-> 0, len |-> 1, mf |-> FALSE] >>

MCDgram ==
    [d \in MCDatagrams |->
        IF d = dA THEN [src |-> 1, id |-> 1, sport |-> 7, dport |-> 53, ulen |-> 2, frags |-> TwoFrags]
        ELSE IF d = dB THEN [src |-> 1, id |-> 2, sport |-> 8, dport |-> 53, ulen |-> 2, frags |-> TwoFrags]
        ELSE [src |-> 2, id |-> 3, sport |-> 9, dport |-> 54, ulen |-> 1, frags |-> OneFrag]]

MCCollide == [MCDgram EXCEPT ![dB].src = 257, ![dB].id = 1]

MCPeers == {<<1, 7>>, <<2, 9>>}
=============================================================================
