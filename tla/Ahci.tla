-------------------------------- MODULE Ahci --------------------------------
(***************************************************************************)
(* The AHCI driver's command path (src/kernel/drivers/ahci.cc) with the    *)
(* HBA as a second actor.  AHCIController::init probes every port:         *)
(* reset_port, start_port, then IDENTIFY on command slot 0; a port whose   *)
(* IDENTIFY succeeds is appended to ports_.  read_sectors and              *)
(* write_sectors (under the controller lock, so one call at a time) reuse  *)
(* slot 0's command table, issue it, and poll PxCI until it clears or the  *)
(* poll gives up.  The HBA, while the port's engine runs (PxCMD.ST),       *)
(* fetches the command in slot 0, performs it, and clears PxCI.            *)
(*                                                                         *)
(* Sector data, buffers, FIS bytes and the register layout are left out:   *)
(* a command is its operation, port, starting LBA, the sector count the    *)
(* device will transfer, and the call that issued it.  Allocation failures *)
(* and the bounded polls of reset_port and start_port are one outcome,     *)
(* the port does not come up.                                              *)
(***************************************************************************)
EXTENDS Integers, Sequences, FiniteSets

CONSTANTS
    NumPorts,       \* ports implemented (PI bits 0 .. NumPorts-1)
    Present,        \* ports whose SATA status has DET = 3
    StartOutcomes,  \* whether reset_port and start_port succeed
    SectorCount,    \* sector_count IDENTIFY reports
    Supports48,     \* IDENTIFY word 83 bit 10
    Lbas, Counts,   \* request inputs
    CanTimeOut,     \* whether a PxCI poll may give up before the HBA clears it
    DeviceErrors,   \* whether a command may end with PxIS.TFES set
    MaxCalls,       \* bound on read/write calls
    None

HwPorts == 0 .. NumPorts - 1
Ops == {"identify", "read", "write"}

ASSUME Present \subseteq HwPorts /\ StartOutcomes \subseteq BOOLEAN
ASSUME Counts \subseteq Nat \ {0} /\ DeviceErrors \subseteq BOOLEAN

\* The sectors the device transfers for count: the FIS carries count_low
\* (and count_high with LBA48), a zero field meaning 256 (65536); the PRDT
\* covers count sectors, so the transfer is the smaller of the two.
TransferCount(count, b48) ==
    LET field == IF b48 THEN count % 65536 ELSE count % 256
        ata   == IF field = 0 THEN (IF b48 THEN 65536 ELSE 256) ELSE field
    IN IF ata < count THEN ata ELSE count

\* PRDT entries of at most 256 KiB for count sectors of 512 bytes.
PrdtEntries(count) == (count * 512 + 262144 - 1) \div 262144

\* AHCIPort, as far as the driver uses it: a command list base installed
\* (PxCLB), PxCMD.ST, PxCI bit 0 and PxIS bit 30 (TFES).
PortRegs == [clb : BOOLEAN, st : BOOLEAN, ci : BOOLEAN, tfes : BOOLEAN]

\* HBACommandHeader with its command table (FIS and PRDT): the operation,
\* the starting LBA, the sectors the device will transfer, and the call.
Commands == [op : Ops, lba : Nat, n : Nat, call : 0 .. MaxCalls]

\* PortInfo: the hardware port number, sector_count and supports_48bit.
PortInfos == [hw : HwPorts, count : Nat, b48 : BOOLEAN]

\* The PortInfo identify_device fills in for a port.
PortInfo(p) == [hw |-> p, count |-> SectorCount, b48 |-> Supports48]

VARIABLES
    probe,      \* the port AHCIController::init's loop probes next
    ports,      \* ports_: PortInfo of each port whose probe succeeded
    clb,        \* command list base installed (start_port got that far)
    st,         \* PxCMD.ST: command engine started
    table,      \* slot 0 command header and table contents
    ci,         \* PxCI bit 0
    tfes,       \* PxIS bit 30
    hba,        \* the command the HBA has fetched from slot 0
    drv,        \* the caller waiting on PxCI, or idle
    calls,      \* read/write calls issued
    served,     \* ghost: commands the HBA performed, with the port
    results     \* ghost: read/write calls that returned, with their result

vars == <<probe, ports, clb, st, table, ci, tfes, hba, drv, calls, served, results>>

Idle == [pc |-> "idle", port |-> 0, req |-> [op |-> "identify"]]

\* What a read or write call returned, with what it asked for.
Result(req, ok) ==
    [call |-> req.call, disk |-> req.disk, lba |-> req.lba, count |-> req.count, ok |-> ok]

-----------------------------------------------------------------------------
(* Driver.                                                                 *)

\* Fill slot 0 of port p with cmd, clear PxIS, set PxCI, and wait.
IssueCommand(p, cmd, req) ==
    /\ table' = [table EXCEPT ![p] = cmd]
    /\ tfes' = [tfes EXCEPT ![p] = FALSE]
    /\ ci' = [ci EXCEPT ![p] = TRUE]
    /\ drv' = [pc |-> "wait", port |-> p, req |-> req]

\* stop_port: clear ST; the HBA stops and clears PxCI; PxIS cleared.
StopPort(p) ==
    /\ st' = [st EXCEPT ![p] = FALSE]
    /\ ci' = [ci EXCEPT ![p] = FALSE]
    /\ hba' = [hba EXCEPT ![p] = None]
    /\ tfes' = [tfes EXCEPT ![p] = FALSE]

\* reset_port then start_port succeeded: the command list and FIS bases
\* are installed and the engine runs (ST set, CR seen).
StartPort(p) ==
    /\ clb' = [clb EXCEPT ![p] = TRUE]
    /\ st' = [st EXCEPT ![p] = TRUE]

\* AHCIController::init, one iteration: probe_port(p).  A port without a
\* device, or whose reset or start fails, is skipped; otherwise its
\* engine runs and identify_device issues IDENTIFY on slot 0.
ProbePort(p) ==
    /\ drv.pc = "idle" /\ probe = p
    /\ IF p \notin Present
       THEN /\ probe' = p + 1
            /\ UNCHANGED <<clb, st, table, ci, tfes, drv>>
       ELSE \E up \in StartOutcomes :
              IF up
              THEN /\ StartPort(p)
                   /\ IssueCommand(p, [op |-> "identify", lba |-> 0, n |-> 1, call |-> 0],
                                   [op |-> "identify"])
                   /\ UNCHANGED probe
              ELSE /\ probe' = p + 1
                   /\ UNCHANGED <<clb, st, table, ci, tfes, drv>>
    /\ UNCHANGED <<ports, hba, calls, served, results>>

\* The controller is in AHCIManager's controllers_ once init finished
\* with at least one port up.
ControllerReady == probe = NumPorts /\ Len(ports) > 0

\* read_sectors / write_sectors on ports_[i]: the range is checked against
\* that port's sector_count, but the command list used is that of
\* hardware port i (hba_->ports[port_number]); a zero command list base
\* makes the call fail without a command.
Access(op, i, lba, count) ==
    LET info == ports[i + 1]
    IN /\ drv.pc = "idle" /\ ControllerReady /\ calls < MaxCalls
       /\ i < Len(ports)
       /\ lba + count <= info.count
       /\ clb[i]
       /\ PrdtEntries(count) <= 8
       /\ calls' = calls + 1
       /\ IssueCommand(i, [op |-> op, lba |-> lba, n |-> TransferCount(count, info.b48),
                           call |-> calls + 1],
                       [op |-> op, call |-> calls + 1, disk |-> info.hw,
                        lba |-> lba, count |-> count])
       /\ UNCHANGED <<probe, ports, clb, st, hba, served, results>>

ReadSectors(i, lba, count) == Access("read", i, lba, count)
WriteSectors(i, lba, count) == Access("write", i, lba, count)

\* The PxCI poll sees bit 0 clear: TFES means failure; PxIS is cleared.
\* IDENTIFY's success appends the port to ports_; its failure stops it.
CommandDone ==
    LET p  == drv.port
        ok == ~tfes[p]
    IN /\ drv.pc = "wait" /\ ~ci[p]
       /\ drv' = Idle
       /\ IF drv.req.op = "identify"
          THEN /\ probe' = p + 1
               /\ IF ok
                  THEN /\ ports' = Append(ports, PortInfo(p))
                       /\ tfes' = [tfes EXCEPT ![p] = FALSE]
                       /\ UNCHANGED <<st, ci, hba>>
                  ELSE /\ StopPort(p) /\ UNCHANGED ports
               /\ UNCHANGED results
          ELSE /\ results' = results \cup {Result(drv.req, ok)}
               /\ tfes' = [tfes EXCEPT ![p] = FALSE]
               /\ UNCHANGED <<probe, ports, st, ci, hba>>
       /\ UNCHANGED <<clb, table, calls, served>>

\* The poll gives up with PxCI still set: the call returns false and the
\* command stays issued; a failed IDENTIFY is followed by stop_port.
CommandTimeout ==
    LET p == drv.port
    IN /\ CanTimeOut
       /\ drv.pc = "wait" /\ ci[p]
       /\ drv' = Idle
       /\ IF drv.req.op = "identify"
          THEN /\ probe' = p + 1
               /\ StopPort(p)
               /\ UNCHANGED results
          ELSE /\ results' = results \cup {Result(drv.req, FALSE)}
               /\ UNCHANGED <<probe, st, ci, hba, tfes>>
       /\ UNCHANGED <<ports, clb, table, calls, served>>

-----------------------------------------------------------------------------
(* HBA.                                                                    *)

\* The HBA fetches the command header, FIS and PRDT of an issued slot.
HbaFetch(p) ==
    /\ st[p] /\ ci[p] /\ hba[p] = None
    /\ hba' = [hba EXCEPT ![p] = table[p]]
    /\ UNCHANGED <<probe, ports, clb, st, table, ci, tfes, drv, calls, served, results>>

\* The HBA performs the fetched command and clears PxCI, setting TFES on
\* a device error.
HbaComplete(p) ==
    /\ hba[p] # None
    /\ served' = served \cup {[port |-> p, op |-> hba[p].op, call |-> hba[p].call,
                               lba |-> hba[p].lba, n |-> hba[p].n]}
    /\ hba' = [hba EXCEPT ![p] = None]
    /\ ci' = [ci EXCEPT ![p] = FALSE]
    /\ \E e \in DeviceErrors : tfes' = [tfes EXCEPT ![p] = e]
    /\ UNCHANGED <<probe, ports, clb, st, table, drv, calls, results>>

-----------------------------------------------------------------------------

Init ==
    /\ probe = 0
    /\ ports = <<>>
    /\ clb = [p \in HwPorts |-> FALSE]
    /\ st = [p \in HwPorts |-> FALSE]
    /\ table = [p \in HwPorts |-> None]
    /\ ci = [p \in HwPorts |-> FALSE]
    /\ tfes = [p \in HwPorts |-> FALSE]
    /\ hba = [p \in HwPorts |-> None]
    /\ drv = Idle
    /\ calls = 0
    /\ served = {}
    /\ results = {}

Next ==
    \/ \E p \in HwPorts : ProbePort(p)
    \/ \E i \in HwPorts, l \in Lbas, c \in Counts :
          ReadSectors(i, l, c) \/ WriteSectors(i, l, c)
    \/ CommandDone
    \/ CommandTimeout
    \/ \E p \in HwPorts : HbaFetch(p) \/ HbaComplete(p)

Spec == Init /\ [][Next]_vars

-----------------------------------------------------------------------------

TypeOK ==
    /\ probe \in 0 .. NumPorts
    /\ ports \in Seq(PortInfos) /\ Len(ports) <= NumPorts
    /\ \A p \in HwPorts :
          /\ [clb |-> clb[p], st |-> st[p], ci |-> ci[p], tfes |-> tfes[p]] \in PortRegs
          /\ table[p] \in Commands \cup {None}
          /\ hba[p] \in Commands \cup {None}
    /\ drv.pc \in {"idle", "wait"} /\ drv.port \in HwPorts
    /\ calls \in 0 .. MaxCalls

\* Spec.md section 4.E, one command per call: a read or write that returns
\* true was performed by the HBA of the disk it addressed, as the command
\* that call issued, from the LBA and for the count it asked (the slot-0
\* reuse after a timed-out poll, and the ports_ / hba_->ports indexing).
IssuedCommandServed ==
    \A r \in results :
        r.ok => \E s \in served :
                    /\ s.call = r.call /\ s.port = r.disk
                    /\ s.lba = r.lba /\ s.n = r.count

=============================================================================
