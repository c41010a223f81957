# TLA+ models of the nanokoton kernel

This directory holds TLA+ specifications of parts of the nanokoton x86-64 kernel. Each one is written from the C++ source under `src/`. TLC checks them, and the `.cfg` files here are the configurations it runs. `PROJECT.json` lists:

- every component and whether it is modelled;
- every run and the properties it checks;
- a mutant for each property;
- the source lines that each definition translates (the map);
- the findings;
- the hazards of the code.

## The system

Several source files have anonymous names. `src/unnamed/part_00N` are whole files whose names were lost, and `src/kernel/mm/vitural.cc` is three files run together.

| Part | Source | State | Operations |
|---|---|---|---|
| Physical memory manager (PMM) | `unnamed/part_004` (physical.cc), `part_007` (.hpp) | up to 32 regions, each with base, size, a bitmap of pages (1 = allocated) and a `free_pages` counter; global `free_pages_`, `used_pages_` and byte statistics | `init` over the boot memory map (`init_region` for Free entries, `mark_region` for the rest, then `merge_free_regions`); `allocate_page`, `allocate_pages`, `allocate_aligned`, `free_page`, `free_pages` |
| Virtual memory manager (VMM) | `vitural.cc` 1–423, `part_008` | address spaces with a 4-level page table tree, `allocated_pages`, `mapped_pages`, `reference_count`; `current_space_` | `map_page`, `unmap_page` (frees emptied tables), `map_pages`/`unmap_pages` with rollback, `create/destroy/switch_address_space` |
| Kernel heap | `vitural.cc` 424–607 | bump pointer in the kernel heap window | `kmalloc` (allocate and map frames, roll back on failure), `kmalloc_aligned`, `krealloc`, `kfree` |
| Thread, Process, ProcessManager | `vitural.cc` 608–1060, `task/scheduler.hpp` | thread state (Ready, Running, Sleeping, Blocked, Zombie, Dead), stack and register block, process thread list (at most 64), PID table | `create_thread`, `destroy_thread`, `create_process`, `destroy_process`, `cleanup_zombies`, `allocate_pid` |
| Scheduler | `vitural.cc` 1068–1600 | four run queues with a cursor each, `current_thread_`, idle thread | `add_thread`, `remove_thread`, `yield`, `sleep`, `wake_up`, `handle_timer_tick`, `select_next_thread`, `switch_to_thread` |
| Ethernet (e1000) | `kernel/net/ethernet.cc` | TX and RX descriptor rings shared with the NIC, `tx_index_`, `rx_index_`, `tx_clean_index_` | `send`, `receive`, `cleanup_tx_descriptors`, `process_packets` |
| IPv4 | `unnamed/part_001`, `net/ip.hpp` | routing table, fragment reassembly map | `send_packet`, `process_fragment`, `reassemble_packets` (timeout) |
| UDP | `kernel/net/udp.cc` | bound sockets, receive queues | bind, send, receive, demultiplex |
| TCP | `unnamed/part_002`, `part_006` | per-socket connection state, sequence numbers, retransmit and reorder buffers; the layer's socket table | `connect`, `send`, `receive`, `close`, `abort`, `receive_segment` and `process_*`, `retransmit`, `poll`, `handle_new_connection` |
| AHCI | `kernel/drivers/ahci.cc`, `unnamed/part_003` | per-port command list and command table | `send_command` (slot 0 and poll with a timeout), `read_sectors`, `write_sectors` |
| exFAT | `kernel/fs/exfat.cc`, `part_005` (exfat.hpp) | in-memory cluster bitmap and the on-disk bitmap sector, FAT, root directory entry sets, `FileHandle`s, a cluster cache | `init`, `open`, `close`, `read`, `write`, `seek`, `truncate`, `mkdir`, `rmdir`, `unlink`, `rename`, `opendir`/`readdir`, `stat`, over `allocate_cluster`, `free_cluster_chain` and `read/write_cluster_chain` |
| Boot, init, logging | `stage2.asm`, `part_000`, `debug.cc` | hardware set-up, the fixed init order, formatting | n/a |

How the parts interact:

- The VMM takes every page-table frame and every heap frame from the PMM.
- `kmalloc` maps frames into whichever address space is `current_space_`.
- Threads get their stacks and register blocks from `kmalloc`.
- The scheduler calls `switch_address_space` when it switches threads.
- TCP and UDP packets go through IP to the Ethernet rings.
- The locks (`SpinLock`, `Mutex`) and the containers (`Bitmap`, `HashMap`, `Vector`) live in `nanokoton/lib`, which is not part of `src/`. Wherever their behaviour matters, the models say what they assume about them.

## What is modelled

### `PhysicalMemory.tla` (with `MC_PhysicalMemory.tla`)

**Scale.** Addresses are byte addresses on a small scale, with `PageSize` = 2. At that size `align_up` and `align_down` still round, so page-unaligned memory map entries behave as they do in the kernel. The `pmm` run's map, though, is page aligned and lists its Reserved entry after the Free entry it lies in, so the run starts from a correct `init`. With an unaligned Free entry, `init_region` rounds the base up without shortening the region, and a page not wholly inside the entry becomes allocatable in the very first state. That needs no interleaving, so it is kept as a hazard (`part_004:118`) rather than a run.

**Boot.** The boot memory map is the constant `MemoryMap`. `Boot` folds `init`'s loop over it:

- `InitRegion` is `init_region`. A Free entry becomes a new region unless `MAX_MEMORY_REGIONS` is reached or it is smaller than a page. The base is rounded up and the size is rounded down.
- `MarkRegion` is `mark_region`. It sets the pages of each region that already holds the rounded-up base.

`Init` then computes the counters the way `init` does in its recount loop.

**State.**

- The variables are `bitmap`, `regionFree` (`regions_[i].free_pages`), `freePages` (`free_pages_`) and `usedPages` (`used_pages_`).
- Two ghost variables stand for the callers: `held` is the set of frames handed out and not yet given back, and `last` is the last call and its result.
- The byte statistics (`free_memory_` and the rest) and the allocation/free statistics are left out. No operation reads them.

**Actions.** Each public operation is one action, because each runs entirely under the PMM lock.

- `AllocatePage` uses the first clear bit in region order and does not look at `free_pages`.
- `AllocatePages(n)` skips a region whose `free_pages` is below `n`. It then scans as the loop does, with `ScanRun` restarting the run at each used page.
- `AllocateAligned(n, a)` first normalises the alignment. `ScanAligned` restarts the run at each used page and at each page whose address is not aligned, as the code does.
- `FreePage(addr)` handles the unaligned, unknown and double-free early returns.
- `FreePages(base, n)` clears only the set bits. It then adds the whole `n` to the counters, as the code does.

**Inputs.**

- Counts and alignments come from small constant sets.
- A caller frees frames it holds, or addresses in `StrayAddrs` (unaligned or outside every region).
- `DoubleFreeOps` selects which free operation callers may also apply to frames that are already free.

**Not modelled.**

- `merge_free_regions`. The memory maps are chosen without adjacent regions, so it does nothing there. It grows region1 over region2 but keeps region1's bitmap, so pages of the merged tail would index past that bitmap (`Bitmap` is not under `src/`).
- The global bitmap.
- The read-only queries.

**Properties.**

- `CountersMatchBitmap`: every region's `free_pages`, `free_pages_` and `used_pages_` agree with the bitmaps, and `used_pages_` never goes below zero. `allocate_pages` relies on these counters.
- `HeldFramesAllocated`: a frame a caller holds is marked allocated, so no frame is handed out twice.
- `AllocIsFirstFit` (action property): every allocation returns exactly the lowest aligned run of free pages in the first region that has one, and fails only when there is none. The reference `FirstFitRef` is computed directly from the bitmap, independently of the scan loops.
- `ImplementsFrameAllocator` (refinement): the PMM implements the abstract contract in `FrameAllocator.tla`. See below.

**The abstract contract, `FrameAllocator.tla`.** This module states what the public interface of `PhysicalMemoryManager` (`part_007` lines 50–58) promises, with the bitmaps, counters and scans left out. Its state is:

- `free`: a set of free frames;
- `result`: the last call.

It has four actions:

- `Allocate(n, al)` takes n consecutive free frames whose first address is `al`-aligned, and reports that address.
- `Refuse(n, al)` reports failure and takes nothing.
- `Release(a, n, al)` makes exactly the named frames free.
- `Dismiss(n, al)` is a refused free that changes nothing.

`PhysicalMemory.tla` instantiates the contract as `Abstract` with this refinement mapping:

- `free` is `ClearFrames`, the frames whose bitmap bit is clear;
- `result` is `last`;
- `Frames` is `AllFrames`;
- `Step` is `PAGE_SIZE`;
- the counts and alignments are those the callers use.

The `pmm` run checks `Abstract!Spec` as a property. So each step of `allocate_page`, `allocate_pages`, `allocate_aligned`, `free_page` and `free_pages` changes the bitmaps exactly as the call it reports says: a reported allocation cleared exactly its run, a reported free set exactly the named frames, and a failure changed no bit.

The contract allows `Release` of frames that are already free. This is how `free_pages` treats a range with a free page in it. The contract does not forbid that case; `CountersMatchBitmap` is the property that catches the counters going wrong. The mutant `FreedRangeLong` makes the `free_pages` loop run while `p <= count`, which frees one page past the range, and it breaks the refinement.

**What else TLC shows.** `allocate_aligned` restarts its run at every page whose address is not aligned, so a request for two or more pages aligned above the page size never succeeds. spec.md §4.A asks only that the start of the run be aligned. The `pmm` run's multi-page aligned request is page aligned. With the request `<<2, 4>>` on one free region, TLC finds `AllocIsFirstFit` violated in one step. This is kept as a hazard, not a run.

`free_pages` over a range that holds an already free page skips that page but adds the full count to the counters. With `DoubleFreeOps = {"pages"}` in `pmm.cfg`, TLC finds `CountersMatchBitmap` violated after one such call (a code bug, kept as a hazard).

### `Scheduler.tla` (with `MC_Scheduler.tla`): threads, processes, process manager and scheduler

These four classes share one module, because each operation of one reads or changes the state of another. For example, `destroy_thread` deletes an object that the run queues may still point to.

**Objects.**

- Processes and threads are model values (`Procs`, `Tids`). Each has a lifecycle state. `"Unused"` means the object is not yet allocated, and `"Deleted"` means `delete` has been called on it.
- The process table `processes_` is `table`, a function from the pid space `0 .. PidSpace-1`. The pid space is small so that `next_pid_` wraps. The code uses a `u64`, which wraps the same way, only later.

**`Init`.** `Init` is the state after `Kernel::init_process_management`:

- `Scheduler::init` creates the idle process (pid 1) with its main thread and the idle thread. The idle thread is current and Running.
- `ProcessManager::init` then creates the kernel process (pid 2).

**Process and thread operations.**

- `CreateProcess` is `create_process`. It calls `allocate_pid` (`PidScan`), then the `Process` constructor, where the address space and the main thread may each fail. The process is kept only if both succeed.
- `ThreadOutcomes` lists the three outcomes of `new Thread`:
  - success;
  - a failed allocation that `create_thread` rejects;
  - a failed stack allocation that leaves `registers_` uninitialised, which `create_thread` accepts. This outcome is enabled only by `StackAllocCanFail`. With it TRUE, the `sched` properties still hold (1,855,568 states in 3m49s). The run keeps it FALSE to stay well inside its time budget.
- `CreateThread` and `DestroyThread` are `Process::create_thread` (with its limit, `ThreadsLimit` here instead of 64) and `destroy_thread`.
- `DestroyProcess` is `destroy_process` followed by `cleanup_zombies`. `DeleteProcs` is `~Process`, which deletes every thread of the process.

**Scheduler operations.** The scheduler's state is the four run queues (sequences), their cursors, `current_thread_`, the policy, and two time facts:

- `sliceUp`: the time slice of the current thread has run out;
- `due`: a sleeper's wake-up time has passed.

`Elapse` is the passage of time. Each public method is one action, since each runs under `lock_`. The helpers it calls are operators over a record of that state (`SchedPart`):

- `AddS` is `add_thread` with `validate_thread`.
- `SelectNext` is `select_next_thread`. It starts with `cleanup_dead_threads`, then scans band by band from the cursor with `ScanBand`, waking due sleepers, and falls back to the idle thread.
- `Switch` is `switch_to_thread`, including its re-add of the outgoing thread.
- `Yield`, `Sleep` and `Tick` include the select and switch they perform. `Tick` also wakes the due sleepers in the queues and reaps.

**Callers.** The ghost set `added` holds the threads a caller has passed to `add_thread` and not yet to `remove_thread`. A caller never destroys the current thread. When `RemoveBeforeDestroy` holds, a caller destroys a thread, or its process, only after removing it from the scheduler.

**Not modelled.**

- The `Priority` policy. `calculate_priority` calls `Thread::get_priority`, which does not exist.
- `update_thread_priorities`, which nothing calls.
- Register save and restore, `switch_address_space`, statistics and slice lengths. No property reads them.

No code under `src/` sets a thread `Dead`. The model keeps `cleanup_dead_threads`, but no run reaches a Dead thread.

**Properties.**

- `NoProcessLost`: every live process is in the table. A reused pid would overwrite an entry and leak a process.
- `SchedulerHoldsOnlyLive`: the run queues and `current_thread_` refer only to live threads.
- `QueuedThreadDispatched` (§4.D and scenario 3, a liveness property): a queued thread eventually becomes current, unless it leaves the queues first.

**What the runs show about dispatch.** No path in the code ever switches away from the idle thread:

- `yield` and `sleep` return at once while idle is current.
- `handle_timer_tick` preempts only a non-idle thread.

Since the idle thread is current from `init` on, nothing is ever dispatched. `sched_idle_never_preempted` shows this.

So `switch_to_thread` never runs, and no thread other than idle is ever Running. Two hazards of the switch path therefore cannot occur in this code, and the project checks no property about them, since one would hold whatever the code did:

- `switch_to_thread` re-adds the outgoing thread with `add_thread` although it may still be queued;
- it never sets the idle thread Ready when switching away from it.

Both become live once dispatch is fixed.

**Destroying a queued thread.** `Process::destroy_thread` and `~Process` delete threads without telling the scheduler. With `RemoveBeforeDestroy` = FALSE, TLC finds `SchedulerHoldsOnlyLive` violated: a run queue keeps the deleted thread. The `sched` run keeps the caller discipline, so that the rest of the scheduler is checked past that point.

### `VirtualMemory.tla` (with `MC_VirtualMemory.tla`): page tables, address spaces and kernel heap

**Scale.** Addresses are page numbers. The PML4 has four slots: 0..1 stand for the user half (the code's 0..255) and 2..3 for the kernel half (256..511). The PDPT, page directory and page table have two slots each. `Index(k, lvl)` gives the slot of page `k` at each level, as the code's `(virt >> 39) & 0x1FF` and so on. A table lives in a frame, and `pte[f]` is frame `f` read as a table. An entry holds a frame or `None` (not present); flags, huge pages and the byte offset are left out.

**The PMM.** Here the physical memory manager is the set `pmmFree` of free frames. `allocate_page` returns the lowest one, and `free_page` ignores a frame outside the pool or one already free, as `PhysicalMemory.tla` shows it does. Frames of the kernel image, of VGA and of devices lie outside the pool. `SetMem` forgets the contents of free frames, because no path reads a frame after freeing it and allocation zeroes a table. This keeps the state space small.

**Composition.** Each public function is one action, since each runs under a lock on one CPU. The private helpers it calls (`get_next_table`, `map_page_internal`, `unmap_page_internal`, `free_table`, `get_physical_address`) are operators on a record `Mem`, so an action composes them in the code's order. Counters are charged to `current_space_`, as the code does.

**State and `Init`.** `Init` is the state after `VirtualMemoryManager::init`:

- the kernel PML4 is allocated;
- `map_kernel_regions` maps the kernel image and VGA;
- `BootHeapPages` one-page `kmalloc` calls made by boot-time code run before the first user space exists.

**Actions.**

- `map_page`, `unmap_page`, `map_pages` and `unmap_pages` over two user pages and two device frames. `map_pages` takes its rollback path when the second page is already mapped.
- `create_address_space`, `destroy_address_space` and `switch_address_space`.
- `kmalloc` of one or two pages over a three-page heap window, with both rollback paths. `allocate_page` fails when the pool is empty, and `map_page` fails when no frame is left for a page table. The bump pointer never reuses a heap page, so a mapped heap page never makes it fail.
- `kmalloc_aligned`, which asks `kmalloc` for the size plus `A - 1 + 8` bytes: one page more for an alignment below a page, two for `PAGE_SIZE`, and none when a bad alignment falls back to `kmalloc(size)` (`AlignPages`).
- `krealloc` of a live block: it calls `kmalloc` for the new size first and returns null, leaving the old block alone, if that fails. Otherwise it copies and calls `kfree` on the old block. Contents are not modelled, so the copy has no effect.
- `kfree`, which unmaps and frees the first page of the block (`KfreeMem`). For an aligned block the code reads the header word and calls `kfree` on the raw pointer while holding `heap_lock_`. `PMM::init(boot_info)` also takes its `SpinLock` and then calls `init(entries, count)`, which takes it again, on the boot path. So the model takes `SpinLock` to be re-entrant, and an aligned `kfree` frees the raw block's first page as a plain one does.

Ghost variables record what callers were told: `view` (mappings), `blocks` and `freed` (heap blocks) and `holders` (which owners hold a space). The properties compare them with the tables.

**Properties.**

- `FramesOwnedOnce`: a frame is free, a table, or the target of one mapping, and never two of these.
- `MappingsResolve` (§8): in every live space, walking the tables gives exactly the mappings callers were told about, together with the kernel half.
- `CurrentSpaceLive`: `current_space_` is never a deleted space.
- `CountersMatchTables`: `allocated_pages` and `mapped_pages` summed over the live spaces equal the tables and leaves they own.
- `KmallocRollsBack` (an action property): a `kmalloc` that fails leaves every mapping and its frames as they were. In the pass run a failing `kmalloc` restores the state exactly, so its step is a stuttering step. A rollback that missed a page would change the state, and the `RollbackSkipFirst` mutant shows the property catches that.
- `NoEmptyTable` (§4.B, §8): no table reachable from a space is empty after an unmap.
- `NoLeakedSpace` (§4.B): a space whose holders all destroyed it is freed.
- `FreedBlocksUnmapped`: no page of a freed block stays mapped.

**What the runs show.**

- Pruning in `unmap_page_internal` never frees a table. It tests the page directory, PDPT and PML4 for emptiness, but never the page table, and the page directory still points at that page table. With `NoEmptyTable` as the invariant and the constants of `vmm.cfg` (with `Spaces <- MCSpacesSmall`), TLC finds it violated after `map_page` then `unmap_page` (a divergence from spec.md §4.B and §8, kept as a hazard).
- `switch_address_space` increments `reference_count` and nothing decrements it. So a space switched to once is never freed. With `NoLeakedSpace` as the invariant, TLC finds it violated after create, switch and destroy (a code bug, kept as a hazard).
- This leak also hides `free_table`'s bugs. `free_table` frees every child table, then frees it again and decrements the counter of `current_space_` rather than the destroyed space. The mutant `SwitchNoRef` removes the increment, and TLC then finds `CountersMatchTables` violated.
- `kfree` releases only the first page of a block. With `FreedBlocksUnmapped` as the invariant and the constants of `vmm.cfg`, TLC finds it violated after a two-page `kmalloc` and its `kfree` (a code bug, kept as a hazard).
- The kernel half is copied into a new space once. A kernel PDPT that `kmalloc` creates later is missing from spaces made earlier. With `BootHeapPages` = 0 in `vmm.cfg`, TLC reports `MappingsResolve` violated after a create followed by `kmalloc`. The project keeps this as a hazard, not a run. With the boot heap in place, as the pass run has it, the heap PDPT exists before any copy and the mappings resolve.

### `TCP.tla` (with `MC_TCP.tla`): connection and listener tables, socket state, receive path

**What is reachable.** No code sets a socket `Established`. `process_ack` only updates `send_unacknowledged_` and `send_window_`, and `handle_new_connection` hands its new SynReceived socket a SYN that `process_syn` ignores outside Listen. So `send`, `receive`, `retransmit_pending_data` and the Established branches of `close`, `process_fin` and `poll` cannot run. The model leaves them out and keeps every state change that can happen.

**State.**

- For each socket: `state_` (`st`), local and remote port, `receive_sequence_` (`rcvSeq`), `receive_next_expected_` (`rne`), `receive_buffers_` (`rbufs`, records of start, end and `consumed`), and `receive_queue_` (`rq`, the sequence numbers of the bytes pushed).
- For the layer: `connections_` (`conns`, keyed by local and remote port, since there is one local address) and `listening_sockets_` (`listeners`).
- `fresh` is the pool of socket objects `handle_new_connection` can allocate.
- Ghosts: `acked` holds the bytes an ACK has covered, and `base` is the first sequence number of the stream.

**Actions.**

- `Bind`, `Listen`, `ConnectSocket`, `Close` and `Abort` are the application calls.
  - `bind_socket` checks `is_port_available` but records nothing, and `Bind` keeps that.
  - `connect_socket` inserts the table entry before `connect` runs. The SYN send may fail (`IpSendCanFail`), which puts the socket back to Closed with its entry still in the table.
- `Arrive(g)` is `process_tcp_packet` for one segment from the peer. The segment is found in `conns`, or else it is a SYN for a listener (`HandleNewConnection`). `ReceiveSegment` runs `validate_sequence`, then dispatches on the first flag set.
  - A segment with ACK and data takes the ACK branch, which changes no modelled state.
  - A segment with only data goes to `process_data`: append the buffer, `reorder_buffers` (`SortSeq` by start, then `ConsumeFrom`'s loop with the queue-full break), set `receive_sequence_` to the segment's end and ACK it.
- `PollSockets` runs `poll` once for every table entry: `cleanup_acknowledged_data`, then `reorder_buffers`.

**Peer and callers.** The peer may send any SYN, ACK, FIN, RST or data segment, with any sequence number in `Seqs`, at any time. This covers a network that loses, duplicates and reorders. The application binds a socket (again if the bind failed), then either listens after a successful bind or connects, and later only closes or aborts it. A listener that calls `connect_socket` makes the code reset it on the next SYN. That is caller misuse, not a bug of the layer.

**Properties.**

- `QueueInOrder`: the receive queue holds consecutive sequence numbers.
- `RneWithinReceived`: `receive_next_expected_` never passes `receive_sequence_`.
- `RegisteredAreListening`: a registered listener is in Listen.
- `AckedIsDelivered`: every byte an ACK has covered is in the receive queue.

**What the runs show.** `process_data` sets `receive_sequence_` to the end of whatever segment arrived. A segment after a gap is therefore ACKed together with the missing bytes, which never reach the queue (`tcp_ack_undelivered`, 3 steps). The peer will not resend them, and `validate_sequence` would reject them now in any case. The same happens when the queue is full: `reorder_buffers` drops the bytes but moves `receive_next_expected_` past them.

Two more facts show in the states but are not stated as properties:

- After an RST, the closed socket stays in `connections_`.
- A second `listen` on the same port silently unregisters the first listener.

### `NetReceive.tla` (with `MC_NetReceive.tla`): IPv4 reassembly composed with UDP demultiplexing

**Composition.** `IPLayer::process_packet` calls the handler that `UDPLayer::init` registers for protocol 17. So one step of the model is one packet carried all the way from IP into a UDP socket's queue. Fragments are pieces `[d, i]` of a fixed set of sent datagrams `Dgram`, with offsets and lengths in the 8-byte units of the offset field. The network delivers any fragment at any time, any number of times.

**IP.**

- `ArriveWhole` is the unfragmented path.
- `ProcessFragment` finds or creates the buffer under `KeyOf`. It stores the fragment at its offset, replacing any fragment there, and sets `total_length` when MF is clear. It then runs the completeness loop (`Walk`, a fold over the iteration order). A complete buffer is copied out in the same order, passed to UDP, and erased.
- `KeyOf` is the code's u64 key: the source is shifted left by 32, 16 and 8, so only its low byte survives.
- `fragments` is a `HashMap`, whose iteration order is not under `src/`. `IterOrders` is the sorted order when `SortedFragments` holds, as spec.md §4.G describes, and any order otherwise.
- `Tick` ages the buffers, and `ReassemblePackets` (`IPLayer::poll`) deletes those idle longer than `Timeout`. Nothing under `src/` calls `IPLayer::poll`, so it is an operation that may run at any time, or never.

**UDP.** `DeliverUdp` is `process_udp_packet` followed by `queue_datagram`. The UDP header is read from the first piece of the packet. The length is checked against the packet size. The table is looked up by exact `<<destination, port>>`, so a socket bound to 0.0.0.0 receives nothing, as spec.md §4.H says. A connected socket filters on its peer. `Bind`, `Connect`, `Close` and `ReceiveFrom` are the socket calls:

- `bind` sets the address and port before `bind_socket` can refuse them.
- `close` empties the queue.
- port 0 (`allocate_port`) is not among the inputs.

**Properties.**

- `QueuedAreSent`: every queued datagram is one a host sent, whole, from its real source.
- `QueueMatchesBinding`: a queue holds only datagrams for the socket's current port.
- `TableMatchesSockets`: the bound-socket table and the sockets' own address, port and `bound_` agree.
- `NoCompleteBufferPending` (spec.md §8): no buffer waits holding exactly the fragments of one datagram.
- `TypeOK` bounds `total_length` by the end of the last fragment sent.

**What the runs show.**

- Datagrams from 1 and 257 with the same id share a reassembly key. A fragment of each completes a buffer that mixes the two, and it is delivered with the first one's source (`ip_fragment_key_collision`, 4 steps).
- With `SortedFragments` = FALSE, TLC finds `NoCompleteBufferPending` violated on the first two fragments: a hash order that visits offset 1 before 0 breaks the completeness loop, and the datagram waits until the timeout. This is kept as a hazard, because the order depends on `HashMap`, which is not under `src/`.

### `EthernetRing.tla`: the e1000 TX and RX descriptor rings, with the NIC as a second actor

**State.**

- Both rings: the descriptors (`txDesc`, `rxDesc`), each holding the frame in its buffer and the DD status bit.
- The driver's `tx_index_`, `tx_clean_index_` and `rx_index_`.
- The values last written to TDT and RDT, and the NIC's heads TDH and RDH.
- Ghosts: `sent` (frames `send` accepted), `wire` (frames the NIC transmitted), and `arrived` and `delivered` on the receive side.

**Actions.**

- `Send` is the whole of `send`:
  - `cleanup_tx_descriptors` (`CleanEnd`, `Cleaned`);
  - the DD test on the slot at `tx_index_`;
  - the descriptor write;
  - `tx_index_++`;
  - the write of the unwrapped `tx_index_` to TDT.
- `ProcessPackets` is `process_packets` calling `receive(…, 0)` and handing the frame to the callbacks. `Receive` re-arms the slot and writes RDT.
- `NicTransmit` and `NicReceive` are the hardware:
  - The NIC owns the slots from its head up to the tail, read modulo the ring size (`Owned`), which is the reading most favourable to the driver.
  - A frame that finds no owned RX slot is dropped.

**Property.** `SentFramesEnqueued` (spec.md §8): every frame `send` accepted is on the wire, or in a descriptor the NIC owns.

**What the runs show.** `send` has no ring-full test (`eth_tx_ring_full`, 2 steps). With a ring of 2, the second send writes TDT = 2, which the NIC reads as its head, 0. The ring then looks empty, and the frame `send` returned true for is never transmitted. One send later, a pending descriptor is overwritten.

**Receive never starts.** `init_descriptors` writes RDH but never RDT, so RDT = RDH = 0, and the NIC owns no receive descriptor. `NicReceive` only drops, and `ProcessPackets` is never enabled: `process_packets`, with timeout 0, spins for ever. This is recorded as a hazard. No pass run checks this module, because from the code's initial state its receive actions cannot fire.

### `Ahci.tla`: controller probe and the slot-0 command path, with the HBA as a second actor

**State.**

- `probe`: the port `AHCIController::init`'s loop is at.
- `ports` is `ports_` (`PortInfo`: the hardware port, `sector_count`, `supports_48bit`).
- Per hardware port:
  - the command list base installed;
  - PxCMD.ST;
  - slot 0's command (`table`);
  - PxCI bit 0;
  - PxIS.TFES;
  - the command the HBA has fetched.
- `drv`: the one caller waiting on PxCI, since every call holds the controller lock.
- Ghosts: `served` (commands the HBA performed) and `results` (what each read or write returned).

**Actions.**

- `ProbePort` is `probe_port`:
  - it skips a port without a device, or one whose reset or start fails;
  - otherwise `StartPort` runs, and `identify_device` issues IDENTIFY.
- `ReadSectors` and `WriteSectors` (`Access`) check the range against `ports_[i]`, but use hardware port `i`'s command list. They build the FIS count with `TransferCount`, where 16 or 8 bits are kept and 0 means 65536 or 256, and bound the PRDT at 8 entries. `IssueCommand` is then the first half of `send_command`.
- `CommandDone` is the poll seeing PxCI clear, with TFES meaning failure. For IDENTIFY, success appends to `ports_` and failure runs `stop_port`.
- `CommandTimeout` is the poll giving up. The call returns false, and the command stays issued.
- `HbaFetch` and `HbaComplete` are the hardware. `DeviceErrors` lets a command end with TFES.

**Property.** `IssuedCommandServed` (spec.md §4.E): a read or write that returned true was performed by the HBA of the disk it addressed, as the command that call issued, over the range it asked for.

**What the runs show.** A timed-out command is never cancelled, and slot 0 is reused (`ahci_timeout_reuse`, 10 steps, the first 4 of them the probe):

1. Read 1 is fetched by the HBA, and its poll times out.
2. Read 2 rewrites slot 0 and sets PxCI again.
3. The HBA completes read 1 and clears PxCI.
4. Read 2 returns true for data that was never read.

A call on a misindexed port reaches a stopped or unbased port, and fails or never completes. That is kept as a hazard.

### `ExFat.tla` (with `MC_ExFat.tla`): cluster allocation, FAT chains, the root directory and file handles

**State.**

- `bitmap` is `cluster_bitmap_`.
- `diskBitmap` is the bitmap sector that `allocate_cluster`, `free_cluster_chain` and `init` read and write.
- `fat` is the FAT, one copy.
- `dir` is the root directory cluster's entries, of five kinds:
  - 0x00;
  - a system entry (bitmap, up-case table or label);
  - a file entry (directory or not);
  - a stream extension (first cluster, size);
  - a name entry.
- `handle` maps each `FileHandle` to the name it was opened by, `first_cluster`, `file_size`, `current_offset` and the directory attribute.
- `diskDir` is the root directory cluster as the disk holds it. `rootCache` is that cluster's entry in `cache_`: `"none"`, `"clean"` or `"dirty"`. `dir` is what the volume reads: the cached copy when there is one, otherwise the disk's.
- Sizes are in units, with `ClusterSize` units per cluster.
- FAT values are 0, 0xFFFFFFF7 (`FatBad`) and 0xFFFFFFFF (`FatEnd`). They are negative in the model, so they stay apart from cluster numbers.

**Helpers** (sets of outcomes, since sector I/O may fail when `IoCanFail` is TRUE):

- `AllocOutcomes` is `allocate_cluster`:
  - the memory bit is set, then the bitmap sector, then the FAT entry 0xFFFFFFF7;
  - each failure clears the memory bit and leaves what was already written.
- `FreeOutcomes` is `free_cluster_chain`, which ignores sector failures.
- `WalkChain` and `ExtendChain` are the two loops of `write_cluster_chain`. `ReadWalk` is `read_cluster_chain`.
  - A failed FAT read returns 0xFFFFFFFF (`FatReads`), which ends a walk early.
  - The second loop never links a new cluster into the chain. It writes 0xFFFFFFFF only into the local `first_cluster`, and the next lookup reads 0xFFFFFFF7. So data past the first cluster goes to an orphan cluster, or the write fails.
- `VisibleFrom` (parse), `FindFile`, `ScanFrom` (the loop of truncate, delete and rename) and `FreeSlot` (create's search) read entry sets the way the code does.
  - `NameAt` reads a name of two or more characters together with the entry after it. The name comes back clean only if that entry is 0x00, so a file is found again only while no set follows it.
  - A part of a set past the root cluster is read past the end of the buffer. Its value comes from the constant `Overreads`.

**Actions.**

- `Open(h, nm, create, excl, isDir)`:
  - an entry is found: it is refused on Create with Exclusive, and refused when Directory is asked for on a file;
  - otherwise `CreateFile` allocates a cluster, writes the set at `FreeSlot`, and frees the cluster when that write fails.
- `Mkdir` creates with the Directory attribute and closes at once.
- `Close`, `Read` and `Seek`.
- `Truncate`:
  - shrinking keeps `ClustersNeeded` clusters, ends the chain and frees the rest;
  - growing writes at most a cluster at a time, and the first failure returns false;
  - afterwards the handle takes the size, and so does the stream entry of the first set named like the handle. `FileHandle` has no `name` member, so the model reads `file->name` as the name the handle was opened by.
- `Write` truncates to the new end first when needed, then writes and advances.
- `Unlink` (= `Rmdir` = `DeleteDirectoryEntry`) zeroes the set and writes it back. It never frees the file's clusters, because it reads `first_cluster` after the memset.
- `Rename` rewrites the name entry of the first set named `old`. It does not check `new`.
- Every action that reads the directory goes through `read_cluster`. A miss puts a clean copy in the cache, unless `put_cached_cluster`'s kmalloc fails (`CacheCanFail`). This is `DirRead`.
- Every action that writes the directory back goes through `write_cluster` (`DirWritten`). A hit copies into the cache entry and sets `dirty`. A miss writes the sectors through to disk, then caches a clean copy. `AllocOutcomes` and `FreeOutcomes` write bitmap and FAT sectors straight to disk.
- `Sync` is `sync` → `flush_cache`. It writes a dirty entry's sectors, ignores each `write_sector` result (a failure is possible when `IoCanFail` is TRUE, as for every other sector write) and clears `dirty`.
- `Remount` is a crash followed by `init`:
  - memory is lost, including handles, the cache and `cluster_bitmap_`, and no destructor flush runs;
  - the bitmap is read back from disk, and the directory is whatever the disk holds.
- Refusals and failures that change nothing are not steps.

**Properties.**

- `DiskBitmapCoversMemory`: the on-disk bitmap claims every cluster the in-memory bitmap does. Allocation and free order their writes so that a failed sector write leaves the disk claiming more, never less. The next mount reads the disk bitmap.
- `EntriesOwnDistinctClusters`: each stream entry in the root directory names an allocated cluster, and no two name the same one. `Remount` is always possible, so this is also checked for the disk image after a crash at any point, including after a sync whose writes failed. The directory on disk may be older than the FAT and bitmap, which were written through.

**What the runs show.**

- Truncating a written file to 0 frees the cluster its entry still names (`exfat_truncate_zero`, 3 steps).
- A straddling set rolled back by `open` leaves the same kind of cross-link. It needs `DirSlots = 7` and is kept as a hazard.
- The run explores the other defects, but none of them breaks these two properties:
  - a lookup misses a file once another follows it, and `open` with Create then makes a second entry of the same name;
  - unlink leaks the file's clusters;
  - orphan clusters;
  - a handle offset past the end after a shrink.
- Each of these is listed as a hazard.
- A sync does not make the directory durable. `flush_cache` clears `dirty` whatever `write_sector` returns, so after create and a sync whose sector write fails, the cache is clean but the disk lacks the file, and a crash loses it. No run states this, for want of a run slot; it is kept as a hazard. What the pass run does check is that such a loss never leaves an entry naming a free or shared cluster.
- A crash before a sync loses the files created since the last sync. Their clusters stay allocated in the disk bitmap, which is a leak and not a cross-link. Unlinks are lost the same way.
- `allocate_cluster`, `free_cluster_chain` and `init` address the bitmap at `cluster_heap_start + 2 * sectors_per_cluster`, which is cluster 4's first sector, not cluster 2's. The modelled volume therefore keeps its allocation bitmap in cluster 4 (the up-case table in 2, the root directory in 3). That is a valid exFAT layout, since the bitmap's cluster is named by its directory entry, and on it the sector the code uses really is the bitmap. Cluster 4 is allocated from the start, so the zero-fill `allocate_cluster` does never writes it.
- On the layout `mkfs.exfat` produces (bitmap in cluster 2, root directory in 4), the code takes the root directory's first sector for the bitmap. The first allocation of cluster 4 would zero-fill it too. The model cannot show this without the contents of data clusters, so it is kept as a hazard.

## Runs

| Run | Config | Expect | What it shows |
|---|---|---|---|
| `pmm` | `pmm.cfg` | pass | The memory map has two regions of 4 and 3 pages (`MaxRegions` = 2), plus an aligned Reserved entry inside the first region, a Free entry dropped for exceeding the region limit, and a BadMemory entry outside every region. Requests are 1 or 2 pages; aligned requests are `<<1,4>>`, `<<2,2>>` and `<<1,1>>`. Callers include stray frees and double `free_page` calls. `TypeOK`, `CountersMatchBitmap`, `HeldFramesAllocated`, `AllocIsFirstFit` and the refinement of `FrameAllocator` hold (561 states, depth 9). |
| `sched` | `sched.cfg` | pass | Five Process and five Thread objects, pids 0..3, at most two threads per process, the RoundRobin and RealTime policies. Callers remove before destroying, and stack allocation succeeds. `TypeOK`, `NoProcessLost` and `SchedulerHoldsOnlyLive` hold (461,392 states, about a minute). |
| `sched_idle_never_preempted` | `sched_idle_never_preempted.cfg` | violation of `QueuedThreadDispatched` | `add_thread(kernel main)`. Time passes, then every tick is a no-op because idle is current, so the thread waits forever (spec divergence). |
| `vmm` | `vmm.cfg` | pass | Spaces K and U1, frames 1..14, two user pages, two device frames, a three-page heap with one boot page, and `reference_count` up to 2. `kmalloc_aligned` with each alignment class and `krealloc` of every live block. All six properties hold (34,978 states, about two minutes). |
| `tcp` | `tcp.cfg` | pass | Two application sockets, one socket for `handle_new_connection`, local ports 1 and 2, a peer on port 2, sequence numbers 0..2, data of 1 or 2 bytes, a window of 3, a queue of 2 bytes, up to 3 buffers per socket, and an IP send that may fail. `TypeOK`, `QueueInOrder`, `RneWithinReceived` and `RegisteredAreListening` hold (221,498 states, under a minute). |
| `tcp_ack_undelivered` | `tcp_ack_undelivered.cfg` | violation of `AckedIsDelivered` | `bind`, `connect`, then data `[1,2)` arrives before byte 0: the ACK covers byte 0, which is never delivered (a code bug). |
| `netrx` | `netrx.cfg` | pass | Datagrams dA and dB (two fragments each, same source, different ids) and dC (whole, another port), two sockets, addresses 0 and 10, ports 53 and 54, two peers, `Timeout` = 1, queues of 2. All five properties hold (122,381 states, 25 s). |
| `ip_fragment_key_collision` | `ip_fragment_key_collision.cfg` | violation of `QueuedAreSent` | dB from 257 with dA's id: one fragment of each is reassembled into one datagram, delivered under dA's source (a code bug). |
| `eth_tx_ring_full` | `eth_tx_ring_full.cfg` | violation of `SentFramesEnqueued` | Ring of 2, two sends: TDT = 2 reads as the head 0, so the NIC sees an empty ring and an accepted frame is never transmitted. |
| `ahci_timeout_reuse` | `ahci_timeout_reuse.cfg` | violation of `IssuedCommandServed` | One port, polls that may time out: read 1's poll gives up with the command still issued, read 2 reuses slot 0 and returns true on read 1's completion. |
| `exfat` | `exfat.cfg` | pass | Five clusters (up-case table, root, bitmap and two free), clusters of 2 units, a root cluster of 8 entries after 2 system entries, one handle, names `nA` (one character) and `nB` (longer), reads and writes of 1 or 2 units, truncates to 1 or 3, failing bitmap, FAT and flush sector I/O, a cache that may fail to take the root cluster, sync, and crash with remount. `TypeOK`, `DiskBitmapCoversMemory` and `EntriesOwnDistinctClusters` hold (256,570 states, under a minute and a half). |
| `exfat_truncate_zero` | `exfat_truncate_zero.cfg` | violation of `EntriesOwnDistinctClusters` | `open` with Create, `write` of one unit, `truncate` to 0: the file's only cluster is freed while its directory entry still names it (a code bug). |

**Bounds.**

- Seven frames in two regions are enough to give a region with a reserved hole, a region that begins aligned to twice the page size, and runs that fit in one region but not the other.
- Requests of one and two pages are enough for a multi-page run to be broken by a used page.
- Every frame can be held, freed, and double-freed, so all the early returns of the free paths are reached.

**Scheduler bounds.**

- Three fresh Process objects and two fresh Thread objects are enough for creation to fail or succeed, for a process to reach its thread limit of 2, and for pids to wrap twice in a pid space of 4.
- Two policies give two bands, so the cursor and the band order both matter.
- The violation runs use smaller pools (one fresh process and one fresh thread).

**VMM bounds.**

- Two spaces (the kernel's and one user space) are enough to create, switch to and destroy a space. With three, the run did not finish in ten minutes.
- `MaxRefs` = 2 allows one switch on top of creation.
- Fourteen frames let the pool be exhausted by a user tree of four tables and the heap, so both rollback paths of `kmalloc` are reached.
- Two user pages share a page table, so `map_pages` can fail half-way and pruning has a sibling to consider.

**TCP bounds.**

- One peer port and two local ports are enough for two sockets to share a port, and for a listener and a connection to meet in the tables.
- Sequence numbers 0..2 with data of 1 or 2 bytes give gaps, overlaps, duplicates and segments outside the window of 3.
- A queue of 2 bytes fills. With 3 buffers per socket, out-of-order data waits for its predecessor.

**NetReceive bounds.**

- Two fragmented datagrams from one host are the smallest set in which the id alone separates the keys, so a key that drops it (the `KeyNoId` mutant) mixes them.
- The unfragmented dC covers the direct path and a second port.
- `Timeout` = 1 lets a buffer expire between two fragments, and lets a late fragment recreate it.
- Queues of 2 let a queue hold datagrams across a `connect`, and across a close followed by a rebind.

**Ethernet bounds.** A ring of 2 with 3 sends is the smallest in which the ring fills and then wraps. Two arriving frames exercise the drop path.

**exFAT bounds.**

- Two free clusters are enough for two files, or for one file and an overflow cluster. Allocation then fails for lack of space as well as for I/O.
- The root cluster holds 8 entries after 2 system entries, so two entry sets fill it exactly, and a third create appends its whole set in an overflow cluster.
- With a cluster of 2 units, a write of 2 units at offset 1 crosses a cluster boundary. Truncating to 1 or 3 then both shrinks and grows.
- One handle can be kept open across `unlink`, `rename` and a truncate that changes the file under it. A second handle adds only handle-to-handle staleness, and no property is about that. With two handles and the cache and crash state, the run grows past a million states. `exfat_truncate_zero` keeps two handles.
- `Sync` and `Remount` can happen between any two operations, so the disk directory can be any directory the volume has shown since the last sync.
- The run's truncate sizes exclude 0, which `exfat_truncate_zero` covers.
- A set that straddles the root cluster's end needs `DirSlots` ≢ `Prefix` (mod 3). With `DirSlots = 7`, TLC finds `EntriesOwnDistinctClusters` violated (see the hazards).

**AHCI bounds.** The violation needs one port and two calls.

**Fairness.**

- None is assumed for the PMM, the VMM, TCP, NetReceive, EthernetRing, Ahci or ExFat: every property of theirs is a safety property.
- For the scheduler, `FairSpec` assumes weak fairness of `Tick` and `Elapse` only. The PIT interrupt calls `on_timer_tick` periodically, and the TSC always advances.
- No fairness is assumed for callers, because they may stop calling.

## Plan

Every item below is a component listed in `PROJECT.json` whose status is not yet `modelled`. The order is by how much the code exposes to a model checker.

1. **Scheduler**. This is done (see above). What remains is the switch path, which the code reaches only once dispatch away from the idle thread is fixed.
2. **VMM and heap**. This is done (see above). What remains:
   - the heap word before a block that `kfree` reads as a header; the code never writes it for a plain block, so its value is undefined;
   - a two-CPU model of `destroy_address_space` racing `switch_address_space`.
3. **TCP**. This is done as far as the code can reach (see above). What remains:
   - the Established paths, which become reachable only once `process_ack` completes the handshake;
   - a lock-order model of `close`/`close_socket` against `poll_sockets`.
4. **IP and UDP receive path**. This is done (see above). What remains:
   - routing and `send_packet`;
   - `allocate_port` for port 0, in both layers;
   - the UDP lock order (`close` takes `queue_lock_` then `lock_`, while `process_packet` takes `lock_` then `queue_lock_`).
5. **Ethernet rings**. This is done for `send`, `receive` and `process_packets` (see above). What remains:
   - a receive model that starts from an RDT the code would have to write;
   - the `length - 4` underflow in `receive`;
   - the locks of `poll_devices` and `process_packets`.
6. **AHCI**. This is done for the probe and the slot-0 command path (see above). What remains:
   - the alternate driver in `unnamed/part_003`;
   - `identify_device` freeing its buffer on a timeout while DMA may still write to it.
7. **exFAT**. This is done for the bitmap, the FAT, the root directory and the file operations (see above). What remains:
   - cache eviction at 64 entries, which writes a dirty victim back and ignores failures as `flush_cache` does, and the cache entries of data clusters;
   - `opendir`/`readdir`, `stat` and `get_space_info`;
   - an invariant that every allocated cluster is reachable from an entry. Deletes, orphan clusters and overflowing directory writes break it.

## What is not modelled, and why

- **Bootloader and kernel entry.** These are hardware set-up and a fixed sequential init order.
- **Logging.** It only formats output.
- **Library types (`SpinLock`, `Mutex`, `Bitmap`, `HashMap`).** These are not in `src/`, so the models only state the assumptions they make about them.
- **exFAT cache, data and metadata details.**
  - The cluster cache is modelled only for the root directory's cluster. File data is not modelled, so the cache entries of data clusters hold nothing a property reads. Eviction needs 64 cached clusters, which is far past the model's four.
  - File contents, timestamps, checksums and the name hash are left out. No property reads them.
  - `detect` and mount only validate the boot sector.
  - `lock_` is a `Mutex` from outside `src/`, and `open`, `write` and `mkdir` take it again through the helpers they call. The model takes it to be re-entrant.
- **PMM `merge_free_regions`.** It is excluded by the choice of memory maps. Its effect depends on `Bitmap` past its size, which is not under `src/`.
