------------------------------ MODULE Scheduler ------------------------------
(***************************************************************************)
(* The task subsystem of nanokoton, src/kernel/mm/vitural.cc (the part     *)
(* after the VMM) and src/include/nanokoton/task/scheduler.hpp:            *)
(*   Thread, Process, ProcessManager (lines 608-1060) and                  *)
(*   Scheduler (lines 1068-1460).                                          *)
(*                                                                         *)
(* Thread and Process objects are model values drawn from pools; an object *)
(* is "Unused" before its constructor runs and "Deleted" after delete.     *)
(* The kernel heap is a bump allocator, so an object address (and so a     *)
(* thread id, which is its address) is never reused.  PIDs live in a       *)
(* counter of PidSpace values standing for the u64 next_pid_.  Every       *)
(* public operation runs under its object's lock and is one action.        *)
(***************************************************************************)
EXTENDS Integers, Sequences, FiniteSets, SequencesExt

CONSTANTS
    Tids,           \* pool of Thread objects
    Procs,          \* pool of Process objects
    IdleProc, IdleMain, IdleThread, KernelProc, KernelMain,
    PidSpace,       \* values of next_pid_ (2^64 in the kernel)
    ThreadsLimit,   \* limits_.threads_limit
    StackAllocCanFail,  \* kmalloc of a thread stack may fail
    RemoveBeforeDestroy, \* callers take a thread out of the scheduler before deleting it
    NoProc, NoThread,   \* nullptr
    Policies            \* policies passed to set_scheduling_policy


ASSUME NoProc \notin Procs /\ NoThread \notin Tids
ASSUME {IdleMain, IdleThread, KernelMain} \subseteq Tids /\ {IdleProc, KernelProc} \subseteq Procs
ASSUME Policies \subseteq {"RoundRobin", "RealTime", "Fair"}
ASSUME PidSpace \in Nat /\ PidSpace >= 3 /\ ThreadsLimit \in Nat \ {0}

Pids == 0 .. PidSpace - 1
ThreadStates == {"Created", "Ready", "Running", "Blocked", "Sleeping", "Dead"}
ProcStates == {"Created", "Ready", "Running", "Zombie", "Dead"}
Bands == 0 .. 3

VARIABLES
    table,      \* ProcessManager::processes_ : pid -> Process
    nextPid,    \* ProcessManager::next_pid_
    pstate,     \* Process::state_, or "Unused" / "Deleted"
    pthreads,   \* Process::threads_
    pmain,      \* Process::main_thread_
    tstate,     \* Thread::state_, or "Unused" / "Deleted"
    tproc,      \* Thread::process_
    tstack,     \* Thread::stack_ # nullptr
    queues,     \* Scheduler::run_queues_[b].threads
    cursor,     \* Scheduler::run_queues_[b].current_index
    current,    \* Scheduler::current_thread_
    policy,     \* Scheduler::policy_
    sliceUp,    \* read_tsc() - last_schedule_time_ > time slice
    due,        \* read_tsc() >= Thread::sleep_until_
    added       \* ghost: threads the callers passed to add_thread and not to remove_thread

pmVars == <<table, nextPid, pstate, pthreads, pmain>>
thVars == <<tstate, tproc, tstack>>
scVars == <<queues, cursor, current, policy, sliceUp, due>>
sysVars == <<pmVars, thVars, scVars>>
vars == <<sysVars, added>>

LiveThread(t) == tstate[t] \notin {"Unused", "Deleted"}
LiveProc(p) == pstate[p] \notin {"Unused", "Deleted"}
InTable(p) == \E pid \in Pids : table[pid] = p
Queued(t) == \E b \in Bands : \E i \in DOMAIN queues[b] : queues[b][i] = t

-----------------------------------------------------------------------------
(* ProcessManager and Process.                                             *)

\* allocate_pid: skip pids in use, wrapping past 0 to 1; return the pid
\* found and post-increment next_pid_ (which may wrap to 0).
RECURSIVE PidScan(_)
PidScan(n) ==
    IF table[n] = NoProc THEN n
    ELSE PidScan(IF (n + 1) % PidSpace = 0 THEN 1 ELSE n + 1)

\* Faulty variant of AllocatePid: next_pid_ is returned without the search.
AllocatePidNoScan == nextPid

AllocatePid == PidScan(nextPid)

\* The outcomes of new Thread(...) as create_thread sees them.  A failed
\* stack allocation returns from the constructor before registers_ is
\* assigned (it is not in the initialiser list), so get_registers() reads
\* uninitialised heap memory: null (rejected) or not (accepted, no stack).
ThreadOutcomes ==
    {"ok", "rejected"} \cup (IF StackAllocCanFail THEN {"nostack"} ELSE {})

\* Process::create_thread for process p, thread object t, with outcome o.
\* Returns the updated thread part of the state and the result.
CreateThreadIn(p, t, o, th) ==
    IF Cardinality(th.threads[p]) >= ThreadsLimit THEN [th EXCEPT !.res = NoThread]
    ELSE IF o = "rejected"
    THEN [th EXCEPT !.tstate[t] = "Deleted", !.res = NoThread]
    ELSE [th EXCEPT !.tstate[t] = IF o = "ok" THEN "Ready" ELSE "Created",
                    !.tproc[t] = p,
                    !.tstack[t] = (o = "ok"),
                    !.threads[p] = @ \cup {t},
                    !.main[p] = IF @ = NoThread THEN t ELSE @,
                    !.res = t]

ThreadPart == [tstate |-> tstate, tproc |-> tproc, tstack |-> tstack,
               threads |-> pthreads, main |-> pmain, res |-> NoThread]

SetThreadPart(th) ==
    /\ tstate' = th.tstate /\ tproc' = th.tproc /\ tstack' = th.tstack
    /\ pthreads' = th.threads /\ pmain' = th.main

\* ProcessManager::create_process: allocate a pid, construct the Process
\* (address space, then main thread), and keep it only if both succeeded.
CreateProcess(p, t, asOk, o) ==
    LET pid == AllocatePid
        th  == CreateThreadIn(p, t, o, ThreadPart)
        ok  == asOk /\ th.res # NoThread
    IN /\ nextPid' = (pid + 1) % PidSpace
       /\ IF ~asOk
          THEN /\ pstate' = [pstate EXCEPT ![p] = "Deleted"]
               /\ UNCHANGED <<table, pthreads, pmain, thVars>>
          ELSE /\ SetThreadPart(th)
               /\ pstate' = [pstate EXCEPT ![p] = IF ok THEN "Ready" ELSE "Deleted"]
               /\ table' = IF ok THEN [table EXCEPT ![pid] = p] ELSE table
       /\ UNCHANGED scVars

\* delete of a Process: ~Process deletes every thread in threads_.
DeleteProcs(P) ==
    /\ pstate' = [q \in Procs |-> IF q \in P THEN "Deleted" ELSE pstate[q]]
    /\ tstate' = [t \in Tids |-> IF \E q \in P : t \in pthreads[q] THEN "Deleted" ELSE tstate[t]]
    /\ table' = [pid \in Pids |-> IF table[pid] \in P THEN NoProc ELSE table[pid]]

\* ProcessManager::destroy_process: mark Zombie, then cleanup_zombies
\* deletes every Zombie process at once.
DestroyProcess(pid) ==
    LET p == table[pid]
    IN /\ p # NoProc
       /\ DeleteProcs({p} \cup {q \in Procs : LiveProc(q) /\ pstate[q] = "Zombie"})
       /\ UNCHANGED <<nextPid, pthreads, pmain, tproc, tstack, scVars>>

\* Process::create_thread called on a live process.
CreateThread(p, t, o) ==
    LET th == CreateThreadIn(p, t, o, ThreadPart)
    IN /\ SetThreadPart(th)
       /\ UNCHANGED <<table, nextPid, pstate, scVars>>

\* Process::destroy_thread: delete the thread and drop it from threads_.
DestroyThread(p, t) ==
    /\ t \in pthreads[p]
    /\ tstate' = [tstate EXCEPT ![t] = "Deleted"]
    /\ pthreads' = [pthreads EXCEPT ![p] = @ \ {t}]
    /\ pmain' = [pmain EXCEPT ![p] = IF @ = t THEN NoThread ELSE @]
    /\ UNCHANGED <<table, nextPid, pstate, tproc, tstack, scVars>>

-----------------------------------------------------------------------------
(* Scheduler.  Its helpers act on a record of the scheduler's view:        *)
(* q, cur (queues and cursors), ts (thread states), current, slice, d.     *)

SchedPart == [q |-> queues, cur |-> cursor, ts |-> tstate, current |-> current,
              slice |-> sliceUp, d |-> due]

SetSched(s) ==
    /\ queues' = s.q /\ cursor' = s.cur /\ tstate' = s.ts
    /\ current' = s.current /\ sliceUp' = s.slice /\ due' = s.d

\* calculate_priority: the band of the current policy (the Priority
\* policy calls a Thread::get_priority that does not exist, so it is left out).
Band(pol) == CASE pol = "RealTime" -> 0 [] pol = "Fair" -> 2 [] OTHER -> 1

\* validate_thread
Valid(s, t) ==
    /\ t # NoThread /\ s.ts[t] \notin {"Dead", "Deleted"}
    /\ tproc[t] # NoProc /\ pstate[tproc[t]] \notin {"Zombie", "Dead", "Deleted"}

\* add_thread: validate, set Ready, append to the policy's band.
AddS(s, t) ==
    IF ~Valid(s, t) THEN s
    ELSE [s EXCEPT !.ts[t] = "Ready", !.q[Band(policy)] = Append(@, t)]

\* cleanup_dead_threads: delete the Dead threads found in the queues.
Cleanup(s) ==
    LET dead == {t \in Tids : s.ts[t] = "Dead" /\ \E b \in Bands : t \in ToSet(s.q[b])}
    IN [s EXCEPT !.q = [b \in Bands |-> SelectSeq(@[b], LAMBDA t : t \notin dead)],
                 !.ts = [t \in Tids |-> IF t \in dead THEN "Deleted" ELSE @[t]],
                 !.current = IF @ \in dead THEN IdleThread ELSE @]

\* One band of select_next_thread: k more entries to look at from the cursor.
RECURSIVE ScanBand(_, _, _)
ScanBand(s, b, k) ==
    IF k = 0 THEN [s |-> s, next |-> NoThread]
    ELSE LET c  == s.cur[b]
             t  == s.q[b][c + 1]
             s1 == [s EXCEPT !.cur[b] = (c + 1) % Len(s.q[b])]
         IN IF Valid(s1, t) /\ s1.ts[t] = "Ready" THEN [s |-> s1, next |-> t]
            ELSE IF Valid(s1, t) /\ s1.ts[t] = "Sleeping" /\ s1.d[t]
            THEN [s |-> [s1 EXCEPT !.ts[t] = "Ready"], next |-> t]
            ELSE ScanBand(s1, b, k - 1)

RECURSIVE SelectFrom(_, _)
SelectFrom(s, b) ==
    IF b > 3 THEN [s |-> s, next |-> IdleThread]
    ELSE IF s.q[b] = <<>> THEN SelectFrom(s, b + 1)
    ELSE LET r == ScanBand([s EXCEPT !.cur[b] = @ % Len(s.q[b])], b, Len(s.q[b]))
         IN IF r.next # NoThread THEN r ELSE SelectFrom(r.s, b + 1)

\* select_next_thread: reap, then scan the bands in order; idle if none.
SelectNext(s) == SelectFrom(Cleanup(s), 0)

\* switch_to_thread: a Running outgoing thread (not idle) is set Ready
\* and passed to add_thread; the incoming one is set Running and its
\* slice starts.
Switch(s, t) ==
    IF t = NoThread \/ t = s.current THEN s
    ELSE LET old == s.current
             s1  == [s EXCEPT !.current = t]
             s2  == IF old # IdleThread /\ s1.ts[old] = "Running"
                    THEN AddS([s1 EXCEPT !.ts[old] = "Ready"], old) ELSE s1
         IN [s2 EXCEPT !.ts[t] = "Running", !.slice = FALSE]

\* Select and, when the choice differs from the (possibly reset) current
\* thread, switch to it: the tail of yield and of handle_timer_tick.
Reschedule(s) ==
    LET r == SelectNext(s)
    IN IF r.next # NoThread /\ r.next # r.s.current THEN Switch(r.s, r.next) ELSE r.s

UnchangedOutside == UNCHANGED <<pmVars, tproc, tstack, policy>>

AddThread(t) == SetSched(AddS(SchedPart, t)) /\ UnchangedOutside

\* Faulty variant of RemoveThread: the search stops one entry short.
RemoveThreadOffByOne(t) ==
    LET bs == {b \in Bands : \E j \in 1 .. Len(queues[b]) - 1 : queues[b][j] = t}
    IN IF bs = {} THEN UNCHANGED sysVars
       ELSE LET b == Min(bs)
                i == Min({j \in 1 .. Len(queues[b]) - 1 : queues[b][j] = t})
            IN /\ queues' = [queues EXCEPT ![b] = RemoveAt(@, i)]
               /\ current' = IF t = current THEN IdleThread ELSE current
               /\ UNCHANGED <<cursor, tstate, sliceUp, due>> /\ UnchangedOutside

\* Faulty variant of RemoveThread: current_thread_ is cleared to nullptr.
RemoveThreadClearsCurrent(t) ==
    LET bs == {b \in Bands : t \in ToSet(queues[b])}
    IN IF bs = {} THEN UNCHANGED sysVars
       ELSE LET b == Min(bs)
                i == Min({j \in DOMAIN queues[b] : queues[b][j] = t})
            IN /\ queues' = [queues EXCEPT ![b] = RemoveAt(@, i)]
               /\ current' = IF t = current THEN NoThread ELSE current
               /\ UNCHANGED <<cursor, tstate, sliceUp, due>> /\ UnchangedOutside

\* remove_thread: erase the first occurrence; idle becomes current if it
\* was the current thread.
RemoveThread(t) ==
    LET bs == {b \in Bands : t \in ToSet(queues[b])}
    IN IF bs = {} THEN UNCHANGED sysVars
       ELSE LET b == Min(bs)
                i == Min({j \in DOMAIN queues[b] : queues[b][j] = t})
            IN /\ queues' = [queues EXCEPT ![b] = RemoveAt(@, i)]
               /\ current' = IF t = current THEN IdleThread ELSE current
               /\ UNCHANGED <<cursor, tstate, sliceUp, due>> /\ UnchangedOutside

\* yield: nothing while idle runs.
Yield ==
    IF current = IdleThread THEN UNCHANGED sysVars
    ELSE SetSched(Reschedule(SchedPart)) /\ UnchangedOutside

\* sleep(ms): the current thread sleeps until now + ms (already due when
\* ms = 0); select and switch to whatever is selected.
Sleep(ms) ==
    IF current = IdleThread THEN UNCHANGED sysVars
    ELSE LET s0 == [SchedPart EXCEPT !.ts[current] = "Sleeping", !.d[current] = (ms = 0)]
             r  == SelectNext(s0)
         IN SetSched(Switch(r.s, r.next)) /\ UnchangedOutside

\* wake_up(t): a Sleeping thread is set Ready and passed to add_thread.
WakeUp(t) ==
    IF tstate[t] # "Sleeping" THEN UNCHANGED sysVars
    ELSE SetSched(AddS([SchedPart EXCEPT !.ts[t] = "Ready"], t)) /\ UnchangedOutside

\* handle_timer_tick: preempt only a non-idle thread whose slice is used
\* up; then set due sleepers in the queues Ready; then reap.
Tick ==
    LET s0 == IF current # IdleThread /\ sliceUp THEN Reschedule(SchedPart) ELSE SchedPart
        s1 == [s0 EXCEPT !.ts = [t \in Tids |->
                  IF /\ \E b \in Bands : t \in ToSet(s0.q[b])
                     /\ s0.ts[t] = "Sleeping" /\ s0.d[t] THEN "Ready" ELSE @[t]]]
    IN SetSched(Cleanup(s1)) /\ UnchangedOutside

\* Time passes: the slice runs out and some sleepers' wake times pass.
Elapse ==
    \E S \in SUBSET {t \in Tids : tstate[t] = "Sleeping"} :
        /\ sliceUp' = TRUE
        /\ due' = [t \in Tids |-> due[t] \/ t \in S]
        /\ UNCHANGED <<pmVars, thVars, queues, cursor, current, policy>>

\* set_scheduling_policy
SetPolicy(pol) ==
    /\ policy' = pol
    /\ UNCHANGED <<pmVars, thVars, queues, cursor, current, sliceUp, due>>

-----------------------------------------------------------------------------
(* The system after Kernel::init_process_management: Scheduler::init made  *)
(* the idle process (pid 1, main thread plus the idle thread, which is     *)
(* current and Running), then ProcessManager::init made the kernel         *)
(* process (pid 2).  The run queues are empty.                             *)

Init ==
    /\ table = [pid \in Pids |-> CASE pid = 1 -> IdleProc [] pid = 2 -> KernelProc
                                      [] OTHER -> NoProc]
    /\ nextPid = 3 % PidSpace
    /\ pstate = [p \in Procs |-> IF p \in {IdleProc, KernelProc} THEN "Running" ELSE "Unused"]
    /\ pthreads = [p \in Procs |-> CASE p = IdleProc -> {IdleMain, IdleThread}
                                     [] p = KernelProc -> {KernelMain} [] OTHER -> {}]
    /\ pmain = [p \in Procs |-> CASE p = IdleProc -> IdleMain
                                  [] p = KernelProc -> KernelMain [] OTHER -> NoThread]
    /\ tstate = [t \in Tids |-> CASE t = IdleThread -> "Running"
                                  [] t \in {IdleMain, KernelMain} -> "Ready"
                                  [] OTHER -> "Unused"]
    /\ tproc = [t \in Tids |-> CASE t \in {IdleMain, IdleThread} -> IdleProc
                                 [] t = KernelMain -> KernelProc [] OTHER -> NoProc]
    /\ tstack = [t \in Tids |-> t \in {IdleMain, IdleThread, KernelMain}]
    /\ queues = [b \in Bands |-> <<>>]
    /\ cursor = [b \in Bands |-> 0]
    /\ current = IdleThread
    /\ policy = "RoundRobin"
    /\ sliceUp = FALSE
    /\ due = [t \in Tids |-> FALSE]
    /\ added = {}

\* The heap hands out fresh objects; which one is immaterial.
FreshProc == CHOOSE p \in Procs : pstate[p] = "Unused"
FreshThread == CHOOSE t \in Tids : tstate[t] = "Unused"
HasFresh == (\E p \in Procs : pstate[p] = "Unused") /\ (\E t \in Tids : tstate[t] = "Unused")

\* A caller never deletes the running thread (nor so the idle process);
\* when RemoveBeforeDestroy holds it deletes a thread (directly or with its
\* process) only after calling remove_thread on it.
OutOfScheduler(T) ==
    \A t \in T : t # current /\ (RemoveBeforeDestroy => t \notin added)

\* next_pid_ is a u64, so allocate_pid always finds a pid: the search
\* stops at next_pid_ itself or at a free pid other than 0 (it never wraps
\* back to 0).
PidFree == table[nextPid] = NoProc \/ \E pid \in Pids \ {0} : table[pid] = NoProc

Next ==
    \/ /\ HasFresh /\ PidFree /\ UNCHANGED added
       /\ \E asOk \in BOOLEAN, o \in ThreadOutcomes : CreateProcess(FreshProc, FreshThread, asOk, o)
    \/ \E pid \in Pids : /\ table[pid] # NoProc /\ OutOfScheduler(pthreads[table[pid]])
                         /\ DestroyProcess(pid) /\ UNCHANGED added
    \/ \E p \in Procs : /\ InTable(p) /\ HasFresh /\ UNCHANGED added
                       /\ \E o \in ThreadOutcomes : CreateThread(p, FreshThread, o)
    \/ \E p \in Procs, t \in Tids : /\ InTable(p) /\ OutOfScheduler({t})
                                  /\ DestroyThread(p, t) /\ UNCHANGED added
    \/ \E t \in Tids : /\ LiveThread(t) /\ t \notin added
                      /\ AddThread(t) /\ added' = added \cup {t}
    \/ \E t \in Tids : LiveThread(t) /\ RemoveThread(t) /\ added' = added \ {t}
    \/ Yield /\ UNCHANGED added
    \/ \E ms \in {0, 1} : Sleep(ms) /\ UNCHANGED added
    \/ \E t \in Tids : LiveThread(t) /\ WakeUp(t) /\ UNCHANGED added
    \/ Tick /\ UNCHANGED added
    \/ Elapse /\ UNCHANGED added
    \/ \E pol \in Policies : SetPolicy(pol) /\ UNCHANGED added

Spec == Init /\ [][Next]_vars

\* The PIT interrupt keeps calling on_timer_tick and the TSC keeps running.
FairSpec == Spec /\ WF_vars(Tick /\ UNCHANGED added) /\ WF_vars(Elapse /\ UNCHANGED added)

-----------------------------------------------------------------------------
(* Properties.                                                             *)

TypeOK ==
    /\ table \in [Pids -> Procs \cup {NoProc}] /\ nextPid \in Pids
    /\ pstate \in [Procs -> ProcStates \cup {"Unused", "Deleted"}]
    /\ pthreads \in [Procs -> SUBSET Tids] /\ pmain \in [Procs -> Tids \cup {NoThread}]
    /\ tstate \in [Tids -> ThreadStates \cup {"Unused", "Deleted"}]
    /\ tproc \in [Tids -> Procs \cup {NoProc}] /\ tstack \in [Tids -> BOOLEAN]
    /\ queues \in [Bands -> Seq(Tids)] /\ cursor \in [Bands -> Nat]
    /\ policy \in Policies \cup {"RoundRobin"}
    /\ current \in Tids /\ sliceUp \in BOOLEAN /\ due \in [Tids -> BOOLEAN]
    /\ added \subseteq Tids

\* No process object that is alive is missing from processes_: allocate_pid
\* never hands out a pid in use, also after next_pid_ wraps (a reused pid
\* would overwrite the table entry and leak the older process).
NoProcessLost == \A p \in Procs : LiveProc(p) => InTable(p)

\* Every thread the scheduler refers to (run queues, current_thread_) is a
\* live object: remove_thread really takes it out before it is deleted.
SchedulerHoldsOnlyLive ==
    /\ LiveThread(current)
    /\ \A b \in Bands : \A i \in DOMAIN queues[b] : LiveThread(queues[b][i])

\* §4.D and scenario 3: a thread in a run queue is eventually dispatched
\* (becomes current) unless it leaves the queues first.
QueuedThreadDispatched == \A t \in Tids : Queued(t) ~> (current = t \/ ~Queued(t))
=============================================================================
