------------------------------- MODULE Daemon -------------------------------
(***************************************************************************)
(* The daemon that keeps the system's processes running (tools/daemon/     *)
(* daemon.c), for one entry of its configuration with active and guardian  *)
(* set.  The main thread looks for the process once a second and adds up   *)
(* its load; the deal task starts it when it is missing and kills it when  *)
(* its average over a window is too high.  Both work under DaemonLock.     *)
(* Load stands for the percentage of the processor; the memory, summed and *)
(* judged in the same way, is left out.                                    *)
(***************************************************************************)
EXTENDS Naturals, Sequences, FiniteSets

CONSTANTS
    MaxPid,     \* bound: processes started
    MaxSame,    \* MAXSAMEPROC
    Time,       \* samples in a window
    MaxLoad,    \* average at which a process is killed
    Loads,      \* what a sample may show
    Gap,        \* samples between two checks: the deal task sleeps 5 s, main 1 s
    MaxMiss    \* bound: looks at /proc that fail

ASSUME DaemonAssumption ==
    /\ MaxPid \in Nat /\ MaxSame \in Nat \ {0}
    /\ Time \in Nat \ {0} /\ MaxLoad \in Nat \ {0} /\ Loads \subseteq Nat
    /\ Gap \in Nat \ {0} /\ MaxMiss \in Nat

Pids  == 1 .. MaxPid
Slots == 1 .. MaxSame

VARIABLES
    proc,       \* state of the processes: "free", "starting", "run", "dead"
    samenum,    \* samenum
    livestate,  \* livestate
    rtpid,      \* rtpid, 0 for none
    total,      \* rttotalcpu
    times,      \* rttotaltimes
    gap,        \* samples since the last check, up to Gap
    misses,     \* looks at /proc that failed so far
    blind,      \* history: the last look at /proc missed a process that runs
    twice,      \* history: a process was started on the word of such a look
    own,        \* history: load and number of the samples a process itself gave
    unfair      \* history: a process was killed whose own average was below MaxLoad

look == <<misses, blind>>
daemonVars == <<proc, samenum, livestate, rtpid, total, times, gap, look, twice, own, unfair>>

NoSamples == [load |-> 0, n |-> 0]
Zero == [i \in Slots |-> 0]
Running == {p \in Pids : proc[p] = "run"}
Copies == {p \in Pids : proc[p] \in {"starting", "run"}}

DaemonInit ==
    /\ proc = [p \in Pids |-> "free"]
    /\ samenum = 0 /\ livestate = 0
    /\ rtpid = Zero /\ total = Zero /\ times = Zero
    /\ gap = 0
    /\ misses = 0 /\ blind = FALSE /\ twice = FALSE
    /\ own = [p \in Pids |-> NoSamples]
    /\ unfair = FALSE

-----------------------------------------------------------------------------
(* The processes.  One that was started is found by its name once it has   *)
(* replaced the shell, which takes less time than Gap samples do.          *)

Appear(p) ==
    /\ proc[p] = "starting"
    /\ proc' = [proc EXCEPT ![p] = "run"]
    /\ UNCHANGED <<samenum, livestate, rtpid, total, times, gap, look, twice, own, unfair>>

Die(p) ==
    /\ p \in Copies
    /\ proc' = [proc EXCEPT ![p] = "dead"]
    /\ own' = [own EXCEPT ![p] = NoSamples]
    /\ UNCHANGED <<samenum, livestate, rtpid, total, times, gap, look, twice, unfair>>

\* The first n process numbers not used before.
Free     == {p \in Pids : proc[p] = "free"}
Fresh(n) == {p \in Free : Cardinality({q \in Free : q < p}) < n}

\* StartApp, n times, when the processes of dead have been killed.
StartApp(n, dead) ==
    /\ Cardinality(Free) >= n
    /\ proc' = [p \in Pids |-> IF p \in Fresh(n) THEN "starting"
                              ELSE IF p \in dead THEN "dead" ELSE proc[p]]

-----------------------------------------------------------------------------
(* The main thread.                                                        *)

\* It finds the processes of the name.  Fault, bounded by MaxMiss: /proc or a
\* cmdline cannot be opened or read, and what runs is missed.  Bound: not more
\* than the arrays hold.
FindPidByName(found) ==
    /\ found \subseteq Running /\ Cardinality(found) <= MaxSame
    /\ blind' = (found # Running)
    /\ misses' = IF found = Running THEN misses ELSE misses + 1
    /\ misses' <= MaxMiss

\* pidlist, in the order of their numbers, which only grow: that they wrap round
\* is left out.
PidList(found) ==
    {pids \in [1 .. Cardinality(found) -> found] :
        \A i, j \in DOMAIN pids : i < j => pids[i] < pids[j]}

TimeGoesOn == gap' = IF gap < Gap THEN gap + 1 ELSE gap

\* Mutant: livestate is left as it was.
MissingKeepsState ==
    /\ samenum' = 0
    /\ rtpid' = Zero /\ total' = Zero
    /\ UNCHANGED <<livestate, times>>

\* Mutant: the totals are not cleared.
MissingKeepsTotals ==
    /\ samenum' = 0 /\ livestate' = 0
    /\ rtpid' = Zero
    /\ UNCHANGED <<total, times>>

\* No process found: seven of the eight arrays are cleared, rttotaltimes is not.
Missing ==
    /\ samenum' = 0 /\ livestate' = 0
    /\ rtpid' = Zero /\ total' = Zero
    /\ UNCHANGED times

\* loads[i] is what the i-th process shows; without one GetProcStat failed.
Measure(pids, loads) ==
    /\ samenum' = Len(pids) /\ livestate' = Len(pids)
    /\ rtpid' = [i \in Slots |-> IF i \in DOMAIN pids THEN pids[i] ELSE rtpid[i]]
    /\ total' = [i \in Slots |-> IF i \in DOMAIN loads THEN total[i] + loads[i] ELSE total[i]]
    /\ times' = [i \in Slots |-> IF i \in DOMAIN loads THEN times[i] + 1 ELSE times[i]]

SampleMissing ==
    /\ FindPidByName({})
    /\ gap + 1 >= Gap => \A p \in Pids : proc[p] # "starting"
    /\ Missing
    /\ TimeGoesOn
    /\ UNCHANGED <<proc, twice, own, unfair>>

Sample == \E found \in SUBSET Running : \E pids \in PidList(found) :
    /\ found # {} /\ FindPidByName(found)
    /\ gap + 1 >= Gap => \A p \in Pids : proc[p] # "starting"
    /\ \A i \in Slots : times[i] <= Time + Gap
    /\ \E seen \in SUBSET DOMAIN pids : \E loads \in [seen -> Loads] :
         /\ Measure(pids, loads)
         /\ own' = [p \in Pids |->
                      IF \E i \in seen : pids[i] = p
                      THEN LET i == CHOOSE j \in seen : pids[j] = p IN
                           [load |-> own[p].load + loads[i], n |-> own[p].n + 1]
                      ELSE own[p]]
    /\ TimeGoesOn
    /\ UNCHANGED <<proc, twice, unfair>>

-----------------------------------------------------------------------------
(* The deal task: CheckPid.                                                *)

\* Mutant: the deal task looks again without sleeping.
NoSleep == TRUE

\* r_sleep(5)
Slept == gap = Gap

CheckStart ==
    /\ Slept /\ samenum = 0 /\ livestate = 0
    /\ StartApp(1, {})
    /\ livestate' = livestate + 1
    /\ gap' = 0
    /\ twice' = (twice \/ blind)
    /\ UNCHANGED <<samenum, rtpid, total, times, look, own, unfair>>

Judged == {i \in 1 .. samenum : times[i] >= Time}
TooHigh(i) == total[i] \div times[i] >= MaxLoad
OwnAverage(p) == own[p].load >= MaxLoad * own[p].n

\* Mutant: the window of a killed process goes on.
NewWindowAlive(f) == [i \in Slots |-> IF i \in Judged /\ ~TooHigh(i) THEN 0 ELSE f[i]]

\* What was judged is summed up anew.
NewWindow(f) == [i \in Slots |-> IF i \in Judged THEN 0 ELSE f[i]]

\* Every slot with a full window is judged.  kill fails for a process that has
\* died since; one that is killed is started again.
CheckLoad ==
    /\ Slept /\ (samenum # 0 \/ livestate # 0)
    /\ LET over   == {i \in Judged : TooHigh(i)}
           killed == {i \in over : rtpid[i] \in Copies}
           dead   == {rtpid[i] : i \in killed}
           judged == {rtpid[i] : i \in Judged}
       IN /\ StartApp(Cardinality(killed), dead)
          /\ rtpid' = [i \in Slots |-> IF i \in killed THEN 0 ELSE rtpid[i]]
          /\ total' = NewWindow(total)
          /\ times' = NewWindow(times)
          /\ unfair' = (unfair \/ \E p \in dead : ~OwnAverage(p))
          /\ own' = [p \in Pids |-> IF p \in judged THEN NoSamples ELSE own[p]]
    /\ gap' = 0
    /\ UNCHANGED <<samenum, livestate, look, twice>>

-----------------------------------------------------------------------------

Main == SampleMissing \/ Sample
Deal == CheckStart \/ CheckLoad

DaemonNext == Main \/ Deal \/ \E p \in Pids : Appear(p) \/ Die(p)

DaemonSpec == DaemonInit /\ [][DaemonNext]_daemonVars

\* Both threads go on, and a start comes to its end.
DaemonFairSpec ==
    DaemonSpec /\ WF_daemonVars(Main) /\ WF_daemonVars(Deal) /\ \A p \in Pids : WF_daemonVars(Appear(p))

-----------------------------------------------------------------------------

\* The daemon never starts a process that it started before and that still
\* runs, although a start is invisible to the samples for a while.  The exception
\* is a start between a look at /proc that missed the process and the next one.
OneCopy == Cardinality(Copies) <= 1 \/ twice

\* A slot that is judged holds a process: kill is never called with 0, which
\* would kill the daemon itself.
NeverKillsZero == \A i \in Judged : rtpid[i] # 0

\* A process is killed for its own load only, not for what another process
\* left in the slot, a look at /proc that missed it included.  Of two copies the
\* second takes over the slot of the first when that one dies.
KillsGuilty == unfair => twice

\* As long as processes can be started, one is running again and again.
Guarded == []<>(\/ \E p \in Pids : proc[p] = "run"
                \/ \A p \in Pids : proc[p] # "free")
=============================================================================
