------------------------------ MODULE SmpBoot -------------------------------
(***************************************************************************)
(* Starting the other processors: smp_init on the boot processor (BSP) and *)
(* the trampoline and smp_c_entry on the others (kernel/arch/x86_64/cpu/   *)
(* smp.cpp, smp_trampoline.asm, lapic.cpp, cpu_data.cpp).  The BSP writes  *)
(* what a processor needs to the words at 0x500, wakes it and polls        *)
(* has_started; the processor reads the words one by one.                  *)
(*                                                                         *)
(* A processor takes any time for each step, also more than the BSP waits, *)
(* or never starts.  A processor measures its timer's speed against        *)
(* lapic_bsp_ticks, which the timer interrupt of every running processor   *)
(* increments, without excluding the others; rates are multiples of        *)
(* INITIAL_FREQ.                                                           *)
(*                                                                         *)
(* Definitions whose name starts with Bug are faulty variants of the       *)
(* definition that follows them; no specification uses them.               *)
(***************************************************************************)
EXTENDS Integers, Sequences, FiniteSets, FiniteSetsExt

CONSTANT MaxPolls   \* polls of has_started before the BSP gives up

ASSUME MaxPollsAssumption == MaxPolls \in Nat

VARIABLES
  lapics,         \* MADT entries of local APICs: [id, enabled]; the BSP is 0
  max_cpus,       \* entries of cpu_data
  bsp,            \* where the BSP is
  entry,          \* the MADT entry the BSP is at
  polls,          \* the loop variable of smp_init_single
  smp_core_count,
  has_started,
  data,           \* the words at 0x500: [stack, core, apic]
  cpu_data,       \* core id -> [lapic, stack], as far as filled in
  stacks,         \* stacks allocated; a stack is its number
  pc,             \* where each processor is
  got,            \* the words each processor has read
  rate,           \* timer rate each processor has set, 0 before it has
  late            \* processors the BSP has given up on

smpConf == <<lapics, max_cpus>>
smpVars == <<smpConf, bsp, entry, polls, smp_core_count, has_started, data,
             cpu_data, stacks, pc, got, rate, late>>

Aps == {lapics[i].id : i \in {j \in DOMAIN lapics :
                                lapics[j].enabled /\ lapics[j].id # 0}}

NoData == [stack |-> 0, core |-> 0, apic |-> 0]

\* After lapic_timer_init_bsp: the BSP's timer is at INITIAL_FREQ.
SmpInit ==
  /\ bsp = "setup" /\ entry = 0 /\ polls = 0
  /\ smp_core_count = 0 /\ has_started = 0
  /\ data = NoData
  /\ cpu_data = <<>>
  /\ stacks = 0
  /\ pc = [a \in Aps |-> "off"]
  /\ got = [a \in Aps |-> NoData]
  /\ rate = [a \in Aps \cup {0} |-> IF a = 0 THEN 1 ELSE 0]
  /\ late = {}

Apic == lapics[entry].id

\* prepare_data; beyond the last entry cpu_data_get returns NULL.
prepare_data(cpu, lapic_id, next) ==
  /\ IF cpu >= max_cpus
       THEN bsp' = "fault" /\ UNCHANGED <<cpu_data, stacks>>
       ELSE /\ bsp' = next
            /\ stacks' = stacks + 1
            /\ cpu_data' = [k \in DOMAIN cpu_data \cup {cpu} |->
                 IF k = cpu THEN [lapic |-> lapic_id, stack |-> stacks + 1]
                            ELSE cpu_data[k]]
  /\ UNCHANGED <<entry, polls, smp_core_count, has_started, data, pc, got,
                 rate, late>>

setup_bsp == bsp = "setup" /\ prepare_data(0, 0, "next")

\* Core ids that start with the BSP's.
BugCore == smp_core_count

Core == smp_core_count + 1

\* The loop of smp_init: entries that are disabled or the BSP's are passed.
NextEntry ==
  /\ bsp = "next" /\ entry < Len(lapics)
  /\ entry' = entry + 1
  /\ bsp' = IF lapics[entry + 1].id \in Aps THEN "prepare" ELSE "next"
  /\ UNCHANGED <<polls, smp_core_count, has_started, data, cpu_data, stacks,
                 pc, got, rate, late>>

InitDone ==
  /\ bsp = "next" /\ entry = Len(lapics)
  /\ bsp' = "done"
  /\ UNCHANGED <<entry, polls, smp_core_count, has_started, data, cpu_data,
                 stacks, pc, got, rate, late>>

\* The words at 0x500, one store after the other ...
WriteData(from, to, word, value) ==
  /\ bsp = from /\ bsp' = to
  /\ data' = [data EXCEPT ![word] = value]
  /\ UNCHANGED <<entry, polls, smp_core_count, has_started, cpu_data, stacks,
                 pc, got, rate, late>>

\* ... and has_started, which is not cleared.
BugClearStarted ==
  /\ bsp = "clear" /\ bsp' = "wake"
  /\ UNCHANGED <<entry, polls, smp_core_count, has_started, data, cpu_data,
                 stacks, pc, got, rate, late>>

\* ... and has_started.
ClearStarted ==
  /\ bsp = "clear" /\ bsp' = "wake"
  /\ has_started' = 0
  /\ UNCHANGED <<entry, polls, smp_core_count, data, cpu_data, stacks, pc,
                 got, rate, late>>

\* The INIT and startup messages.
Wake ==
  /\ bsp = "wake" /\ bsp' = "poll"
  /\ polls' = 0
  /\ pc' = [pc EXCEPT ![Apic] = "stack"]
  /\ UNCHANGED <<entry, smp_core_count, has_started, data, cpu_data, stacks,
                 got, rate, late>>

\* No limit on the polls.
BugPoll ==
  /\ bsp = "poll" /\ has_started = 0
  /\ polls' = (polls + 1) % (MaxPolls + 1)
  /\ UNCHANGED <<bsp, entry, smp_core_count, has_started, data, cpu_data,
                 stacks, pc, got, rate, late>>

Poll ==
  /\ bsp = "poll" /\ has_started = 0 /\ polls < MaxPolls
  /\ polls' = polls + 1
  /\ UNCHANGED <<bsp, entry, smp_core_count, has_started, data, cpu_data,
                 stacks, pc, got, rate, late>>

Started ==
  /\ bsp = "poll" /\ has_started = 1
  /\ bsp' = "next"
  /\ smp_core_count' = smp_core_count + 1
  /\ UNCHANGED <<entry, polls, has_started, data, cpu_data, stacks, pc, got,
                 rate, late>>

\* The processor has not come up in time; its core id is used again.
GiveUp ==
  /\ bsp = "poll" /\ has_started = 0 /\ polls = MaxPolls
  /\ bsp' = "next"
  /\ late' = late \cup {Apic}
  /\ UNCHANGED <<entry, polls, smp_core_count, has_started, data, cpu_data,
                 stacks, pc, got, rate>>

\* The start of smp_init_single.
Prepare == bsp = "prepare" /\ prepare_data(Core, Apic, "data")

\* A step of smp_init.
Bsp ==
  \/ setup_bsp \/ NextEntry \/ InitDone \/ Prepare
  \/ WriteData("data", "core", "stack", stacks)
  \/ WriteData("core", "apic", "core", Core)
  \/ WriteData("apic", "clear", "apic", Apic)
  \/ ClearStarted \/ Wake \/ Poll \/ Started \/ GiveUp

\* The trampoline reads a word.
ReadWord(a, word, next) ==
  /\ pc[a] = word
  /\ pc' = [pc EXCEPT ![a] = next]
  /\ got' = [got EXCEPT ![a][word] = data[word]]
  /\ UNCHANGED <<bsp, entry, polls, smp_core_count, has_started, data,
                 cpu_data, stacks, rate, late>>

\* Processors whose timer interrupt increments lapic_bsp_ticks.
Ticking == {0} \cup {a \in Aps : pc[a] = "run"}

\* The timer that is measured is not masked and ticks too.
BugCalibrate(a) ==
  /\ pc[a] = "entry"
  /\ pc' = [pc EXCEPT ![a] = "report"]
  /\ \E r \in 1 .. 1 + MapThenSumSet(LAMBDA b : rate[b], Ticking) :
       rate' = [rate EXCEPT ![a] = r]
  /\ UNCHANGED <<bsp, entry, polls, smp_core_count, has_started, data,
                 cpu_data, stacks, got, late>>

\* smp_c_entry up to the end of lapic_timer_init_ap: 1000 ticks of all
\* processors, less those lost when two increment at once, go by while the
\* timer counts, so that it is taken for slower than it is.
Calibrate(a) ==
  /\ pc[a] = "entry"
  /\ pc' = [pc EXCEPT ![a] = "report"]
  /\ \E r \in 1 .. MapThenSumSet(LAMBDA b : rate[b], Ticking) :
       rate' = [rate EXCEPT ![a] = r]
  /\ UNCHANGED <<bsp, entry, polls, smp_core_count, has_started, data,
                 cpu_data, stacks, got, late>>

Report(a) ==
  /\ pc[a] = "report"
  /\ pc' = [pc EXCEPT ![a] = "sti"]
  /\ has_started' = 1
  /\ UNCHANGED <<bsp, entry, polls, smp_core_count, data, cpu_data, stacks,
                 got, rate, late>>

\* Interrupts are on: the timer ticks.
Enable(a) ==
  /\ pc[a] = "sti"
  /\ pc' = [pc EXCEPT ![a] = "run"]
  /\ UNCHANGED <<bsp, entry, polls, smp_core_count, has_started, data,
                 cpu_data, stacks, got, rate, late>>

Ap(a) ==
  \/ ReadWord(a, "stack", "core")
  \/ ReadWord(a, "core", "apic")
  \/ ReadWord(a, "apic", "entry")
  \/ Calibrate(a) \/ Report(a) \/ Enable(a)

\* cpu_data_init, before smp_init: max_cpus is what the command line says, here
\* anything.  What else arch_entry does leaves smpVars alone.
SetMaxCpus ==
  /\ bsp = "setup" /\ max_cpus' \in Nat
  /\ UNCHANGED <<lapics, bsp, entry, polls, smp_core_count, has_started, data,
                 cpu_data, stacks, pc, got, rate, late>>

SmpNext ==
  \/ SetMaxCpus
  \/ Bsp /\ UNCHANGED smpConf
  \/ \E a \in Aps : Ap(a) /\ UNCHANGED smpConf

SmpSpec == SmpInit /\ [][SmpNext]_smpVars

-----------------------------------------------------------------------------

InC(a) == pc[a] \in {"entry", "report", "sti", "run"}

\* A processor that the BSP has given up on has come up after all.
Straggler == \E a \in late : pc[a] \notin {"off", "stack"}

\* A processor in C code has a stack and a core id of its own, and the entry
\* of cpu_data of that core id is about it, as entry 0 is about the BSP,
\* though the words at 0x500 are the same for all, unless a processor comes up
\* after smp_init_single has given up on it.
OwnCoreAndStack ==
  ~Straggler /\ cpu_data # <<>> =>
    /\ cpu_data[0] = [lapic |-> 0, stack |-> 1]
    /\ \A a \in Aps : InC(a) =>
      /\ cpu_data[got[a].core] = [lapic |-> a, stack |-> got[a].stack]
      /\ got[a].apic = a
      /\ \A b \in Aps \ {a} : InC(b) => /\ got[b].core # got[a].core
                                        /\ got[b].stack # got[a].stack

\* Between two calls of smp_init_single, smp_core_count counts exactly the
\* processors that have set has_started, however long each took.
CountMatches ==
  ~Straggler /\ bsp \in {"next", "prepare", "done"} =>
    smp_core_count = Cardinality({a \in Aps : pc[a] \in {"sti", "run"}})

\* INITIAL_FREQ is met by the first processor started only: ticks are counted
\* by all processors that run, so that each later one may run at up to twice
\* the rate of the one before, and no faster.
RateAtMostDoubles ==
  ~Straggler =>
    \A a \in Aps : rate[a] # 0 => rate[a] \in 1 .. 2 ^ (got[a].core - 1)

=============================================================================
