-------------------------------- MODULE Boot --------------------------------
(***************************************************************************)
(* arch_entry of the x86_64 kernel from cmdline_init to the call of        *)
(* kernel_main (kernel/arch/x86_64/arch_entry.cpp): the command line, the  *)
(* ACPI tables, the interrupt routing, PCI and the other processors.  What *)
(* the firmware says differs between machines.  Machines maps a machine's  *)
(* name to                                                                 *)
(*   low, high   what is where the RSDP may be, [sig, valid] each          *)
(*   rsdt        the tables: [sig, valid] with the entries of a MADT       *)
(*               ("APIC") or the sci_irq of a FADT ("FACP")                *)
(*   functions, roots, nodes   PCI, see module Pci; roots are bus paths    *)
(*   junk        [node, tried, has], the uninitialised fields of a bus,    *)
(*               and [freed], whether freed memory still can be read       *)
(*                                                                         *)
(* The kernel stops where it traps, panics, faults or waits for ever:      *)
(* phase then says why.                                                    *)
(*                                                                         *)
(* Definitions whose name starts with Bug are faulty variants of the       *)
(* definition that follows them; no specification uses them.               *)
(***************************************************************************)
EXTENDS Cmdline, Pci, SmpBoot

CONSTANTS Machines, Cmdlines, DefaultMaxCpus

\* Names of machines with the command lines each is started with.
ASSUME BootAssumption ==
  /\ DOMAIN Cmdlines = DOMAIN Machines
  /\ DefaultMaxCpus \in Nat \ {0}

VARIABLES
  machine,        \* the machine's name
  cmdline,
  phase,          \* what arch_entry does next, or why it has stopped
  arg_list,
  rsdt,           \* the tables, <<>> before they are found
  madt,           \* _madt, NoTable for NULL
  lint,           \* the NMI that each LINT register was last written for
  redirection,    \* I/O APIC entries
  devices,        \* PCI devices
  done,           \* roots enumerated, then devices routed
  calls,          \* calls of enumerate, then the bus that route_irq is at
  config,         \* base address registers of each PCI function
  sci             \* vector of acpi_sci_handler, 0 if there is none

bootVars == <<machine, cmdline, phase, arg_list, rsdt, madt, lint, redirection,
              devices, done, calls, config, sci>>
vars == <<bootVars, smpVars>>

otherRest == <<machine, cmdline, arg_list, rsdt, madt, lint, redirection, sci,
               smpVars>>
pciRest == <<config, otherRest>>

M == Machines[machine]

Ioapics == Entries(madt, "ioapic")
Isos == Entries(madt, "iso")

Init ==
  /\ machine \in DOMAIN Machines /\ cmdline \in Cmdlines[machine]
  /\ phase = "cmdline_init"
  /\ arg_list = <<>> /\ rsdt = <<>> /\ madt = NoTable
  /\ lint = <<0, 0>> /\ redirection = <<>>
  /\ devices = <<>> /\ done = 0 /\ calls = <<>> /\ sci = 0
  /\ config = [f \in DOMAIN M.functions |-> M.functions[f].bars]
  /\ lapics = LET t == acpi_find_table(M.rsdt, "APIC", 0)
              IN  IF t = NoTable THEN <<>> ELSE Entries(t, "lapic")
  /\ max_cpus = 0
  /\ SmpInit

\* A step that changes nothing else: the kernel goes on, or stops.
Goto(next) ==
  /\ phase' = next
  /\ UNCHANGED <<machine, cmdline, arg_list, rsdt, madt, lint, redirection,
                 devices, done, calls, config, sci, smpVars>>

CmdlineInit ==
  /\ phase = "cmdline_init" /\ phase' = "acpi_init"
  /\ arg_list' = cmdline_init(cmdline)
  /\ UNCHANGED <<machine, cmdline, rsdt, madt, lint, redirection, devices,
                 done, calls, config, sci, smpVars>>

Disabled == cmdline_has_value(arg_list, <<"acpi">>, <<"disable">>)
HasRsdp == acpi_find_rsdp(M.low) \/ acpi_find_rsdp(M.high)

\* acpi_init, with madt_init.
acpi_init ==
  /\ phase = "acpi_init"
  /\ \/ Disabled /\ Goto("cpu_data_init")
     \/ ~Disabled /\ ~HasRsdp /\ Goto("no rsdp")
     \/ /\ ~Disabled /\ HasRsdp
        /\ phase' = "cpu_data_init"
        /\ rsdt' = M.rsdt
        /\ madt' = acpi_find_table(M.rsdt, "APIC", 0)
        /\ UNCHANGED <<machine, cmdline, arg_list, lint, redirection, devices,
                       done, calls, config, sci, smpVars>>

Digit(c) == SelectInSeq(<<"0", "1", "2", "3", "4", "5", "6", "7", "8", "9">>,
                        LAMBDA d : d = c) - 1
RECURSIVE Decimal(_, _)
Decimal(str, res) == IF str = <<>> \/ Digit(Head(str)) < 0 THEN res
                     ELSE Decimal(Tail(str), res * 10 + Digit(Head(str)))

\* Signs and spaces in front are left out: no command line has them there.
atoi(str) == Decimal(str, 0)

cpu_data_init ==
  /\ phase = "cpu_data_init" /\ phase' = "lapic_init"
  /\ LET cpu_args == cmdline_get_values(arg_list, <<"cpu">>)
     IN  max_cpus' = IF cpu_args = <<>> THEN DefaultMaxCpus ELSE atoi(cpu_args[1])
  /\ UNCHANGED <<machine, cmdline, arg_list, rsdt, madt, lint, redirection,
                 devices, done, calls, config, sci, lapics, bsp, entry, polls,
                 smp_core_count, has_started, data, cpu_data, stacks, pc, got,
                 rate, late>>

Nmis == Entries(madt, "nmi")
LintsExist == \A i \in DOMAIN Nmis : Nmis[i].lint \in {0, 1}
LastAt(n) == Max({0} \cup {i \in DOMAIN Nmis : Nmis[i].lint = n})

\* lapic_init: madt_get_lapic_base reads through _madt; lapic_nmi_set writes
\* the LINT register of each NMI, whichever processor it is for.
lapic_init ==
  /\ phase = "lapic_init"
  /\ \/ madt = NoTable /\ Goto("no madt")
     \/ madt # NoTable /\ ~LintsExist /\ Goto("invalid lint")
     \/ /\ madt # NoTable /\ LintsExist
        /\ phase' = "ioapic_init"
        /\ lint' = <<LastAt(0), LastAt(1)>>
        /\ UNCHANGED <<machine, cmdline, arg_list, rsdt, madt, redirection,
                       devices, done, calls, config, sci, smpVars>>

\* A pin has an override; ioapic_init then reads it in a copy of the list that
\* is freed already.
ReadsFreed ==
  \E p \in Pins(Ioapics) :
    ioapic_get_iso_by_gsi(Isos, VecAt(Ioapics, p) - FirstVec) # 0

ioapic_init ==
  /\ phase = "ioapic_init"
  /\ \/ ReadsFreed /\ ~M.junk.freed /\ Goto("override gone")
     \/ /\ ReadsFreed => M.junk.freed
        /\ phase' = IF VecsLeft(Ioapics) THEN "timer" ELSE "too many pins"
        /\ redirection' = Redirection(Ioapics, Isos)
        /\ UNCHANGED <<machine, cmdline, arg_list, rsdt, madt, lint, devices,
                       done, calls, config, sci, smpVars>>

\* The PIT is wired to the GSI that the first override of IRQ 0 names.
PitGsi == LET i == IsoByIrq(Isos, 0) IN IF i = 0 THEN 0 ELSE Isos[i].gsi
PitHeard ==
  \E p \in DOMAIN redirection :
    /\ GsiAt(Ioapics, p) = PitGsi /\ ~redirection[p].masked
    /\ redirection[p].vec = ioapic_get_vector_by_irq(Ioapics, Isos, 0)

\* lapic_timer_calc_freq_bsp waits for 1000 interrupts of the PIT.
lapic_timer_calc_freq_bsp ==
  phase = "timer" /\ Goto(IF PitHeard THEN "mask" ELSE "no pit interrupt")

\* ioapic_mask_gsi(ioapic_get_gsi_by_irq(0), 1).
MaskPit ==
  LET gsi == ioapic_get_gsi_by_irq(Isos, 0) IN
    /\ phase = "mask"
    /\ \/ ioapic_get_by_gsi(Ioapics, gsi) = 0 /\ Goto("no ioapic for gsi")
       \/ /\ ioapic_get_by_gsi(Ioapics, gsi) # 0
          /\ phase' = "enumerate"
          /\ redirection' = Masked(redirection, Ioapics, gsi)
          /\ UNCHANGED <<machine, cmdline, arg_list, rsdt, madt, lint, devices,
                         done, calls, config, sci, smpVars>>

At(path, p) == M.functions[<<Number(path), p[1], p[2]>>]
Call(path) == [path |-> path, left |-> Present(M.functions, path)]
Here == Last(calls)
Advance(c) == [c EXCEPT ![Len(c)].left = Tail(@)]

\* The loops of pci_init, over the root buses ...
EnumerateRoot ==
  /\ phase = "enumerate" /\ calls = <<>> /\ done < Len(M.roots)
  /\ calls' = <<Call(M.roots[done + 1])>>
  /\ done' = done + 1
  /\ UNCHANGED <<phase, devices>> /\ UNCHANGED pciRest

\* ... with enumerate, which calls itself for a bridge and pushes the bridge
\* to the list after all that is behind it ...
Visit ==
  /\ phase = "enumerate" /\ calls # <<>> /\ Here.left # <<>>
  /\ ~At(Here.path, Head(Here.left)).bridge
  /\ devices' = Append(devices, Device(Here.path, Head(Here.left)))
  /\ calls' = Advance(calls)
  /\ UNCHANGED <<phase, done>> /\ UNCHANGED pciRest

Descend ==
  /\ phase = "enumerate" /\ calls # <<>> /\ Here.left # <<>>
  /\ At(Here.path, Head(Here.left)).bridge
  /\ LET bus == BusBehind(M.functions, Here.path, Head(Here.left)) IN
       /\ phase' = IF Revisited(bus) THEN "bus loop" ELSE phase
       /\ calls' = Append(calls, Call(bus))
  /\ UNCHANGED <<devices, done>> /\ UNCHANGED pciRest

Ascend ==
  /\ phase = "enumerate" /\ calls # <<>> /\ Here.left = <<>>
  /\ LET up == Front(calls) IN
       \/ up = <<>> /\ calls' = up /\ UNCHANGED devices
       \/ /\ up # <<>>
          /\ devices' = Append(devices, Device(Last(up).path, Head(Last(up).left)))
          /\ calls' = Advance(up)
  /\ UNCHANGED <<phase, done>> /\ UNCHANGED pciRest

AllEnumerated ==
  /\ phase = "enumerate" /\ calls = <<>> /\ done = Len(M.roots)
  /\ phase' = "route" /\ done' = 0
  /\ UNCHANGED <<devices, calls>> /\ UNCHANGED pciRest

\* ... and over the devices.  route_irq starts with the device's own bus; calls
\* holds the bus it is at and the slot, function and pin to look for there.
route_irq ==
  /\ phase = "route" /\ calls = <<>> /\ done < Len(devices)
  /\ LET d == devices[done + 1]
         pin == At(d.path, <<d.slot, d.func>>).pin
     IN  \/ pin = 0 /\ done' = done + 1 /\ UNCHANGED calls
         \/ /\ pin # 0
            /\ calls' = <<[path |-> d.path, slot |-> d.slot, func |-> d.func, pin |-> pin]>>
            /\ UNCHANGED done
  /\ UNCHANGED <<phase, devices>> /\ UNCHANGED pciRest

\* Its loop: on to the parent bus.  The device of a root bus is NULL.
Climb ==
  /\ phase = "route" /\ calls # <<>> /\ Prt(M.nodes, M.junk, Here.path) = NoPrt
  /\ LET bridge == Last(Here.path) IN
       \/ Len(Here.path) = 1 /\ phase' = "no prt" /\ UNCHANGED calls
       \/ /\ Len(Here.path) > 1
          /\ calls' = <<[path |-> Front(Here.path), slot |-> bridge.slot,
                         func |-> bridge.func,
                         pin |-> pci_bridge_pin(Here.pin, bridge.slot)]>>
          /\ UNCHANGED phase
  /\ UNCHANGED <<devices, done>> /\ UNCHANGED pciRest

\* And its end.  A PRT that was never fetched reads as one without entries, or
\* stops the kernel.
Look ==
  /\ phase = "route" /\ calls # <<>>
  /\ LET prt == Prt(M.nodes, M.junk, Here.path) IN
       \/ prt = Junk /\ phase' \in {phase, "wild prt"} /\ UNCHANGED devices
       \/ /\ prt \notin {NoPrt, Junk}
          /\ devices' = [devices EXCEPT ![done + 1] =
                           Routed(Ioapics, @, prt, Here.slot, Here.func, Here.pin)]
          /\ UNCHANGED phase
  /\ calls' = <<>> /\ done' = done + 1
  /\ UNCHANGED pciRest

AllRouted ==
  /\ phase = "route" /\ calls = <<>> /\ done = Len(devices)
  /\ phase' = "bars" /\ done' = 0
  /\ UNCHANGED <<devices, calls>> /\ UNCHANGED pciRest

\* The last loop of pci_init: the registers of a device one after the other.
\* fetch_bar looks at no register of a bridge.
Registers == 1 .. 6
Fetched(regs, n) == FoldLeft(AfterFetch, regs, [i \in 1 .. n |-> i])

FetchBars ==
  /\ phase = "bars" /\ done < Len(devices)
  /\ LET d == devices[done + 1]
         f == <<Number(d.path), d.slot, d.func>>
         bars == [i \in Registers |-> fetch_bar(Fetched(config[f], i - 1), i)]
     IN  IF M.functions[f].bridge THEN UNCHANGED <<devices, config>>
         ELSE /\ devices' = [devices EXCEPT ![done + 1].bars = bars]
              /\ config' = [config EXCEPT ![f] = Fetched(@, 6)]
  /\ done' = done + 1
  /\ UNCHANGED <<phase, calls>> /\ UNCHANGED otherRest

AllFetched == phase = "bars" /\ done = Len(devices) /\ Goto("smp_init")

smp_init ==
  /\ phase = "smp_init"
  /\ \/ Bsp /\ UNCHANGED <<smpConf, bootVars>>
     \/ bsp = "done" /\ Goto("acpi_late_init")
     \/ bsp = "fault" /\ Goto("no cpu_data")

\* acpi_late_init, and the rest of arch_entry.
acpi_late_init ==
  /\ phase = "acpi_late_init" /\ phase' = "kernel_main"
  /\ LET irq == acpi_find_table(rsdt, "FACP", 0).sci_irq
     IN  sci' = IF irq = 0 THEN 0 ELSE ioapic_get_vector_by_irq(Ioapics, Isos, irq)
  /\ UNCHANGED <<machine, cmdline, arg_list, rsdt, madt, lint, redirection,
                 devices, done, calls, config, smpVars>>

\* arch_entry, on the BSP.
arch_entry ==
  \/ CmdlineInit \/ acpi_init \/ cpu_data_init \/ lapic_init \/ ioapic_init
  \/ lapic_timer_calc_freq_bsp \/ MaskPit \/ EnumerateRoot \/ Visit \/ Descend
  \/ Ascend \/ AllEnumerated \/ route_irq \/ Climb \/ Look \/ AllRouted
  \/ FetchBars \/ AllFetched \/ smp_init \/ acpi_late_init

Other(a) == Ap(a) /\ UNCHANGED <<smpConf, bootVars>>

Next == arch_entry \/ \E a \in Aps : Other(a)

\* The BSP runs on; its timer interrupts too, so that every sleep ends.
Spec == Init /\ [][Next]_vars /\ WF_vars(arch_entry)

-----------------------------------------------------------------------------

\* The arguments that cmdline_init finds, written out again, are the command
\* line: no argument and no value is lost, split or made up, whatever the
\* order of spaces, "=" and ",".
ArgsRoundTrip ==
  phase # "cmdline_init" =>
    Joined([i \in DOMAIN arg_list |-> Written(arg_list[i])], " ") = Tidied(cmdline)

\* Pins of the first n I/O APICs.
PinsOf(ioapics, n) ==
  LET sum[k \in 0 .. n] == IF k = 0 THEN 0 ELSE sum[k - 1] + ioapics[k].pins + 1
  IN  sum[n]

\* vec does not pass its width, nor two I/O APICs have the same GSI.
Unwrapped == FirstVec + PinsOf(Ioapics, Len(Ioapics)) <= VecWidth
Gsis(a) == a.gsi_base .. a.gsi_base + a.pins
Solely(p) ==
  \A i \in DOMAIN Ioapics \ {p[1]} : GsiAt(Ioapics, p) \notin Gsis(Ioapics[i])

\* Each I/O APIC follows the one before it in the MADT.
Consecutive == \A i \in DOMAIN Ioapics : Ioapics[i].gsi_base = PinsOf(Ioapics, i - 1)

\* What is programmed into the I/O APICs and what the lookups say agree: a GSI
\* that one pin has is looked up as that pin's vector; no two pins have the
\* same one and none is past the end, unless 8 bits are too few to count them;
\* and a pin has the flags of the override of its GSI, if the I/O APICs are
\* listed in the order of their GSIs.
IrqsAgree ==
  LET programmed == DOMAIN redirection IN
    /\ \A p \in programmed : Solely(p) =>
         redirection[p].vec = ioapic_get_vector_by_gsi(Ioapics, GsiAt(Ioapics, p))
    /\ Unwrapped /\ phase # "too many pins" =>
         /\ \A p \in programmed : redirection[p].vec \in FirstVec .. EndVec - 1
         /\ \A p, q \in programmed : redirection[p].vec = redirection[q].vec => p = q
    /\ Unwrapped /\ Consecutive =>
         \A p \in programmed :
           LET over == SelectSeq(Isos, LAMBDA s : s.gsi = GsiAt(Ioapics, p))
           IN  redirection[p].flags = IF over = <<>> THEN 0 ELSE Head(over).flags

Clean == ~M.junk.node /\ ~M.junk.tried /\ ~M.junk.has

\* How many buses down from the root the bus nearest to a device is, its own
\* included, that has a PRT.
Known(path, n) == \A k \in 1 .. n : SubSeq(path, 1, k) \in DOMAIN M.nodes
WithPrt(path) ==
  {n \in 1 .. Len(path) : Known(path, n) /\ M.nodes[SubSeq(path, 1, n)] # NoPrt}
Nearest(path) == {n \in WithPrt(path) : \A k \in WithPrt(path) : k <= n}

\* The entries of that PRT for the device's pin, which each bridge in between
\* turns by its slot.
Turns(path, n) ==
  LET sum[k \in n .. Len(path)] == IF k = n THEN 0 ELSE sum[k - 1] + path[k].slot
  IN  sum[Len(path)]
Below(d, n) == IF n = Len(d.path) THEN d ELSE d.path[n + 1]
Wanted(prt, below, pin) ==
  {i \in DOMAIN prt : /\ prt[i].slot = below.slot
                      /\ prt[i].func \in {below.func, -1}
                      /\ prt[i].pin = pin}

\* A device has the vector of a pin with that GSI.
HasGsi(d, gsi) ==
  LET pins == {p \in DOMAIN redirection : GsiAt(Ioapics, p) = gsi} IN
    /\ d.gsi = gsi % 256
    /\ d.irq \in IF pins = {} THEN {VecWidth - 1} ELSE {redirection[p].vec : p \in pins}

\* The interrupt that route_irq gives a device is the vector of a pin with the
\* GSI that the PRT has for it, 0xFF if no I/O APIC has the GSI and 0 if the
\* PRT has none; for buses whose fields happened to begin as zero.
RoutedAsSwizzled ==
  Clean /\ phase \in {"route", "bars", "smp_init", "acpi_late_init", "kernel_main"} =>
    \A d \in {devices[i] : i \in 1 .. done} :
      LET own == At(d.path, <<d.slot, d.func>>).pin IN
        \/ own = 0 /\ d.irq = 0 /\ d.gsi = 0
        \/ own # 0 /\ \E n \in Nearest(d.path) :
             \E prt \in {M.nodes[SubSeq(d.path, 1, n)]}, below \in {Below(d, n)},
                pin \in {(own - 1 + Turns(d.path, n)) % 4} :
               \/ Wanted(prt, below, pin) = {} /\ d.irq = 0 /\ d.gsi = 0
               \/ \E i \in Wanted(prt, below, pin) :
                    /\ \A k \in Wanted(prt, below, pin) : i <= k
                    /\ HasGsi(d, prt[i].gsi)

\* The registers of a device that are the upper half of a 64-bit address.
Upper(f) == {i + 1 : i \in {j \in Registers : Is64(M.functions[f].bars[j].value)}}

\* Measuring the BARs, with the device decoding addresses all the while, leaves
\* every register as the firmware has set it.  What is found is a BAR's address
\* and its size less one; the upper half of a 64-bit BAR that is not 0 is taken
\* for a BAR of its own.
BarsMeasured ==
  /\ phase # "cmdline_init" => \A f \in DOMAIN config : config[f] = M.functions[f].bars
  /\ \A i \in DOMAIN devices : devices[i].bars # <<>> =>
       LET f == <<Number(devices[i].path), devices[i].slot, devices[i].func>>
           regs == M.functions[f].bars
       IN  \A k \in Registers \ Upper(f) :
             LET reg == regs[k]
                 wide == Is64(reg.value)
             IN  devices[i].bars[k] =
                   IF reg.value = 0 THEN NoBar
                   ELSE [mmio |-> Mmio(reg.flags),
                         addr |-> reg.value - reg.flags
                                    + IF wide THEN Word * regs[k + 1].value ELSE 0,
                         length |-> IF wide /\ reg.step = Word
                                      THEN Word * regs[k + 1].step - 1
                                      ELSE reg.step - 1]

\* The machines that the code is written for: what the firmware says is there
\* and is consistent.
FirmwareSound(m) ==
  LET t == acpi_find_table(m.rsdt, "APIC", 0)
      ioapics == Entries(t, "ioapic")
      isos == Range(Entries(t, "iso"))
  IN  /\ \E slot \in Range(m.low) \cup Range(m.high) : slot.sig /\ slot.valid
      /\ t # NoTable
      /\ \A e \in Range(Entries(t, "nmi")) : e.lint \in {0, 1}
      /\ FirstVec + PinsOf(ioapics, Len(ioapics)) < EndVec
      /\ \A i, j \in DOMAIN ioapics : i # j => Gsis(ioapics[i]) \cap Gsis(ioapics[j]) = {}
      /\ \E e \in isos : /\ e.bus = 0 /\ e.irq = 0
                         /\ \E a \in Range(ioapics) : e.gsi \in Gsis(a)
                         /\ \A f \in isos : f.irq = 0 => f = e
PciSound(m) ==
  /\ \A r \in Range(m.roots) : r \in DOMAIN m.nodes /\ m.nodes[r] # NoPrt
  /\ \A f \in DOMAIN m.functions :
       m.functions[f].bridge => m.functions[f].sec_bus > f[1]
MemorySound(m) == m.junk = [node |-> FALSE, tried |-> FALSE, has |-> FALSE, freed |-> TRUE]
SoundMachines ==
  {n \in DOMAIN Machines : LET m == Machines[n]
                           IN  FirmwareSound(m) /\ PciSound(m) /\ MemorySound(m)}
RoomForAll ==
  \/ cmdline = <<>> /\ Cardinality(Aps) < DefaultMaxCpus
  \/ cmdline = <<"cpu", "=", "4">> /\ Cardinality(Aps) < 4

\* On such a machine, with room for its processors, arch_entry gets to
\* kernel_main, whatever the other processors do: no step waits for something
\* that an earlier step prevents, and no lookup fails.
SoundMachineBoots ==
  phase = "cmdline_init" /\ machine \in SoundMachines /\ RoomForAll
    ~> phase = "kernel_main"

=============================================================================
