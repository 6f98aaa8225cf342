-------------------------------- MODULE Pci ---------------------------------
(***************************************************************************)
(* PCI buses, devices and their interrupts (kernel/arch/x86_64/io/         *)
(* pci.cpp).  A bus is its path from a root bus: a sequence of             *)
(* [number, slot, func], where slot and func are the bridge's on the bus   *)
(* before.  functions maps <<bus number, slot, func>> to what the          *)
(* configuration space says, [bridge, sec_bus, pin, bars]; nodes maps the  *)
(* buses that ACPI knows to their _PRT, a sequence of [slot, func, pin,    *)
(* gsi], or NoPrt.                                                         *)
(*                                                                         *)
(* bars are the base address registers, [flags, step, value] each: of what *)
(* is written only multiples of step stay, and flags can only be read.     *)
(*                                                                         *)
(* _acpi_node, _tried_prt_fetch and _has_prt of a bus are not initialised. *)
(* junk, [node, tried, has], says which of them begin other than zero.     *)
(*                                                                         *)
(* Definitions whose name starts with Bug are faulty variants of the       *)
(* definition that follows them; no specification uses them.               *)
(***************************************************************************)
EXTENDS IrqRouting

CONSTANTS
  Word,           \* 2^32, the values of a register
  IoSpace         \* 2^16, the I/O ports

\* Not a PRT, and a PRT read from memory that was never written.
Mark(n) == [slot |-> n, func |-> n, pin |-> n, gsi |-> n]
NoPrt == <<Mark(-1)>>
Junk == <<Mark(-2)>>

Number(path) == path[Len(path)].number

\* Slots and functions of a bus in the order in which enumerate visits them.
Present(functions, path) ==
  SetToSortSeq({<<f[2], f[3]>> : f \in {g \in DOMAIN functions : g[1] = Number(path)}},
               LAMBDA p, q : p[1] < q[1] \/ (p[1] = q[1] /\ p[2] < q[2]))

\* A device as init leaves it, and the bus behind a bridge.
Device(path, p) == [path |-> path, slot |-> p[1], func |-> p[2], irq |-> 0, gsi |-> 0,
                    bars |-> <<>>]
BusBehind(functions, path, p) ==
  Append(path, [number |-> functions[<<Number(path), p[1], p[2]>>].sec_bus,
                slot |-> p[1], func |-> p[2]])

\* A bus that leads back to itself is enumerated without end.
Revisited(path) == \E i \in 1 .. Len(path) - 1 : path[i].number = Number(path)

\* find_node, fetch_prt and has_prt: the PRT of a bus, or NoPrt.
HasNode(nodes, path) == \A n \in 1 .. Len(path) : SubSeq(path, 1, n) \in DOMAIN nodes
Prt(nodes, junk, path) ==
  IF junk.node /\ ~junk.tried /\ Len(path) > 1 THEN Junk
  ELSE IF HasNode(nodes, path) /\ ~junk.tried /\ nodes[path] # NoPrt THEN nodes[path]
  ELSE IF junk.has THEN Junk ELSE NoPrt

\* The pin of the bridge that the pin of a device behind it is wired to.  The
\* slot left out.
Bugpci_bridge_pin(pin, dev) == ((pin - 1) % 4) + 1

pci_bridge_pin(pin, dev) == (((pin - 1) + (dev % 4)) % 4) + 1

\* A device as the end of route_irq leaves it: slot, func and pin are what it
\* looks for in the PRT.
Routed(ioapics, d, prt, slot, func, pin) ==
  LET i == SelectInSeq(prt, LAMBDA e : /\ e.slot = slot /\ e.func \in {func, -1}
                                       /\ e.pin = pin - 1)
  IN  IF i = 0 THEN d
      ELSE [d EXCEPT !.irq = ioapic_get_vector_by_gsi(ioapics, prt[i].gsi),
                     !.gsi = prt[i].gsi % 256]

-----------------------------------------------------------------------------
\* Base address registers

Write(reg, v) == [reg EXCEPT !.value = v - (v % reg.step) + reg.flags]
pci_write_dword(regs, i, v) == [regs EXCEPT ![i] = Write(@, v)]

Mmio(lo) == lo % 2 = 0
Is64(lo) == Mmio(lo) /\ (lo \div 2) % 4 = 2
Cleared(v, mmio) == v - (v % (IF mmio THEN 16 ELSE 4))

\* The low half is not written back.
BugSized(regs, i) == pci_write_dword(regs, i, Word - 1)

\* All ones are written to register i, what it then holds is read, and its
\* value is written back.
Sized(regs, i) ==
  pci_write_dword(pci_write_dword(regs, i, Word - 1), i, regs[i].value)
SizeRead(regs, i) == pci_write_dword(regs, i, Word - 1)[i].value

\* fetch_bar: no bar, or where it is and the length less one; and the
\* registers when it is done.
NoBar == [mmio |-> FALSE, addr |-> 0, length |-> 0]
fetch_bar(regs, i) ==
  LET lo == regs[i].value
      hi == IF Is64(lo) THEN regs[i + 1].value ELSE 0
      sizeHi == IF Is64(lo) THEN SizeRead(regs, i + 1) ELSE Word - 1
      base == Cleared(hi * Word + lo, Mmio(lo))
      size == Word * Word - 1 - Cleared(sizeHi * Word + SizeRead(regs, i), Mmio(lo))
  IN  IF lo = 0 THEN NoBar
      ELSE IF Mmio(lo) THEN [mmio |-> TRUE, addr |-> base, length |-> size]
      ELSE [mmio |-> FALSE, addr |-> base % IoSpace, length |-> size % IoSpace]
AfterFetch(regs, i) ==
  LET lo == regs[i].value
  IN  IF lo = 0 THEN regs
      ELSE IF Is64(lo) THEN Sized(Sized(regs, i), i + 1) ELSE Sized(regs, i)

=============================================================================
