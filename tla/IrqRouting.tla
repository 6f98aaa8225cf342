----------------------------- MODULE IrqRouting -----------------------------
(***************************************************************************)
(* ACPI tables, the MADT and the I/O APICs (kernel/arch/x86_64/acpi/       *)
(* acpi.cpp, acpi/madt.cpp, cpu/ioapic.cpp): which pin raises which        *)
(* vector.  The first vector (0x40), the end of the vectors (0xE0) and     *)
(* their width (256) are constants, so that small machines reach them.     *)
(*                                                                         *)
(* A table is [sig, valid, ...]; a MADT entry is a record with a type.     *)
(* ioapics is a sequence of [gsi_base, pins]; pins is what the I/O APIC's  *)
(* version register says, one less than the number of its pins.            *)
(*                                                                         *)
(* Definitions whose name starts with Bug are faulty variants of the       *)
(* definition that follows them; no specification uses them.               *)
(***************************************************************************)
EXTENDS Integers, Sequences, SequencesExt

CONSTANTS FirstVec, EndVec, VecWidth

ASSUME VecAssumption ==
  /\ FirstVec \in Nat /\ EndVec \in Nat /\ VecWidth \in Nat \ {0}
  /\ FirstVec < EndVec /\ EndVec < VecWidth

NoTable == [sig |-> "none", entries |-> <<>>, sci_irq |-> 0]

\* The first slot with the signature and a checksum of 0, as TRUE or FALSE.
acpi_find_rsdp(region) == \E slot \in Range(region) : slot.sig /\ slot.valid

\* Table number idx with the signature, among those whose checksum is 0.
acpi_find_table(rsdt, sig, idx) ==
  LET found == SelectSeq(rsdt, LAMBDA t : t.valid /\ t.sig = sig)
  IN  IF idx + 1 \in DOMAIN found THEN found[idx + 1] ELSE NoTable

\* madt_init, and the lists that the getters return.
Entries(madt, type) == SelectSeq(madt.entries, LAMBDA e : e.type = type)

-----------------------------------------------------------------------------
(* The loops over I/O APICs and pins count vec in 8 bits; they look at its *)
(* end only between two I/O APICs.                                         *)

StartVec(ioapics) ==
  LET start[i \in 1 .. Len(ioapics) + 1] ==
        IF i = 1 THEN FirstVec
        ELSE IF start[i - 1] >= EndVec THEN start[i - 1]
        ELSE (start[i - 1] + ioapics[i - 1].pins + 1) % VecWidth
  IN  start

Reached(ioapics) ==
  {i \in DOMAIN ioapics : \A k \in 1 .. i : StartVec(ioapics)[k] < EndVec}
Pins(ioapics) == UNION {{i} \X (0 .. ioapics[i].pins) : i \in Reached(ioapics)}
VecAt(ioapics, p) == (StartVec(ioapics)[p[1]] + p[2]) % VecWidth
GsiAt(ioapics, p) == ioapics[p[1]].gsi_base + p[2]

\* The first override of a GSI; 0 if there is none.
ioapic_get_iso_by_gsi(isos, gsi) == SelectInSeq(isos, LAMBDA s : s.gsi = gsi)

\* The pin entries that ioapic_init writes; it takes vec - 0x40 for the GSI.
Redirection(ioapics, isos) ==
  [p \in Pins(ioapics) |->
     LET iso == ioapic_get_iso_by_gsi(isos, VecAt(ioapics, p) - FirstVec)
     IN  [vec |-> VecAt(ioapics, p), masked |-> FALSE,
          flags |-> IF iso = 0 THEN 0 ELSE isos[iso].flags]]

\* Its last assertion.
VecsLeft(ioapics) == StartVec(ioapics)[Len(ioapics) + 1] < EndVec

\* ioapic_get_by_gsi; 0 stands for the panic.
ioapic_get_by_gsi(ioapics, gsi) ==
  SelectInSeq(ioapics, LAMBDA a : gsi >= a.gsi_base /\ gsi <= a.gsi_base + a.pins)

\* ioapic_mask_gsi(gsi, 1).
Masked(redirection, ioapics, gsi) ==
  LET i == ioapic_get_by_gsi(ioapics, gsi)
  IN  [redirection EXCEPT ![<<i, gsi - ioapics[i].gsi_base>>].masked = TRUE]

\* Pins in the order of the loops.
Earlier(p, q) == p[1] < q[1] \/ (p[1] = q[1] /\ p[2] <= q[2])

\* The bound of the inner loop one too small.
Bugioapic_get_vector_by_gsi(ioapics, gsi) ==
  LET hits == {p \in Pins(ioapics) : GsiAt(ioapics, p) = gsi /\ p[2] < ioapics[p[1]].pins}
  IN  IF hits = {} THEN VecWidth - 1
      ELSE VecAt(ioapics, CHOOSE p \in hits : \A q \in hits : Earlier(p, q))

ioapic_get_vector_by_gsi(ioapics, gsi) ==
  LET hits == {p \in Pins(ioapics) : GsiAt(ioapics, p) = gsi}
  IN  IF hits = {} THEN VecWidth - 1
      ELSE VecAt(ioapics, CHOOSE p \in hits : \A q \in hits : Earlier(p, q))

\* The first override of an ISA interrupt; 0 if there is none.
IsoByIrq(isos, irq) == SelectInSeq(isos, LAMBDA s : s.bus = 0 /\ s.irq = irq)

ioapic_get_vector_by_irq(ioapics, isos, irq) ==
  LET i == IsoByIrq(isos, irq)
  IN  ioapic_get_vector_by_gsi(ioapics, IF i = 0 THEN irq ELSE isos[i].gsi)

\* -1 as a GSI, unlike in ioapic_get_vector_by_irq, if there is no override.
NoGsi == -1
ioapic_get_gsi_by_irq(isos, irq) ==
  LET i == IsoByIrq(isos, irq) IN IF i = 0 THEN NoGsi ELSE isos[i].gsi

=============================================================================
