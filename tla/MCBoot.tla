------------------------------- MODULE MCBoot -------------------------------
(***************************************************************************)
(* A machine without an RSDP, started with every command line of up to     *)
(* five words and separators; a machine with two more processors, with     *)
(* room for all and for one less; a plain machine; and machines that       *)
(* differ from the plain one in one respect each.                          *)
(***************************************************************************)
EXTENDS Boot, TLC

Words == {"acpi", "disable", "cpu", "4", "=", ",", " "}
ShortLines == UNION {[1 .. n -> Words] : n \in 0 .. 5}
TwoLines == {<<>>, <<"cpu", "=", "4">>}

Lapic(i, e) == [type |-> "lapic", id |-> i, enabled |-> e]
Ioapic(base, pins) == [type |-> "ioapic", gsi_base |-> base, pins |-> pins]
Iso(irq, gsi, flags) == [type |-> "iso", bus |-> 0, irq |-> irq, gsi |-> gsi,
                         flags |-> flags]
Nmi(l) == [type |-> "nmi", lint |-> l]
Unknown == [type |-> "other"]

Madt(entries) == [sig |-> "APIC", valid |-> TRUE, entries |-> entries]
Fadt(irq) == [sig |-> "FACP", valid |-> TRUE, sci_irq |-> irq]
Slot(v) == [sig |-> TRUE, valid |-> v]

Start == <<Lapic(0, TRUE), Nmi(1), Unknown>>
PitOverride == <<Iso(0, 2, 5), Iso(1, 1, 2)>>
PlainMadt == Madt(Start \o <<Ioapic(0, 3)>> \o PitOverride)

Root(n) == <<[number |-> n, slot |-> -1, func |-> -1]>>
Behind1(path, n, slot, func) ==
  Append(path, [number |-> n, slot |-> slot, func |-> func])
Bus1 == Behind1(Root(0), 1, 3, 0)
Bus2 == Behind1(Bus1, 2, 2, 1)
Reg(flags, step, addr) == [flags |-> flags, step |-> step, value |-> addr + flags]
None == Reg(0, 64, 0)
Bars == <<Reg(4, 64, 0), Reg(0, 2, 34), Reg(1, 4, 4), Reg(8, 32, 32), None, Reg(0, 16, 48)>>
MoreBars ==
  <<Reg(12, 32, 32), Reg(0, 1, 0), Reg(4, 16, 16), Reg(0, 1, 5), Reg(1, 4, 0), None>>
NoBars == <<None, None, None, None, None, None>>
Dev(pin) == [bridge |-> FALSE, sec_bus |-> 0, pin |-> pin,
             bars |-> <<Bars, NoBars, MoreBars, NoBars>>[pin + 1]]
Bridge(b) == [bridge |-> TRUE, sec_bus |-> b, pin |-> 1, bars |-> Bars]
Line(s, f, p, g) == [slot |-> s, func |-> f, pin |-> p, gsi |-> g]
RootPrt == <<Line(0, -1, 0, 3), Line(3, -1, 0, 1), Line(3, 0, 1, 2), Line(3, 1, 2, 0),
             Line(3, 0, 2, 9), Line(3, -1, 3, 3)>>

Plain ==
  [low |-> <<Slot(FALSE)>>, high |-> <<Slot(TRUE)>>,
   rsdt |-> <<Fadt(1), PlainMadt>>,
   functions |-> (<<0, 0, 0>> :> Dev(1)) @@ (<<0, 3, 0>> :> Bridge(1))
      @@ (<<1, 0, 0>> :> Dev(2)) @@ (<<1, 2, 1>> :> Bridge(2))
      @@ (<<2, 1, 0>> :> Dev(1)) @@ (<<2, 1, 7>> :> Dev(0)),
   roots |-> <<Root(0)>>,
   nodes |-> (Root(0) :> RootPrt) @@ (Bus1 :> NoPrt),
   junk |-> [node |-> FALSE, tried |-> FALSE, has |-> FALSE, freed |-> TRUE]]

WithMadt(entries) == [Plain EXCEPT !.rsdt = <<Fadt(1), Madt(Start \o entries)>>]
Broken(t) == [t EXCEPT !.valid = FALSE]

NoRsdp == [Plain EXCEPT !.high = <<>>]

Variants == <<
  [Plain EXCEPT !.rsdt = <<Fadt(1), Broken(PlainMadt)>>],
  [Plain EXCEPT !.rsdt = <<Fadt(0), Broken(PlainMadt), PlainMadt, Madt(<<>>)>>],
  WithMadt(<<Nmi(2), Ioapic(0, 3)>> \o PitOverride),
  WithMadt(<<Ioapic(0, 2), Ioapic(3, 3)>> \o PitOverride),
  WithMadt(<<Ioapic(4, 2), Ioapic(0, 3)>> \o PitOverride),
  WithMadt(<<Ioapic(0, 4), Ioapic(3, 1)>> \o PitOverride),
  WithMadt(<<Ioapic(0, 7)>> \o PitOverride),
  WithMadt(<<Ioapic(0, 13)>> \o PitOverride),
  WithMadt(<<Ioapic(0, 3)>>),
  WithMadt(<<Ioapic(0, 3), Iso(0, 4, 5)>>),
  [Plain EXCEPT !.junk.node = TRUE],
  [Plain EXCEPT !.junk.tried = TRUE],
  [Plain EXCEPT !.junk.has = TRUE],
  [Plain EXCEPT !.junk.freed = FALSE],
  [Plain EXCEPT !.nodes = (Root(0) :> NoPrt)],
  [Plain EXCEPT !.nodes = @ @@ (Bus2 :> <<Line(1, 0, 0, 2)>>)],
  [Plain EXCEPT !.nodes = (Root(0) :> RootPrt) @@ (Bus1 :> <<Line(2, -1, 2, 257)>>)],
  [Plain EXCEPT !.functions[<<1, 2, 1>>] = Bridge(0)],
  [Plain EXCEPT !.functions = @ @@ (<<4, 1, 0>> :> Dev(3)), !.roots = <<Root(4), Root(0)>>,
                !.nodes = @ @@ (Root(4) :> <<Line(1, 0, 2, 1)>>)] >>

Pair == WithMadt(<<Lapic(2, TRUE), Lapic(3, FALSE), Lapic(1, TRUE), Ioapic(0, 3)>>
                   \o PitOverride)

MCMachines == <<NoRsdp, Pair, Plain>> \o Variants
MCCmdlines == [i \in DOMAIN MCMachines |->
                 CASE i = 1 -> ShortLines
                   [] i = 2 -> {<<>>, <<"cpu", "=", "2">>}
                   [] OTHER -> TwoLines]

=============================================================================
