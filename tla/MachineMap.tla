------------------------------ MODULE MachineMap ------------------------------
(* The machine's address space: a table of regions, filled at boot, that is  *)
(* the only thing that programs the MMU and the only thing that the fault    *)
(* path asks (src/machine/region.c), the two maps and the vector page        *)
(* (machine.c), the frame aperture (src/amiga/frame.c), and what becomes of  *)
(* a guest access that faults (bus.c). Addresses are counted in units of     *)
(* which Page make a page and Space the 32-bit space.                        *)
EXTENDS Naturals, Sequences, FiniteSets

CONSTANTS
    Page, Space,   \* units in a page, and in the address space
    Capacity,      \* MACHINE_REGION_CAPACITY
    Entries,       \* BUS_TABLE_ENTRIES
    Layout,        \* where the apertures of the classic map begin and end
    Extra,         \* regions that something else may offer
    Probes, Sizes, \* what the guest accesses, and how wide
    PCs            \* and where it does so

VARIABLES
    rigel, vecpage,  \* the options of this boot
    at, todo,        \* where machine_init is, and what of the map it has left
    regions,         \* regions[0 .. region_count), from 1
    mmu,             \* the descriptor of each address
    last,            \* the guest's last access and who answered it
    bus_table,       \* the accesses recorded
    direct_fault     \* bus_direct_fault_reported

vars == <<rigel, vecpage, at, todo, regions, mmu, last, bus_table, direct_fault>>

Address == 0..(Space - 1)
Kinds == {"DIRECT", "EXTERNAL", "UNMAPPED"}
Region == [base : Address, size : Nat, kind : Kinds, host : Nat,
           ops : SUBSET {"read", "write"}]

Span(r) == {a \in Address : r.base <= a /\ a < r.base + r.size}

(* The regions of the maps ***************************************************)

Trapped(from, to) ==
    [base |-> from, size |-> to - from, kind |-> "UNMAPPED", host |-> 0,
     ops |-> {}]
External(from, to) ==
    [base |-> from, size |-> to - from, kind |-> "EXTERNAL", host |-> 0,
     ops |-> {"read", "write"}]
Direct(from, to, phys) ==
    [base |-> from, size |-> to - from, kind |-> "DIRECT", host |-> phys,
     ops |-> {}]

plain_map == <<Trapped(Page, Layout.end)>>

classic_map ==
    <<Direct(Page, Layout.chip, Page),
      Trapped(Layout.chip, Layout.cia),
      External(Layout.cia, Layout.cia_end),
      Trapped(Layout.cia_end, Layout.rtc),
      External(Layout.rtc, Layout.rtc_end),
      Trapped(Layout.rtc_end, Layout.custom),
      External(Layout.custom, Layout.custom_end),
      Trapped(Layout.custom_end, Layout.end)>>

\* Fault-driven for whoever looks for the writer of AbsExecBase.
vectors(trapped) == IF trapped THEN External(0, Page) ELSE Direct(0, Page, 0)

Aperture(phys) == Direct(Layout.end, Layout.frame_end, phys)
Descriptor == External(Layout.frame_end, Layout.desc_end)

(* The table *****************************************************************)

\* Of two lengths of addresses; the ends wrap at the top of the space.
overlaps(a, b) ==
    /\ a.base < (b.base + b.size) % Space
    /\ b.base < (a.base + a.size) % Space

WholePages(r) == r.size > 0 /\ r.base % Page = 0 /\ r.size % Page = 0

Accepts(r) ==
    /\ WholePages(r)
    /\ \A i \in DOMAIN regions : ~overlaps(r, regions[i])
    /\ Len(regions) < Capacity

\* What it would make of it if the kind did not decide (a mutant's).
DescrMapped(r, a) == [access |-> TRUE, phys |-> r.host + (a - r.base)]

\* What a region makes of an address of its: an access flag unless it is
\* trapped, and the memory behind it.
Descr(r, a) ==
    IF r.kind = "DIRECT" THEN [access |-> TRUE, phys |-> r.host + (a - r.base)]
    ELSE [access |-> FALSE, phys |-> a]

machine_region_install(r) ==
    IF Accepts(r)
    THEN /\ regions' = Append(regions, r)
         /\ mmu' = [a \in Address |->
                        IF a \in Span(r) THEN Descr(r, a) ELSE mmu[a]]
    ELSE UNCHANGED <<regions, mmu>>

\* The region that an address is in: the first of the table.
Contains(r, a) == a >= r.base /\ a - r.base < r.size
Found(a) ==
    {i \in DOMAIN regions :
        /\ Contains(regions[i], a)
        /\ \A j \in 1..(i - 1) : ~Contains(regions[j], a)}

Inside(r, a, size) == size <= r.size - (a - r.base)

Init ==
    /\ rigel \in BOOLEAN /\ vecpage \in BOOLEAN
    /\ at = "map"
    /\ todo = Append(IF rigel THEN classic_map ELSE plain_map,
                     vectors(vecpage))
    /\ regions = <<>>
    /\ mmu = [a \in Address |-> [access |-> TRUE, phys |-> a]]
    /\ last = [by |-> "nobody"]
    /\ bus_table = {} /\ direct_fault = FALSE

(* machine_init: the map, the vector page, then the frame's two regions ******)

SetupMemory ==
    /\ at = "map" /\ todo # <<>>
    /\ machine_region_install(Head(todo))
    /\ todo' = Tail(todo)
    /\ UNCHANGED <<rigel, vecpage, at, last, bus_table, direct_fault>>

\* Without a chipset, or without memory for a frame, there is no aperture.
FrameInit ==
    /\ at = "map" /\ todo = <<>>
    /\ \/ at' = "guest"
       \/ rigel /\ at' = "frame"
    /\ UNCHANGED <<rigel, vecpage, todo, regions, mmu, last, bus_table,
                   direct_fault>>

InstallAperture ==
    /\ at = "frame"
    /\ \E phys \in {Space, Layout.end} : machine_region_install(Aperture(phys))
    /\ at' = IF regions' = regions THEN "guest" ELSE "desc"
    /\ UNCHANGED <<rigel, vecpage, todo, last, bus_table, direct_fault>>

InstallDescriptor ==
    /\ at = "desc"
    /\ machine_region_install(Descriptor)
    /\ at' = "guest"
    /\ UNCHANGED <<rigel, vecpage, todo, last, bus_table, direct_fault>>

Offer ==
    /\ at # "guest"
    /\ \E r \in Extra : machine_region_install(r)
    /\ UNCHANGED <<rigel, vecpage, at, todo, last, bus_table, direct_fault>>

(* The bus *******************************************************************)

Entry(a, size, write, pc) ==
    [pc |-> pc, address |-> a, size |-> size, write |-> write]

\* Each distinct access once, as long as there is room.
bus_record(e) ==
    IF Cardinality(bus_table) = Entries THEN bus_table ELSE bus_table \cup {e}

\* Nobody decides what an access here means.
Unowned(r) == r.kind = "UNMAPPED" \/ (r.kind = "EXTERNAL" /\ r.ops = {})

\* An access that nobody answers goes on in Emu68, if with a note here.
Observe(r, e) ==
    /\ direct_fault' = (direct_fault \/ r.kind = "DIRECT")
    /\ bus_table' = IF Unowned(r) THEN bus_record(e) ELSE bus_table

\* Who answers an access that faulted in a region.
Answer(r, a, size, write) ==
    IF ~Inside(r, a, size) THEN "emu68"
    ELSE IF r.kind = "EXTERNAL" /\ (IF write THEN "write" ELSE "read") \in r.ops
    THEN "owner"
    ELSE IF Unowned(r) THEN "open bus" ELSE "emu68"

\* machine_bus_read, machine_bus_write.
machine_bus(a, size, write, pc) ==
    IF Found(a) = {}
    THEN /\ last' = [by |-> "emu68", a |-> a, size |-> size, write |-> write]
         /\ UNCHANGED <<bus_table, direct_fault>>
    ELSE \E i \in Found(a) :
         LET r == regions[i]
             by == Answer(r, a, size, write)
         IN  /\ last' = [by |-> by, a |-> a, size |-> size, write |-> write]
             /\ IF by = "owner" THEN UNCHANGED <<bus_table, direct_fault>>
                ELSE Observe(r, Entry(a, size, write, pc))

\* An access of the guest: to memory when every address of it is mapped, else
\* it faults at the first that is not.
Touches(a, size) == {b \in Address : a <= b /\ b < a + size}
FaultsAt(a, size) ==
    {b \in Touches(a, size) :
        /\ ~mmu[b].access
        /\ \A c \in Touches(a, size) : c < b => mmu[c].access}

Access ==
    /\ at = "guest"
    /\ \E a \in Probes, size \in Sizes, write \in BOOLEAN, pc \in PCs :
        IF FaultsAt(a, size) = {}
        THEN /\ last' = [by |-> "memory", a |-> a, size |-> size,
                         write |-> write]
             /\ UNCHANGED <<bus_table, direct_fault>>
        ELSE \E far \in FaultsAt(a, size) : machine_bus(far, size, write, pc)
    /\ UNCHANGED <<rigel, vecpage, at, todo, regions, mmu>>

Next ==
    \/ SetupMemory \/ FrameInit \/ InstallAperture \/ InstallDescriptor
    \/ Offer \/ Access

Spec == Init /\ [][Next]_vars

(* Correctness ***************************************************************)

TypeOK ==
    /\ rigel \in BOOLEAN /\ vecpage \in BOOLEAN
    /\ at \in {"map", "frame", "desc", "guest"}
    /\ todo \in Seq(Region) /\ regions \in Seq(Region)
    /\ mmu \in [Address -> [access : BOOLEAN, phys : Nat]]
    /\ IsFiniteSet(bus_table) /\ Cardinality(bus_table) <= Entries
    /\ direct_fault \in BOOLEAN

\* No address has two descriptions in the table (region.c:82).
OneMeaning ==
    \A i, j \in DOMAIN regions :
        i # j => Span(regions[i]) \cap Span(regions[j]) = {}

\* The MMU and the fault path describe the same machine (region.h:10): an
\* address of a region reaches memory if the region is direct, and then the
\* memory that the region names, and otherwise faults.
PoliciesAgree ==
    \A i \in DOMAIN regions : \A a \in Span(regions[i]) :
        mmu[a] = Descr(regions[i], a)

\* A direct region never reaches the fault path (bus.c:147).
NoDirectFault == ~direct_fault

\* No access was served from memory that has an address in a trapped region
\* (region.h:14).
NoBypass ==
    last.by = "memory" =>
        \A i \in DOMAIN regions :
            regions[i].kind # "DIRECT" =>
                Touches(last.a, last.size) \cap Span(regions[i]) = {}

\* A fault inside a region that has both directions of an owner, or none, is
\* answered here (region.h:15).
TrapsHandled ==
    last.by = "emu68" =>
        \A i \in DOMAIN regions :
            /\ Contains(regions[i], last.a)
            /\ Inside(regions[i], last.a, last.size)
            => Cardinality(regions[i].ops) = 1

MapRight ==
    /\ TypeOK /\ OneMeaning /\ PoliciesAgree /\ NoDirectFault /\ NoBypass
    /\ TrapsHandled

\* No region reaches the top of the space, where the ends that overlaps
\* compares wrap to 0 (region.c:62).
PageAssumption == Page \in Nat \ {0} /\ Space \in Nat \ {0}
BelowTop == \A r \in Extra : r \in Region /\ r.base + r.size < Space
LayoutAssumption ==
    /\ \A k \in DOMAIN Layout : Layout[k] \in Nat
    /\ DOMAIN Layout = {"chip", "cia", "cia_end", "rtc", "rtc_end", "custom",
                        "custom_end", "end", "frame_end", "desc_end"}
    /\ Page <= Layout.chip /\ Layout.chip <= Layout.cia
    /\ Layout.cia <= Layout.cia_end /\ Layout.cia_end <= Layout.rtc
    /\ Layout.rtc <= Layout.rtc_end /\ Layout.rtc_end <= Layout.custom
    /\ Layout.custom <= Layout.custom_end /\ Layout.custom_end <= Layout.end
    /\ Layout.end <= Layout.frame_end /\ Layout.frame_end <= Layout.desc_end
    /\ Layout.desc_end < Space
SizesAssumption ==
    /\ Probes \subseteq Address /\ Sizes \subseteq Nat \ {0}
    /\ Capacity \in Nat /\ Entries \in Nat
==============================================================================
