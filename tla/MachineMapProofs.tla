--------------------------- MODULE MachineMapProofs ---------------------------
(* For every layout of the machine, of any size, and every set of regions    *)
(* offered besides: the table and the MMU describe the same machine, and a   *)
(* guest access is served accordingly.                                       *)
EXTENDS MachineMap, TLAPS, FiniteSetTheorems, SequenceTheorems,
        WellFoundedInduction

Assumptions ==
    PageAssumption /\ BelowTop /\ LayoutAssumption /\ SizesAssumption

\* A set of numbers has a least one.
LEMMA LeastOf ==
    ASSUME NEW T, T \subseteq Nat, T # {}
    PROVE  \E x \in T : \A y \in T : x <= y
<1> DEFINE R == {ss \in Nat \X Nat : ss[1] < ss[2]}
<1>1. IsWellFoundedOn(R, Nat)
  BY NatLessThanWellFounded DEF OpToRel
<1>2. \A x, y \in Nat : <<y, x>> \in R <=> y < x
  OBVIOUS
<1> HIDE DEF R
<1>3. PICK x \in T : \A y \in T : ~ (<<y, x>> \in R)
  BY <1>1, WFMin
<1>4. \A y \in T : ~(y < x)
  BY <1>2, <1>3
<1> QED
  BY <1>4

\* A region that the table may hold.
Sound(r) == r \in Region /\ r.base + r.size < Space

\* What the regions of the table and of the rest of the map are.
TableInv ==
    /\ \A i \in DOMAIN todo : Sound(todo[i])
    /\ \A i \in DOMAIN regions : Sound(regions[i])
    /\ OneMeaning
    /\ PoliciesAgree

\* What the last access says of the table, which no longer changes then.
AccessInv ==
    /\ NoDirectFault
    /\ at # "guest" => last.by = "nobody"
    /\ NoBypass
    /\ TrapsHandled

MapInv == TypeOK /\ TableInv /\ AccessInv

\* Below the top of the space nothing wraps.
LEMMA NoWrap ==
    ASSUME NEW n \in Nat, NEW x \in Nat, x < n
    PROVE  x % n = x
  OBVIOUS

\* The comparison of region.c:62 finds every overlap of two regions that end
\* below the top.
LEMMA OverlapsIsExact ==
    ASSUME Assumptions, NEW a, NEW b, Sound(a), Sound(b), ~overlaps(a, b)
    PROVE  Span(a) \cap Span(b) = {}
<1>1. (a.base + a.size) % Space = a.base + a.size
  BY NoWrap DEF Sound, Region, Address, Assumptions, PageAssumption
<1>2. (b.base + b.size) % Space = b.base + b.size
  BY NoWrap DEF Sound, Region, Address, Assumptions, PageAssumption
<1>3. a.base >= b.base + b.size \/ b.base >= a.base + a.size
  BY <1>1, <1>2 DEF overlaps, Sound, Region, Address
<1> QED
  BY <1>3 DEF Span, Sound, Region, Address

\* An install either refuses or keeps the table and the MMU in step.
LEMMA InstallKeeps ==
    ASSUME Assumptions, TypeOK, TableInv, NEW r, Sound(r),
           machine_region_install(r)
    PROVE  /\ regions' \in Seq(Region)
           /\ mmu' \in [Address -> [access : BOOLEAN, phys : Nat]]
           /\ \A i \in DOMAIN regions' : Sound(regions'[i])
           /\ OneMeaning'
           /\ PoliciesAgree'
<1>0. regions \in Seq(Region) /\ mmu \in [Address -> [access : BOOLEAN, phys : Nat]]
  BY DEF TypeOK
<1>1. CASE ~Accepts(r)
  BY <1>1, <1>0 DEF machine_region_install, TableInv, OneMeaning, PoliciesAgree
<1>2. CASE Accepts(r)
  <2>1. /\ regions' = Append(regions, r)
        /\ mmu' = [a \in Address |->
                     IF a \in Span(r) THEN Descr(r, a) ELSE mmu[a]]
    BY <1>2 DEF machine_region_install
  <2>2. r \in Region
    BY DEF Sound
  <2>3. regions' \in Seq(Region) /\ Len(regions') = Len(regions) + 1
    BY <2>1, <2>2, <1>0
  <2>4. DOMAIN regions' = 1..(Len(regions) + 1) /\ DOMAIN regions = 1..Len(regions)
    BY <2>3, <1>0
  <2>5. /\ \A i \in DOMAIN regions : regions'[i] = regions[i]
        /\ regions'[Len(regions) + 1] = r
    BY <2>1, <2>4, <1>0
  <2>6. Len(regions) \in Nat
    BY <1>0
  <2>7. \A i \in DOMAIN regions' :
           i \in DOMAIN regions \/ i = Len(regions) + 1
    BY <2>4, <2>6
  <2>8. \A a \in Span(r) : Descr(r, a) \in [access : BOOLEAN, phys : Nat]
    BY <2>2 DEF Descr, Span, Region, Address
  <2>9. mmu' \in [Address -> [access : BOOLEAN, phys : Nat]]
    BY <2>1, <2>8, <1>0
  <2>10. \A i \in DOMAIN regions' : Sound(regions'[i])
    BY <2>5, <2>7 DEF TableInv
  <2>11. \A i \in DOMAIN regions : Span(regions[i]) \cap Span(r) = {}
    <3> TAKE i \in DOMAIN regions
    <3>1. ~overlaps(r, regions[i])
      BY <1>2 DEF Accepts
    <3>2. Sound(regions[i])
      BY DEF TableInv
    <3> QED
      BY <3>1, <3>2, OverlapsIsExact
  <2>12. OneMeaning'
    <3> SUFFICES ASSUME NEW i \in DOMAIN regions', NEW j \in DOMAIN regions',
                        i # j
                 PROVE  Span(regions'[i]) \cap Span(regions'[j]) = {}
      BY DEF OneMeaning
    <3>1. CASE i \in DOMAIN regions /\ j \in DOMAIN regions
      BY <3>1, <2>5 DEF TableInv, OneMeaning
    <3>2. CASE i \in DOMAIN regions /\ j = Len(regions) + 1
      BY <3>2, <2>5, <2>11
    <3>3. CASE i = Len(regions) + 1 /\ j \in DOMAIN regions
      BY <3>3, <2>5, <2>11
    <3> QED
      BY <3>1, <3>2, <3>3, <2>7
  <2>13. PoliciesAgree'
    <3> SUFFICES ASSUME NEW i \in DOMAIN regions', NEW a \in Span(regions'[i])
                 PROVE  mmu'[a] = Descr(regions'[i], a)
      BY DEF PoliciesAgree
    <3>0. a \in Address
      BY DEF Span
    <3>1. CASE i \in DOMAIN regions
      BY <3>0, <3>1, <2>1, <2>5, <2>11 DEF TableInv, PoliciesAgree
    <3>2. CASE i = Len(regions) + 1
      BY <3>0, <3>2, <2>1, <2>5
    <3> QED
      BY <3>1, <3>2, <2>7
  <2> QED
    BY <2>3, <2>9, <2>10, <2>12, <2>13
<1> QED
  BY <1>1, <1>2

\* The regions of both maps, the vector page and the frame are sound.
LEMMA MapsAreSound ==
    ASSUME Assumptions
    PROVE  /\ \A p \in BOOLEAN : Sound(vectors(p))
           /\ \A i \in DOMAIN plain_map : Sound(plain_map[i])
           /\ \A i \in DOMAIN classic_map : Sound(classic_map[i])
           /\ \A phys \in Nat : Sound(Aperture(phys))
           /\ Sound(Descriptor)
<1> DEFINE Between(from, to) == from \in Nat /\ to \in Nat /\ from <= to /\ to < Space
<1>1. \A from, to : Between(from, to) =>
         /\ Sound(Trapped(from, to)) /\ Sound(External(from, to))
         /\ \A phys \in Nat : Sound(Direct(from, to, phys))
  BY DEF Sound, Trapped, External, Direct, Region, Address, Kinds, Assumptions,
         PageAssumption
<1>2. /\ Between(0, Page) /\ Between(Page, Layout.end)
      /\ Between(Page, Layout.chip) /\ Between(Layout.chip, Layout.cia)
      /\ Between(Layout.cia, Layout.cia_end) /\ Between(Layout.cia_end, Layout.rtc)
      /\ Between(Layout.rtc, Layout.rtc_end)
      /\ Between(Layout.rtc_end, Layout.custom)
      /\ Between(Layout.custom, Layout.custom_end)
      /\ Between(Layout.custom_end, Layout.end)
      /\ Between(Layout.end, Layout.frame_end)
      /\ Between(Layout.frame_end, Layout.desc_end)
      /\ Page \in Nat
  BY DEF Assumptions, PageAssumption, LayoutAssumption
<1> HIDE DEF Between
<1>3. \A p \in BOOLEAN : Sound(vectors(p))
  BY <1>1, <1>2 DEF vectors
<1>4. \A i \in DOMAIN plain_map : Sound(plain_map[i])
  BY <1>1, <1>2 DEF plain_map
<1>5. \A i \in DOMAIN classic_map : Sound(classic_map[i])
  BY <1>1, <1>2 DEF classic_map
<1>6. Sound(Descriptor) /\ \A phys \in Nat : Sound(Aperture(phys))
  BY <1>1, <1>2 DEF Descriptor, Aperture
<1> QED
  BY <1>3, <1>4, <1>5, <1>6

\* What the table says at first: nothing.
LEMMA MapInit ==
    ASSUME Assumptions, Init
    PROVE  MapInv
<1>1. /\ vectors(vecpage) \in Region
      /\ \A i \in DOMAIN plain_map : plain_map[i] \in Region
      /\ \A i \in DOMAIN classic_map : classic_map[i] \in Region
  BY MapsAreSound DEF Sound, Init
<1>2. plain_map \in Seq(Region) /\ classic_map \in Seq(Region)
  BY <1>1 DEF plain_map, classic_map
<1>3. todo \in Seq(Region)
  BY <1>1, <1>2 DEF Init
<1>4. \A i \in DOMAIN todo : Sound(todo[i])
  <2> DEFINE map == IF rigel THEN classic_map ELSE plain_map
  <2>1. map \in Seq(Region) /\ todo = Append(map, vectors(vecpage))
    BY <1>2 DEF Init
  <2>2. \A i \in DOMAIN map : Sound(map[i])
    BY MapsAreSound DEF Init
  <2>3. Sound(vectors(vecpage))
    BY MapsAreSound DEF Init
  <2> HIDE DEF map
  <2>4. \A i \in DOMAIN todo : i \in DOMAIN map \/ i = Len(map) + 1
    BY <2>1
  <2>5. \A i \in DOMAIN map : todo[i] = map[i]
    BY <2>1
  <2>6. todo[Len(map) + 1] = vectors(vecpage)
    BY <2>1
  <2> QED
    BY <2>2, <2>3, <2>4, <2>5, <2>6
<1>5. IsFiniteSet(bus_table) /\ Cardinality(bus_table) = 0
  BY FS_EmptySet DEF Init
<1>6. TypeOK
  <2>1. mmu \in [Address -> [access : BOOLEAN, phys : Nat]]
    BY DEF Init, Address, Assumptions, PageAssumption
  <2>2. regions \in Seq(Region) /\ Cardinality(bus_table) <= Entries
    BY <1>5 DEF Init, Assumptions, SizesAssumption
  <2> QED
    BY <1>3, <1>5, <2>1, <2>2 DEF Init, TypeOK
<1>7. TableInv
  BY <1>4 DEF Init, TableInv, OneMeaning, PoliciesAgree
<1>8. AccessInv
  BY DEF Init, AccessInv, NoDirectFault, NoBypass, TrapsHandled
<1> QED
  BY <1>6, <1>7, <1>8 DEF MapInv

\* The steps of machine_init, in each of which nothing was accessed yet.
LEMMA BootKeeps ==
    ASSUME Assumptions, MapInv,
           SetupMemory \/ FrameInit \/ InstallAperture \/ InstallDescriptor
             \/ Offer
    PROVE  MapInv'
<1>1. /\ at # "guest" /\ last.by = "nobody" /\ ~direct_fault
      /\ last' = last /\ bus_table' = bus_table /\ direct_fault' = direct_fault
      /\ rigel' = rigel /\ vecpage' = vecpage
      /\ at' \in {"map", "frame", "desc", "guest"}
  BY DEF MapInv, TypeOK, AccessInv, NoDirectFault, SetupMemory, FrameInit,
         InstallAperture, InstallDescriptor, Offer
<1>2. AccessInv'
  BY <1>1 DEF AccessInv, NoDirectFault, NoBypass, TrapsHandled
<1>3. todo' \in Seq(Region) /\ \A i \in DOMAIN todo' : Sound(todo'[i])
  <2>1. todo \in Seq(Region) /\ \A i \in DOMAIN todo : Sound(todo[i])
    BY DEF MapInv, TypeOK, TableInv
  <2>2. CASE SetupMemory
    <3>1. todo # <<>> /\ todo' = Tail(todo)
      BY <2>2 DEF SetupMemory
    <3>2. /\ Tail(todo) \in Seq(Region)
          /\ \A i \in DOMAIN Tail(todo) :
                i + 1 \in DOMAIN todo /\ Tail(todo)[i] = todo[i + 1]
      BY <2>1, <3>1
    <3> QED
      BY <2>1, <3>1, <3>2
  <2>3. CASE ~SetupMemory
    BY <2>1, <2>3 DEF FrameInit, InstallAperture, InstallDescriptor, Offer
  <2> QED
    BY <2>2, <2>3
<1>4. (\E r : Sound(r) /\ machine_region_install(r))
        \/ UNCHANGED <<regions, mmu>>
  <2>1. CASE SetupMemory
    <3>1. todo \in Seq(Region) /\ todo # <<>> /\ Sound(todo[1])
      BY <2>1 DEF SetupMemory, MapInv, TypeOK, TableInv
    <3> QED
      BY <3>1, <2>1 DEF SetupMemory
  <2>2. CASE FrameInit
    BY <2>2 DEF FrameInit
  <2>3. CASE InstallAperture
    <3>1. Space \in Nat /\ Layout.end \in Nat
      BY DEF Assumptions, PageAssumption, LayoutAssumption
    <3> QED
      BY <3>1, <2>3, MapsAreSound DEF InstallAperture
  <2>4. CASE InstallDescriptor
    BY <2>4, MapsAreSound DEF InstallDescriptor
  <2>5. CASE Offer
    BY <2>5 DEF Offer, Assumptions, BelowTop, Sound
  <2> QED
    BY <2>1, <2>2, <2>3, <2>4, <2>5
<1>5. /\ regions' \in Seq(Region)
      /\ mmu' \in [Address -> [access : BOOLEAN, phys : Nat]]
      /\ \A i \in DOMAIN regions' : Sound(regions'[i])
      /\ OneMeaning'
      /\ PoliciesAgree'
  <2>1. TypeOK /\ TableInv
    BY DEF MapInv
  <2>2. CASE UNCHANGED <<regions, mmu>>
    BY <2>1, <2>2 DEF TypeOK, TableInv, OneMeaning, PoliciesAgree
  <2>3. CASE \E r : Sound(r) /\ machine_region_install(r)
    BY <2>1, <2>3, InstallKeeps
  <2> QED
    BY <1>4, <2>2, <2>3
<1>6. TypeOK'
  BY <1>1, <1>3, <1>5 DEF MapInv, TypeOK
<1>7. TableInv'
  BY <1>3, <1>5 DEF TableInv
<1> QED
  BY <1>2, <1>6, <1>7 DEF MapInv

\* Whatever an access touches in a trapped region faults.
LEMMA TrappedFaults ==
    ASSUME MapInv, NEW i \in DOMAIN regions, NEW a \in Span(regions[i])
    PROVE  mmu[a].access <=> regions[i].kind = "DIRECT"
<1>1. mmu[a] = Descr(regions[i], a)
  BY DEF MapInv, TableInv, PoliciesAgree
<1>2. CASE regions[i].kind = "DIRECT"
  BY <1>1, <1>2 DEF Descr
<1>3. CASE regions[i].kind # "DIRECT"
  BY <1>1, <1>3 DEF Descr
<1> QED
  BY <1>2, <1>3

\* What faults is in no direct region, and is answered as its region says.
LEMMA BusIsRight ==
    ASSUME Assumptions, MapInv, NEW a \in Address, NEW size \in Nat,
           NEW write \in BOOLEAN, NEW pc, ~mmu[a].access,
           machine_bus(a, size, write, pc), UNCHANGED regions
    PROVE  /\ direct_fault' = FALSE
           /\ last'.by # "memory"
           /\ TrapsHandled'
           /\ IsFiniteSet(bus_table') /\ Cardinality(bus_table') <= Entries
<1>1. direct_fault = FALSE /\ IsFiniteSet(bus_table) /\ Cardinality(bus_table) <= Entries
  BY DEF MapInv, AccessInv, NoDirectFault, TypeOK
<1>2. \A i \in DOMAIN regions :
         Contains(regions[i], a) = (a \in Span(regions[i]))
  BY DEF MapInv, TableInv, Sound, Region, Contains, Span, Address
<1>3. \A e : /\ IsFiniteSet(bus_record(e))
             /\ Cardinality(bus_record(e)) <= Entries
  <2>1. Cardinality(bus_table) \in Nat /\ Entries \in Nat
    BY <1>1, FS_CardinalityType DEF Assumptions, SizesAssumption
  <2>2. \A e : /\ IsFiniteSet(bus_table \cup {e})
               /\ Cardinality(bus_table \cup {e}) \in
                    {Cardinality(bus_table), Cardinality(bus_table) + 1}
    BY <1>1, FS_AddElement
  <2> TAKE e
  <2>3. CASE Cardinality(bus_table) = Entries
    BY <1>1, <2>3 DEF bus_record
  <2>4. CASE Cardinality(bus_table) # Entries
    <3>1. Cardinality(bus_table) + 1 <= Entries
      BY <1>1, <2>1, <2>4
    <3> QED
      BY <1>1, <2>1, <2>2, <2>4, <3>1 DEF bus_record
  <2> QED
    BY <2>3, <2>4
<1>4. CASE Found(a) = {}
  <2>1. \A i \in DOMAIN regions : ~Contains(regions[i], a)
    <3> SUFFICES ASSUME NEW i \in DOMAIN regions, Contains(regions[i], a)
                 PROVE  FALSE
      OBVIOUS
    <3>1. \A j \in DOMAIN regions : j # i => ~Contains(regions[j], a)
      BY <1>2 DEF MapInv, TableInv, OneMeaning
    <3>2. regions \in Seq(Region)
      BY DEF MapInv, TypeOK
    <3>3. \A j \in 1..(i - 1) : j \in DOMAIN regions /\ j # i
      BY <3>2
    <3> QED
      BY <3>1, <3>3, <1>4 DEF Found
  <2> QED
    BY <1>1, <1>4, <2>1 DEF machine_bus, TrapsHandled
<1>5. CASE Found(a) # {}
  <2> DEFINE r(i) == regions[i]
  <2>1. PICK i \in Found(a) :
          /\ last' = [by |-> Answer(regions[i], a, size, write), a |-> a,
                      size |-> size, write |-> write]
          /\ IF Answer(regions[i], a, size, write) = "owner"
             THEN UNCHANGED <<bus_table, direct_fault>>
             ELSE Observe(regions[i], Entry(a, size, write, pc))
    BY <1>5 DEF machine_bus
  <2>2. i \in DOMAIN regions /\ Contains(regions[i], a)
    BY DEF Found
  <2>3. regions[i].kind # "DIRECT" /\ Sound(regions[i])
    BY <2>2, <1>2, TrappedFaults DEF MapInv, TableInv
  <2>4. direct_fault' = FALSE /\ IsFiniteSet(bus_table')
          /\ Cardinality(bus_table') <= Entries
    BY <1>1, <1>3, <2>1, <2>3 DEF Observe
  <2>5. last'.by = Answer(regions[i], a, size, write)
          /\ last'.a = a /\ last'.size = size
    BY <2>1
  <2>6. last'.by # "memory"
    BY <2>5 DEF Answer
  <2>7. TrapsHandled'
    <3> SUFFICES ASSUME Answer(regions[i], a, size, write) = "emu68",
                        NEW j \in DOMAIN regions, Contains(regions[j], a),
                        Inside(regions[j], a, size)
                 PROVE  Cardinality(regions[j].ops) = 1
      BY <2>5 DEF TrapsHandled
    <3>1. j = i
      BY <1>2, <2>2 DEF MapInv, TableInv, OneMeaning
    <3>2. /\ regions[i].kind = "EXTERNAL" /\ regions[i].ops # {}
          /\ (IF write THEN "write" ELSE "read") \notin regions[i].ops
      BY <2>3, <3>1 DEF Answer, Unowned, Sound, Region, Kinds
    <3>3. regions[i].ops \subseteq {"read", "write"}
      BY <2>3 DEF Sound, Region
    <3>4. \/ regions[i].ops = {"read"} \/ regions[i].ops = {"write"}
      BY <3>2, <3>3
    <3> QED
      BY <3>1, <3>4, FS_Singleton
  <2> QED
    BY <2>4, <2>6, <2>7
<1> QED
  BY <1>4, <1>5

LEMMA AccessKeeps ==
    ASSUME Assumptions, MapInv, Access
    PROVE  MapInv'
<1>1. /\ at = "guest"
      /\ UNCHANGED <<rigel, vecpage, at, todo, regions, mmu>>
  BY DEF Access
<1>2. PICK a \in Probes, size \in Sizes, write \in BOOLEAN, pc \in PCs :
        IF FaultsAt(a, size) = {}
        THEN /\ last' = [by |-> "memory", a |-> a, size |-> size,
                         write |-> write]
             /\ UNCHANGED <<bus_table, direct_fault>>
        ELSE \E far \in FaultsAt(a, size) : machine_bus(far, size, write, pc)
  BY DEF Access
<1>3. a \in Address /\ size \in Nat
  BY DEF Assumptions, SizesAssumption
<1>4. TableInv'
  BY <1>1 DEF MapInv, TableInv, OneMeaning, PoliciesAgree
<1>5. CASE FaultsAt(a, size) = {}
  <2>1. \A b \in Touches(a, size) : mmu[b].access
    <3> DEFINE Bad == {b \in Touches(a, size) : ~mmu[b].access}
    <3> SUFFICES ASSUME Bad # {} PROVE FALSE
      OBVIOUS
    <3>1. Bad \subseteq Nat
      BY DEF Touches, Address
    <3>2. \E b \in Bad : \A c \in Bad : b <= c
      BY <3>1, LeastOf
    <3> QED
      BY <3>2, <1>5 DEF FaultsAt, Touches, Address
  <2>2. last'.by = "memory" /\ last'.a = a /\ last'.size = size
          /\ UNCHANGED <<bus_table, direct_fault>>
    BY <1>2, <1>5
  <2>3. NoBypass'
    <3> SUFFICES ASSUME NEW i \in DOMAIN regions, regions[i].kind # "DIRECT",
                        NEW b \in Touches(a, size), b \in Span(regions[i])
                 PROVE  FALSE
      BY <1>1, <2>2 DEF NoBypass
    <3> QED
      BY <2>1, TrappedFaults
  <2>4. TypeOK'
    BY <1>1, <2>2 DEF MapInv, TypeOK
  <2>5. AccessInv'
    BY <1>1, <2>2, <2>3 DEF MapInv, AccessInv, NoDirectFault, TrapsHandled
  <2> QED
    BY <1>4, <2>4, <2>5 DEF MapInv
<1>6. CASE FaultsAt(a, size) # {}
  <2>1. PICK far \in FaultsAt(a, size) : machine_bus(far, size, write, pc)
    BY <1>2, <1>6
  <2>2. far \in Address /\ ~mmu[far].access
    BY DEF FaultsAt, Touches
  <2>3. /\ direct_fault' = FALSE /\ last'.by # "memory" /\ TrapsHandled'
        /\ IsFiniteSet(bus_table') /\ Cardinality(bus_table') <= Entries
    BY <1>1, <1>3, <2>1, <2>2, BusIsRight
  <2>4. TypeOK'
    BY <1>1, <2>3 DEF MapInv, TypeOK
  <2>5. AccessInv'
    BY <1>1, <2>3 DEF AccessInv, NoDirectFault, NoBypass
  <2> QED
    BY <1>4, <2>4, <2>5 DEF MapInv
<1> QED
  BY <1>5, <1>6

\* The table has one meaning for an address and the MMU that of the table; a
\* direct region never reaches the fault path, an access is never served from
\* memory that has an address in a trapped region, and a fault inside a region
\* is answered, for every layout and every set of regions below the top of the
\* space (region.c, bus.c).
THEOREM MapIsRight ==
    ASSUME PageAssumption, BelowTop, LayoutAssumption, SizesAssumption
    PROVE  Spec => []MapRight
<1>0. Assumptions
  BY DEF Assumptions
<1>1. Init => MapInv
  BY <1>0, MapInit
<1>2. MapInv /\ [Next]_vars => MapInv'
  <2>1. CASE Next
    BY <2>1, <1>0, BootKeeps, AccessKeeps DEF Next
  <2>2. CASE UNCHANGED vars
    BY <2>2 DEF vars, MapInv, TypeOK, TableInv, OneMeaning, PoliciesAgree,
                AccessInv, NoDirectFault, NoBypass, TrapsHandled
  <2> QED
    BY <2>1, <2>2
<1>3. MapInv => MapRight
  BY DEF MapInv, MapRight, TableInv, AccessInv
<1> QED
  BY <1>1, <1>2, <1>3, PTL DEF Spec
==============================================================================
