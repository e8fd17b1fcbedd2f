---------------------------- MODULE V3dRenderList ----------------------------
(***************************************************************************)
(* The render list of a job: build_rcl of                                  *)
(* aros/arch/m68k-emu68/hidd/vc4gallium/vc4_drm_aros.c, and control thread *)
(* 1 of the 3D engine, which runs it.                                      *)
(*                                                                         *)
(* The engine draws a tile at a time in one tile buffer with a colour and  *)
(* a depth part.  The list says for each tile what to load into the        *)
(* buffer, where its binned primitives are and which surfaces to store it  *)
(* to; a load is only carried out by the coordinates that follow it, and a *)
(* store clears the parts it does not keep.  The job is chosen in Init; a  *)
(* packet is a record, its bytes are only counted, and a load brings the   *)
(* tile it is for, whichever of the two load packets it is.                *)
(***************************************************************************)
EXTENDS Integers, Sequences, FiniteSets

CONSTANTS
    Corners,    \* the rectangles of tiles of the jobs: sets {<<min, max>>} of <<x, y>>
    Side,       \* side of a tile of a multisampled surface, in pixels
    Blank       \* a job may store nothing

Part   == {"colour", "zs"}
Stores == {"msaa_color", "msaa_zs", "zs_write", "color_write"}
PartOf(s) == IF s \in {"msaa_zs", "zs_write"} THEN "zs" ELSE "colour"

\* What the tile buffer holds that is not a tile.
Garbage == <<-1, -1>>
Clear   == <<-2, -2>>

VARIABLES
    args,       \* drm_vc4_submit_cl
    list,       \* packets built and not yet run
    offset,     \* b.offset
    xi, yi,     \* the loops over the tiles
    stage,      \* "header", "tiles", "run", "refused" or "ended"
    buffer,     \* what each part of the tile buffer holds
    pending,    \* parts to be loaded by the next coordinates
    pos, open,  \* the tile it is at; nothing was stored since the coordinates
    waited,     \* it waited for the binner
    memory      \* what was stored where

job  == <<args, xi, yi>>
ct1  == <<buffer, pending, pos, open, waited, memory>>
vars == <<args, list, offset, xi, yi, stage, buffer, pending, pos, open, waited, memory>>

Init ==
    /\ \E c \in Corners, l \in SUBSET Part, s \in SUBSET Stores, k, px, py \in BOOLEAN :
         /\ s # {} \/ Blank
         /\ args = [min |-> c[1], max |-> c[2], loads |-> l, stores |-> s, clear |-> k,
                    positive_x |-> px, positive_y |-> py,
                    bin_tiles_x |-> c[2][1] + 1, width |-> Side * (c[2][1] + 1)]
    /\ list = <<>> /\ offset = 0 /\ xi = 0 /\ yi = 0 /\ stage = "header"
    /\ buffer = [p \in Part |-> [from |-> Garbage, drawn |-> {}]]
    /\ pending = {} /\ pos = <<0, 0>> /\ open = FALSE /\ waited = FALSE /\ memory = {}

-----------------------------------------------------------------------------
(* Packets.                                                                *)

Coords(t)       == [op |-> "coords", at |-> t, bytes |-> 3]
Load(p)         == [op |-> "load", part |-> p, bytes |-> 7]
StoreNone(keep) == [op |-> "store", to |-> "none", keep |-> keep, eof |-> FALSE, bytes |-> 7]

Bytes(ps) == LET f[i \in 0..Len(ps)] == IF i = 0 THEN 0 ELSE f[i - 1] + ps[i].bytes
             IN f[Len(ps)]

When(c, ps) == IF c THEN ps ELSE <<>>

-----------------------------------------------------------------------------
(* The tiles of the job, in the order its flags ask for.                   *)

XTiles == args.max[1] - args.min[1] + 1
YTiles == args.max[2] - args.min[2] + 1
Tiles  == (args.min[1]..args.max[1]) \X (args.min[2]..args.max[2])
Tile   == <<IF args.positive_x THEN args.min[1] + xi ELSE args.max[1] - xi,
            IF args.positive_y THEN args.min[2] + yi ELSE args.max[2] - yi>>
FirstTile == xi = 0 /\ yi = 0
LastTile  == xi = XTiles - 1 /\ yi = YTiles - 1

\* rcl_full_res_offset, in tiles: rows as wide as the frame in tiles of 64 pixels.
FullRes(t) == ((args.width + 63) \div 64) * t[2] + t[1]

\* The sub-list of a tile: its place in the tile allocation, by the binner's width.
SubList(t) == t[2] * args.bin_tiles_x + t[1]

-----------------------------------------------------------------------------
(* build_rcl.                                                              *)

\* The clear values are latched by a store to nowhere that clears the buffer.
Header ==
    When(args.clear, <<[op |-> "colors", bytes |-> 14], Coords(<<0, 0>>), StoreNone({})>>)
    \o <<[op |-> "config", bytes |-> 11]>>

BackToBack ==   \* mutant: the second load does not wait for the first
    When("colour" \in args.loads, <<Load("colour")>>)
    \o When("zs" \in args.loads, <<Load("zs")>>)

\* Coordinates carry out the first of two loads, and a store has to follow them
\* before the next; it keeps the whole buffer.
Loads ==
    When("colour" \in args.loads, <<Load("colour")>>)
    \o When(args.loads = Part, <<Coords(Tile), StoreNone(Part)>>)
    \o When("zs" \in args.loads, <<Load("zs")>>)

Draws ==
    <<Coords(Tile)>>
    \o When(FirstTile, <<[op |-> "wait", bytes |-> 1]>>)
    \o <<[op |-> "branch", sub |-> SubList(Tile), bytes |-> 5]>>

\* The surfaces of a tile are stored in this order.
Order == <<"msaa_color", "msaa_zs", "zs_write", "color_write">>
Earlier(i) == \E j \in 1..i - 1 : Order[j] \in args.stores
Later(i)   == \E j \in i + 1..4 : Order[j] \in args.stores

KeepsNothing(i) == {}   \* mutant: whatever is still to be stored is cleared

\* The last store of a tile clears the buffer for the next; a store of the depth
\* that is not the last keeps the colour.
Kept(i) == IF ~Later(i) THEN {} ELSE IF Order[i] = "zs_write" THEN {"colour"} ELSE Part

EveryTile(i) == ~Later(i)   \* mutant: each tile ends the frame

Ends(i) == ~Later(i) /\ LastTile

StoreTo(i) ==
    When(Order[i] \in args.stores,
         When(Earlier(i), <<Coords(Tile)>>)
         \o <<[op |-> "store", to |-> Order[i], keep |-> Kept(i), eof |-> Ends(i),
               place |-> IF i <= 2 THEN FullRes(Tile) ELSE -1,
               bytes |-> <<5, 5, 7, 1>>[i]]>>)

OneTile == Loads \o Draws \o StoreTo(1) \o StoreTo(2) \o StoreTo(3) \o StoreTo(4)

BuildHeader ==
    /\ stage = "header" /\ stage' = "tiles"
    /\ list' = Header /\ offset' = Bytes(Header)
    /\ UNCHANGED <<job, ct1>>

\* What do_submit_cl makes room for.
RclMax == 11 + (14 + 3 + 7)
          + XTiles * YTiles * (7 + (3 + 7) + 7 + 3 + 1 + 5 + 5 + 3 + 5 + 3 + 7 + 3 + 1) + 64

BuildTile ==
    /\ stage = "tiles"
    /\ list' = list \o OneTile /\ offset' = offset + Bytes(OneTile)
    /\ IF xi < XTiles - 1 THEN xi' = xi + 1 /\ yi' = yi ELSE xi' = 0 /\ yi' = yi + 1
    /\ stage' = IF ~LastTile THEN "tiles" ELSE IF offset' > RclMax THEN "refused" ELSE "run"
    /\ UNCHANGED <<args, ct1>>

-----------------------------------------------------------------------------
(* Control thread 1.                                                       *)

Next1(op) ==
    /\ stage = "run" /\ list # <<>> /\ Head(list).op = op
    /\ list' = Tail(list) /\ UNCHANGED <<job, offset>>

\* Only one load waits for coordinates, and none is taken between coordinates and
\* the store that has to follow them.
RunLoad ==
    /\ Next1("load")
    /\ pending' = IF open THEN {} ELSE {Head(list).part}
    /\ UNCHANGED <<stage, buffer, pos, open, waited, memory>>

RunCoords ==
    /\ Next1("coords")
    /\ pos' = Head(list).at /\ open' = TRUE /\ pending' = {}
    /\ buffer' = [p \in Part |-> IF p \in pending THEN [from |-> Head(list).at, drawn |-> {}]
                                 ELSE buffer[p]]
    /\ UNCHANGED <<stage, waited, memory>>

RunWait ==
    /\ Next1("wait") /\ waited' = TRUE
    /\ UNCHANGED <<stage, buffer, pending, pos, open, memory>>

RunBranch ==
    /\ Next1("branch")
    /\ buffer' = [p \in Part |-> [buffer[p] EXCEPT
                    !.drawn = @ \cup {IF waited THEN Head(list).sub ELSE -1}]]
    /\ UNCHANGED <<stage, pending, pos, open, waited, memory>>

\* What is stored replaces what was at that place.
RunStore ==
    /\ Next1("store")
    /\ LET p == Head(list)
           at == IF p.to \in {"msaa_color", "msaa_zs"} THEN <<p.place>> ELSE pos
       IN /\ memory' = IF p.to = "none" THEN memory
                       ELSE {m \in memory : <<m.to, m.at>> # <<p.to, at>>}
                            \cup {[to |-> p.to, at |-> at, tile |-> pos,
                                   holds |-> buffer[PartOf(p.to)]]}
          /\ buffer' = [q \in Part |-> IF q \in p.keep THEN buffer[q]
                                       ELSE [from |-> Clear, drawn |-> {}]]
          /\ stage' = IF p.eof THEN "ended" ELSE stage
    /\ open' = FALSE /\ UNCHANGED <<pending, pos, waited>>

RunOther ==
    /\ Next1("colors") \/ Next1("config")
    /\ UNCHANGED <<stage, ct1>>

Next == BuildHeader \/ BuildTile \/ RunLoad \/ RunCoords \/ RunWait \/ RunBranch \/ RunStore \/ RunOther

Spec == Init /\ [][Next]_vars

-----------------------------------------------------------------------------
TypeOK ==
    /\ stage \in {"header", "tiles", "run", "refused", "ended"} /\ offset \in Nat
    /\ xi \in 0..XTiles /\ yi \in 0..YTiles
    /\ pending \subseteq Part /\ pos \in Nat \X Nat /\ open \in BOOLEAN /\ waited \in BOOLEAN
    /\ \A p \in Part : buffer[p].from \in {Garbage, Clear} \cup Tiles
    /\ \A m \in memory : m.to \in Stores

\* What a part of a tile shows in the end: its own primitives over what was
\* loaded for it, or over the clear values.
Shows(p, t) == {[from |-> f, drawn |-> {SubList(t)}] :
                f \in IF p \in args.loads THEN {t} ELSE
                      IF args.clear THEN {Clear} ELSE {Clear, Garbage}}

\* When the frame has ended every surface of the job holds every tile: at its own
\* place, its own primitives, over its own background, whatever else was loaded
\* and stored with it.
EveryTileStored ==
    stage = "ended" =>
        \A s \in args.stores, t \in Tiles :
            \E m \in memory : m.to = s /\ m.tile = t /\ m.holds \in Shows(PartOf(s), t)

\* The frame ends with the last packet and not before: a list that ends without
\* it leaves the control thread, and who waits for the job, where they are.
EndsWithList == stage \in {"run", "ended"} => (stage = "ended" <=> list = <<>>)

\* The room made for a list is enough for every job.
ListFits == stage # "refused"
=============================================================================
