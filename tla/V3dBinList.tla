----------------------------- MODULE V3dBinList ------------------------------
(***************************************************************************)
(* What a job's binner and shaders read: the scan of the client's command  *)
(* list, process_bin_cl and relocate_shader_recs of                        *)
(* aros/arch/m68k-emu68/hidd/vc4gallium/vc4_drm_aros.c.                    *)
(*                                                                         *)
(* The client, Mesa, gives a list of packets, the shader records these     *)
(* name in their order, and one stream of uniform words.  The engine reads *)
(* copies: the list without its handles, each record at an address         *)
(* computed while the list is walked and filled in later, the words        *)
(* without their texture handles, and, the processor being big-endian, the *)
(* 16-bit indices and the vertices swapped in scratch memory.  Sizes are   *)
(* in bytes; the values of words and vertices are where they come from.    *)
(* The buffer of records and the stream are as long as the records the     *)
(* client uses need; extended records, and the second handle of a pair,    *)
(* which nothing reads, are left out.                                      *)
(***************************************************************************)
EXTENDS Integers, Sequences, FiniteSets

CONSTANTS
    Prims,      \* primitives a client may draw
    Recs,       \* shader records a client may use
    Configs,    \* tile counts a client may configure: <<x, y>>
    Max,        \* last tile the client says it draws to: <<x, y>>
    BO,         \* the size of each buffer of the job, by its index, from 1
    Index,      \* the 16-bit indices in each buffer
    Spoils,     \* a list may hold a packet the driver does not know
    MaxPackets  \* bound: packets of a list

VARIABLES
    cl, records,    \* of the client: packets, and the records of its shader packets
    stage,          \* "client", "bin", "size", "relocate", "engine" or "refused"
    i,              \* packets, or records, done
    tiles,          \* tile_count
    bin_tiles,      \* exec.bin_tiles_x and y
    current,        \* current_hindex[0]
    out,            \* packets of the engine's list
    shader_rec_p,   \* where the next record will be
    maxes,          \* shader_state_max_index
    index_size, index_used, indices,    \* the scratch of the indices, what is copied to it
    attr_size, attr_used, vertices,     \* the same, of the vertices
    recs_out,       \* records of the engine
    uni_src, uniforms   \* words of the stream consumed, words written

bin  == <<tiles, bin_tiles, current, out, shader_rec_p, maxes, index_size, index_used, indices>>
rec  == <<attr_size, attr_used, vertices, recs_out, uni_src, uniforms>>
vars == <<cl, records, stage, i, tiles, bin_tiles, current, out, shader_rec_p, maxes,
          index_size, index_used, indices, attr_size, attr_used, vertices, recs_out,
          uni_src, uniforms>>

Init ==
    /\ cl = <<>> /\ records = <<>> /\ stage = "client" /\ i = 0 /\ tiles = 0
    /\ bin_tiles = <<Max[1] + 1, Max[2] + 1>> /\ current = 1 /\ out = <<>>
    /\ shader_rec_p = 0 /\ maxes = <<>> /\ index_size = 0 /\ index_used = 0 /\ indices = {}
    /\ attr_size = 0 /\ attr_used = 0 /\ vertices = {} /\ recs_out = <<>>
    /\ uni_src = 0 /\ uniforms = <<>>

-----------------------------------------------------------------------------
RoundUp(n, k) == ((n + k - 1) \div k) * k
Larger(a, b)  == IF a > b THEN a ELSE b

\* The sum of f[1], ..., f[n].
Total(f, n) == LET s[k \in 0..n] == IF k = 0 THEN 0 ELSE s[k - 1] + f[k] IN s[n]

PacketSize == [config |-> 16, handles |-> 9, shader |-> 5, indexed |-> 14, array |-> 10,
               other |-> 5, unknown |-> 0]
Bytes(list) == Total([k \in 1..Len(list) |-> PacketSize[list[k].op]], Len(list))

RecSize(r)  == 36 + Len(r.attrs) * 8
Relocs(r)   == 3 + Len(r.attrs)
Stride(a)   == IF a.stride = 0 THEN a.size ELSE a.stride
\* The client's record buffer: the handles of a record, then the record.
RecsSize == Total([k \in 1..Len(records) |-> 4 * Relocs(records[k]) + RecSize(records[k])],
                  Len(records))

\* The uniform words of a stage in the stream: texture handles, then data.
StageWords(r, s) == [k \in 1..r.tex[s] |-> <<"tex", s, k>>]
                    \o [k \in 1..r.words[s] |-> <<"data", s, k>>]
Stream ==
    LET f[k \in 0..3 * Len(records)] ==
            IF k = 0 THEN <<>> ELSE
            LET r == (k + 2) \div 3
            IN f[k - 1] \o [w \in DOMAIN StageWords(records[r], ((k + 2) % 3) + 1) |->
                              <<r>> \o StageWords(records[r], ((k + 2) % 3) + 1)[w]]
    IN f[3 * Len(records)]

-----------------------------------------------------------------------------
(* The client.                                                             *)

Packets ==
    Prims \cup {[op |-> "other"]} \cup [op : {"config"}, tiles : Configs]
    \cup [op : {"handles"}, hindex : DOMAIN BO \cup {Len(BO) + 1}]
    \cup (IF Spoils THEN {[op |-> "unknown"]} ELSE {})

Add ==
    /\ stage = "client" /\ Len(cl) < MaxPackets
    /\ \/ \E p \in Packets : cl' = Append(cl, p) /\ UNCHANGED records
       \/ \E r \in Recs : /\ cl' = Append(cl, [op |-> "shader"])
                          /\ records' = Append(records, r)
    /\ UNCHANGED <<stage, i, bin, rec>>

\* The list up to the first packet that is not known.
Known == {k \in 1..Len(cl) : \A j \in 1..k : cl[j].op # "unknown"}

DrawBounds(d) == Max[d] + 1     \* mutant: the tiles drawn to, not those configured

\* The most tiles of any configuration of the list, and at least those drawn to:
\* the binner keeps the state of every tile of its configuration.
Widest(d) ==
    LET all == {Max[d] + 1} \cup {cl[k].tiles[d] : k \in {j \in Known : cl[j].op = "config"}}
    IN CHOOSE n \in all : \A m \in all : m <= n

\* The scan before the job gets its memory.
Submit ==
    /\ stage = "client" /\ stage' = "bin"
    /\ tiles' = Widest(1) * Widest(2)
    /\ index_size' = Total([k \in 1..Len(cl) |->
                              IF k \in Known /\ cl[k].op = "indexed" /\ cl[k].wide
                              THEN RoundUp(cl[k].count * 2, 4) ELSE 0], Len(cl))
    /\ UNCHANGED <<cl, records, i, bin_tiles, current, out, shader_rec_p, maxes, index_used,
                   indices, rec>>

-----------------------------------------------------------------------------
(* process_bin_cl, a packet at a time.                                     *)

BinMax == Bytes(cl) + 256

\* An output packet with no room fails the submission, as an unknown packet does.
At(op) ==
    /\ stage = "bin" /\ i < Len(cl) /\ cl[i + 1].op = op
    /\ Bytes(out) + PacketSize[op] <= BinMax
    /\ i' = i + 1 /\ UNCHANGED <<cl, records, stage, tiles, index_size, rec>>

Emit(p) == out' = Append(out, p)

\* No list: "synthesize a minimal draw-less bin CL".
Synthesize ==
    /\ stage = "bin" /\ cl = <<>> /\ stage' = "size"
    /\ out' = <<[op |-> "config", tiles |-> bin_tiles]>> \o [k \in 1..3 |-> [op |-> "other"]]
    /\ UNCHANGED <<cl, records, i, tiles, bin_tiles, current, shader_rec_p, maxes, index_size,
                   index_used, indices, rec>>

\* Not a packet of the engine: it is not copied.
Handles ==
    /\ At("handles") /\ current' = cl[i + 1].hindex
    /\ UNCHANGED <<bin_tiles, out, shader_rec_p, maxes, index_used, indices>>

Packed(r) == RecSize(r)     \* mutant: records follow one another with no gap

Room(r) == RoundUp(RecSize(r), 16)

ShaderState ==
    /\ At("shader") /\ Len(maxes) < Bytes(cl) \div 5 + 1
    /\ LET r == records[Len(maxes) + 1]
       IN Emit([op |-> "shader", at |-> shader_rec_p]) /\ shader_rec_p' = shader_rec_p + Room(r)
    /\ maxes' = Append(maxes, 0)
    /\ UNCHANGED <<bin_tiles, current, index_used, indices>>

LastOne(old, new) == new    \* mutant: the last primitive of a record decides

Most(old, new) == Larger(old, new)

\* The record in force learns the largest index drawn with it.
Raise(max) ==
    maxes' = IF maxes = <<>> THEN maxes
             ELSE [maxes EXCEPT ![Len(maxes)] = Most(@, max)]

IndicesOf(p, b) == [k \in 1..p.count |-> Index[b][p.off \div 2 + k]]
Largest(s) == LET m[k \in 0..Len(s)] == IF k = 0 THEN 0 ELSE Larger(m[k - 1], s[k]) IN m[Len(s)]

NoStep(p) == 0      \* mutant: every primitive copies its indices to the same place

Copied(p) == 2 * p.count

RangeOk(p) ==
    /\ current \in DOMAIN BO /\ p.off + 2 * p.count <= BO[current]
    /\ 2 * p.count <= index_size - index_used

\* 16-bit indices are swapped into the scratch, and their largest is looked up.
IndexedWide ==
    /\ At("indexed")
    /\ LET p == cl[i + 1]
       IN /\ p.wide /\ RangeOk(p)
          /\ LET v == IndicesOf(p, current)
             IN /\ Raise(Largest(v))
                /\ indices' = {c \in indices : c.at # index_used}
                              \cup {[at |-> index_used, bytes |-> 2 * p.count, values |-> v]}
                /\ Emit([op |-> "indexed", wide |-> TRUE, at |-> index_used, of |-> i + 1])
          /\ index_used' = RoundUp(index_used + Copied(p), 4)
    /\ UNCHANGED <<bin_tiles, current, shader_rec_p>>

\* 8-bit indices are read where they are, and the client's maximum is taken.
IndexedNarrow ==
    /\ At("indexed") /\ ~cl[i + 1].wide
    /\ Raise(cl[i + 1].max)
    /\ Emit([op |-> "indexed", wide |-> FALSE, of |-> i + 1])
    /\ UNCHANGED <<bin_tiles, current, shader_rec_p, index_used, indices>>

Array ==
    /\ At("array")
    /\ LET p == cl[i + 1] IN Raise(IF p.count = 0 THEN p.first ELSE p.first + p.count - 1)
    /\ Emit([op |-> "array", of |-> i + 1])
    /\ UNCHANGED <<bin_tiles, current, shader_rec_p, index_used, indices>>

Config ==
    /\ At("config") /\ bin_tiles' = cl[i + 1].tiles
    /\ Emit([op |-> "config", tiles |-> cl[i + 1].tiles])
    /\ UNCHANGED <<current, shader_rec_p, maxes, index_used, indices>>

\* Copied, its word swapped where it has one.
Other ==
    /\ At("other") /\ Emit([op |-> "other"])
    /\ UNCHANGED <<bin_tiles, current, shader_rec_p, maxes, index_used, indices>>

RefuseBin ==
    /\ stage = "bin" /\ i < Len(cl) /\ stage' = "refused"
    /\ LET p == cl[i + 1]
       IN \/ p.op = "unknown" \/ Bytes(out) + PacketSize[p.op] > BinMax
          \/ p.op = "indexed" /\ p.wide /\ ~RangeOk(p)
    /\ UNCHANGED <<cl, records, i, bin, rec>>

BinDone ==
    /\ stage = "bin" /\ cl # <<>> /\ i = Len(cl)
    /\ stage' = IF out = <<>> THEN "refused" ELSE "size"
    /\ UNCHANGED <<cl, records, i, bin, rec>>

-----------------------------------------------------------------------------
(* do_submit_cl, after the list: how much scratch the vertices need.       *)

AttrBytes(k, a) == (maxes[k] + 1) * Stride(a)
AttrTotal ==
    Total([k \in 1..Len(records) |->
             Total([j \in 1..Len(records[k].attrs) |->
                      RoundUp(AttrBytes(k, records[k].attrs[j]), 16)], Len(records[k].attrs))],
          Len(records))

SizeAttrs ==
    /\ stage = "size" /\ stage' = "relocate" /\ i' = 0
    /\ attr_size' = AttrTotal
    /\ UNCHANGED <<cl, records, bin, attr_used, vertices, recs_out, uni_src, uniforms>>

-----------------------------------------------------------------------------
(* relocate_shader_recs, a record at a time.                               *)

\* Where the words of stage s of record r begin in the stream, and in the output.
SkipData(r, s) == r.words[s]    \* mutant: the handles are not stepped over

Consumed(r, s) == r.tex[s] + r.words[s]

SrcAt(r, s) == uni_src + Total([k \in 1..3 |-> Consumed(r, k)], s - 1)
DstAt(r, s) == Len(uniforms) + Total([k \in 1..3 |-> r.words[k]], s - 1)

\* Data words; the first word of texture sample t, r.p0[s][t], gets its address.
WordsOut(r, s) ==
    [w \in 1..r.words[s] |->
       LET word == Stream[SrcAt(r, s) + r.tex[s] + w]
           t == {k \in 1..r.tex[s] : r.p0[s][k] = w}
       IN IF t = {} THEN word
          ELSE <<"texture", Stream[SrcAt(r, s) + (CHOOSE k \in t : \A j \in t : j <= k)], word>>]

\* A copy of the vertices up to the largest index, from the attribute's offset on.
AttrAt(k, j) ==
    attr_used + Total([n \in 1..Len(records[k].attrs) |->
                         RoundUp(AttrBytes(k, records[k].attrs[n]), 16)], j - 1)

AttrOk(k, j) ==
    LET a == records[k].attrs[j]
    IN /\ a.bo \in DOMAIN BO /\ a.off + AttrBytes(k, a) <= BO[a.bo]
       /\ AttrBytes(k, a) <= attr_size - AttrAt(k, j)

StreamOk(r) == uni_src + Total([s \in 1..3 |-> Consumed(r, s)], 3) <= Len(Stream)

Relocate ==
    /\ stage = "relocate" /\ i < Len(maxes)
    /\ LET k == i + 1
           r == records[k]
           before == Total([n \in 1..i |-> RoundUp(RecSize(records[n]), 16)], i)
       IN /\ StreamOk(r) /\ \A j \in 1..Len(r.attrs) : AttrOk(k, j)
          /\ recs_out' = Append(recs_out,
                [at |-> before, uniforms |-> [s \in 1..3 |-> DstAt(r, s)],
                 attrs |-> [j \in 1..Len(r.attrs) |-> AttrAt(k, j)]])
          /\ uniforms' = uniforms \o WordsOut(r, 1) \o WordsOut(r, 2) \o WordsOut(r, 3)
          /\ uni_src' = uni_src + Total([s \in 1..3 |-> Consumed(r, s)], 3)
          /\ vertices' = vertices \cup
                {[at |-> AttrAt(k, j), bytes |-> AttrBytes(k, r.attrs[j]), rec |-> k, attr |-> j]
                 : j \in 1..Len(r.attrs)}
          /\ attr_used' = AttrAt(k, Len(r.attrs) + 1)
    /\ i' = i + 1
    /\ UNCHANGED <<cl, records, stage, bin, attr_size>>

RefuseRec ==
    /\ stage = "relocate" /\ i < Len(maxes) /\ stage' = "refused"
    /\ ~StreamOk(records[i + 1]) \/ \E j \in 1..Len(records[i + 1].attrs) : ~AttrOk(i + 1, j)
    /\ UNCHANGED <<cl, records, i, bin, rec>>

Ready ==
    /\ stage = "relocate" /\ i = Len(maxes) /\ stage' = "engine"
    /\ UNCHANGED <<cl, records, i, bin, rec>>

Next ==
    \/ Add \/ Submit
    \/ Synthesize \/ Handles \/ ShaderState \/ IndexedWide \/ IndexedNarrow \/ Array
    \/ Config \/ Other \/ RefuseBin \/ BinDone
    \/ SizeAttrs \/ Relocate \/ RefuseRec \/ Ready

Spec == Init /\ [][Next]_vars

-----------------------------------------------------------------------------
TypeOK ==
    /\ stage \in {"client", "bin", "size", "relocate", "engine", "refused"}
    /\ i \in 0..MaxPackets /\ Len(maxes) <= Len(records) /\ Len(recs_out) <= Len(maxes)
    /\ index_used <= index_size /\ attr_used <= attr_size
    /\ uni_src <= Len(Stream) /\ Len(uniforms) <= Len(Stream)

Engine == stage = "engine"
Drawn == {k \in 1..Len(out) : out[k].op \in {"indexed", "array"}}

\* The record in force at packet k of the engine's list: the one at the address the
\* last shader packet before it holds.
InForce(k) ==
    LET shaders == {j \in 1..k : out[j].op = "shader"}
        last == CHOOSE j \in shaders : \A n \in shaders : n <= j
    IN {n \in 1..Len(recs_out) : shaders # {} /\ recs_out[n].at = out[last].at}

\* And the one the client had in force at the same place of its list.
Meant(k) == Cardinality({j \in 1..out[k].of : cl[j].op = "shader"})

\* The buffer in force at packet k of the client's list: the first, if none is named.
BufferAt(k) ==
    LET h == {j \in 1..k : cl[j].op = "handles"}
    IN IF h = {} THEN 1 ELSE cl[CHOOSE j \in h : \A n \in h : n <= j].hindex

\* The vertices a primitive uses.
Used(k) ==
    LET p == cl[out[k].of]
    IN IF p.op = "array" THEN p.first..(p.first + p.count - 1)
       ELSE IF ~p.wide THEN 0..p.max
       ELSE {Index[BufferAt(out[k].of)][p.off \div 2 + n] : n \in 1..p.count}

\* Every primitive is drawn with the record the client drew it with, and every
\* vertex of it is in that record's own copy of each attribute.
VerticesTheirs ==
    Engine => \A k \in Drawn :
        Meant(k) # 0 =>
            /\ InForce(k) = {Meant(k)}
            /\ \A j \in 1..Len(records[Meant(k)].attrs), v \in Used(k) :
                 LET a == records[Meant(k)].attrs[j]
                 IN \E c \in vertices :
                      /\ c.rec = Meant(k) /\ c.attr = j
                      /\ c.at = recs_out[Meant(k)].attrs[j]
                      /\ v * a.stride + a.size <= c.bytes

\* Every indexed primitive reads the client's indices for it.
IndicesTheirs ==
    Engine => \A k \in Drawn :
        out[k].op = "indexed" /\ out[k].wide =>
            \E c \in indices : /\ c.at = out[k].at
                               /\ {c.values[n] : n \in DOMAIN c.values} = Used(k)
                               /\ c.bytes = 2 * cl[out[k].of].count

\* No two copies share a byte, and all are in the memory got for them.
Apart(cs, size) ==
    /\ \A c \in cs : c.at + c.bytes <= size
    /\ \A c, d \in cs : c # d => c.at + c.bytes <= d.at \/ d.at + d.bytes <= c.at
ScratchKept == Engine => Apart(indices, index_size) /\ Apart(vertices, attr_size)

\* Each shader finds its own words, in order, and each sample of it its texture.
UniformsTheirs ==
    Engine => \A n \in 1..Len(recs_out), s \in 1..3 :
        LET r == records[n]
        IN \A w \in 1..r.words[s] :
             uniforms[recs_out[n].uniforms[s] + w] =
               LET t == {k \in 1..r.tex[s] : r.p0[s][k] = w}
               IN IF t = {} THEN <<n, "data", s, w>>
                  ELSE <<"texture", <<n, "tex", s, CHOOSE k \in t : TRUE>>, <<n, "data", s, w>>>>

\* The memory got before the list was walked is enough for what was found in it:
\* the state of every tile configured, the sub-list of every tile drawn to, and the
\* records.
MemoryEnough ==
    Engine => /\ \A k \in 1..Len(out) : out[k].op = "config" => out[k].tiles[1] * out[k].tiles[2] <= tiles
              /\ Max[2] * bin_tiles[1] + Max[1] < tiles
              /\ \A n \in 1..Len(recs_out) : recs_out[n].at + RecSize(records[n]) <= RecsSize

\* A job whose packets are known and whose indices and vertices are all in its
\* buffers is not refused.
Legal ==
    /\ \E k \in 1..Len(cl) : cl[k].op # "handles"
    /\ \A k \in 1..Len(cl) :
         /\ cl[k].op # "unknown"
         /\ cl[k].op = "indexed" /\ cl[k].wide =>
              /\ BufferAt(k) \in DOMAIN BO /\ cl[k].off + 2 * cl[k].count <= BO[BufferAt(k)]
    /\ \A n \in 1..Len(maxes) : \A j \in 1..Len(records[n].attrs) :
         LET a == records[n].attrs[j]
         IN a.bo \in DOMAIN BO /\ a.off + maxes[n] * a.stride + a.size <= BO[a.bo]
LegalAccepted == stage = "refused" => ~Legal
=============================================================================
