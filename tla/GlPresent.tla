------------------------------ MODULE GlPresent ------------------------------
(***************************************************************************)
(* How a frame of OpenGL reaches the screen: aros_drm_vc4.c, which runs on  *)
(* the client, with the buffers of vc4_drm_aros.c and the copies and flips  *)
(* of vc4_galliumclass.c (aros/arch/m68k-emu68/hidd/vc4gallium).            *)
(*                                                                         *)
(* A surface as large as the frame is drawn into the back page and the      *)
(* pages are flipped; that of a window goes through a ring of three         *)
(* buffers, one on an overlay plane; any other is copied by DMA.  A present *)
(* holds the layer, so it is one step, enabled when the jobs it waits for   *)
(* are done.  DisplayPlanes has the scaler under set_overlay and the flip,  *)
(* V3dJobs the jobs; here a job is the number of the frame it draws.        *)
(***************************************************************************)
EXTENDS Integers, FiniteSets

CONSTANTS
    Last,           \* VC4_MAX_BOS - 1
    Addresses,      \* where Mesa may allocate a render resource
    MaxScreens,     \* bound: pipe screens at a time
    MaxFrames,      \* bound: frames drawn
    MaxResources,   \* bound: resources allocated
    MaxFaults       \* bound: refusals of the display and failed allocations

SizeAssumption == Last \in Nat /\ 0 \notin Addresses

VARIABLES
    gl,                 \* the buffers, the pins and who holds what, below
    seqno, finished,    \* v3d.seqno, v3d.finished_seqno
    fresh,              \* a frame is drawn and not presented
    screens,            \* aros_drm_screens
    resources, faults   \* how many so far

vars == <<gl, seqno, finished, fresh, screens, resources, faults>>

Handles == 1..Last
Pages == {-1, -2}       \* the two pages of the framebuffer
Other(p) == -3 - p
Stores == Handles \cup Pages    \* what a job draws into

NoScan == [rsc |-> 0, page |-> 0]
NoRing == [rsc |-> 0, page |-> 0, queued |-> 0, seq |-> 0, onplane |-> 0,
           freep |-> 0, shown |-> FALSE, refused |-> 0]

\* No buffer, no screen; the page shown is the first.
Empty == [ref |-> [h \in Handles |-> 0], page |-> [h \in Handles |-> 0],
          next |-> 0,                                   \* bo_next_handle
          pinned |-> 0, displaced |-> 0, dma |-> 0,     \* *_handle
          rsc |-> 0, bo |-> 0, fits |-> FALSE,          \* the render resource
          scan |-> NoScan, ovl |-> NoRing,          \* aros_scanout, aros_ovl
          front |-> -1, drawn |-> [s \in Stores |-> 0]] \* last job into each

Init ==
    /\ gl = Empty /\ seqno = 0 /\ finished = 0 /\ fresh = FALSE
    /\ screens = 0 /\ resources = 0 /\ faults = 0

-----------------------------------------------------------------------------
(* Buffers.                                                                *)

\* Next fit: bo_next_handle itself is the last that would be tried, and is not.
Free(g) == {h \in Handles \ {g.next} : g.ref[h] = 0}
Handle(g) == CHOOSE h \in Free(g) : \A k \in Free(g) :
                (h - g.next) % (Last + 1) <= (k - g.next) % (Last + 1)

Enter(g, h, p) ==
    [g EXCEPT !.ref[h] = 1, !.page[h] = p, !.next = h, !.drawn[h] = 0]

\* ioctl_create_bo, for memory that the firmware has.
Create(g) == Enter(g, Handle(g), 0)

Unref(g, h) ==
    IF h = 0 \/ g.ref[h] = 0 THEN g
    ELSE [g EXCEPT !.ref[h] = @ - 1, !.page[h] = IF g.ref[h] = 1 THEN 0 ELSE @]

\* ioctl_gem_open of a page of the framebuffer: the buffer that wraps it, or
\* another one.
Wraps(g, p) == {h \in Handles : g.ref[h] > 0 /\ g.page[h] = p}
Opens(g, p) == IF Wraps(g, p) # {} THEN Wraps(g, p)
               ELSE {Handle(g) : h \in Free(g)}
Open(g, h, p) ==
    IF h \in Wraps(g, p) THEN [g EXCEPT !.ref[h] = @ + 1] ELSE Enter(g, h, p)

Store(g, h) == IF g.page[h] # 0 THEN g.page[h] ELSE h

Drawn(g, h) == g.drawn[Store(g, h)]

-----------------------------------------------------------------------------
(* The display: the plane, the flip, the copy.                             *)

\* vc4_aros_overlay_latch_wait
Retire(g) == [Unref(g, g.displaced) EXCEPT !.displaced = 0]

\* vc4_aros_set_overlay for a display that takes the plane, or refuses it.
SetOverlay(g, h) ==
    LET q == [Retire(g) EXCEPT !.ref[h] = @ + 1, !.pinned = h]
    IN IF g.pinned = h THEN Unref(q, h) ELSE [q EXCEPT !.displaced = g.pinned]
RefuseOverlay(g) == [Unref(Retire(g), g.pinned) EXCEPT !.pinned = 0]

ClearOverlay(g) ==
    [Unref(Unref(g, g.pinned), g.displaced) EXCEPT
        !.pinned = 0, !.displaced = 0]

\* vc4_aros_flip_scanout, once nothing is drawn or copied: the pin of the last
\* copy goes, and the pages change places.
Turn(g) == [Unref(g, g.dma) EXCEPT !.dma = 0, !.front = Other(@)]

\* vc4_aros_display_blit of the resource's buffer, by DMA or by the processor: a
\* copy of the whole frame goes to the back page and flips; its buffer stays
\* pinned until the next.
Copy(g, whole, bad) ==
    IF "copy" \in bad THEN g
    ELSE [Unref([g EXCEPT !.ref[g.bo] = @ + 1], g.dma) EXCEPT
            !.dma = g.bo, !.front = IF whole THEN Other(@) ELSE @]

-----------------------------------------------------------------------------
(* What the client keeps of it.                                            *)

\* aros_ovl_suspend, aros_ovl_exit
Suspend(g) ==
    [IF g.ovl.shown THEN ClearOverlay(g) ELSE g EXCEPT !.ovl.shown = FALSE]
Exit(g) ==
    [Unref(Unref(Unref(Suspend(g), g.ovl.queued), g.ovl.onplane), g.ovl.freep)
        EXCEPT !.ovl = [NoRing EXCEPT !.refused = g.ovl.refused]]

Forget(g) == [g EXCEPT !.scan = NoScan]

\* A present begins by dropping what it keeps of another resource.
Known(g) ==
    LET s == IF g.scan.rsc \in {0, g.rsc} THEN g ELSE Forget(g)
        o == IF s.ovl.rsc \in {0, g.rsc} THEN s ELSE Exit(s)
    IN [o EXCEPT !.ovl.refused = IF @ = g.rsc THEN @ ELSE 0]

Bound(g) == g.scan.rsc = g.rsc /\ g.bo = g.scan.page

\* aros_scanout_bind_back
CanBind(g, bad) == "page" \notin bad /\ Opens(g, Other(g.front)) # {}
BindBack(g) ==
    LET h == CHOOSE h \in Opens(g, Other(g.front)) : TRUE
    IN [Unref(Open(g, h, Other(g.front)), g.bo) EXCEPT
            !.bo = h, !.scan = [rsc |-> g.rsc, page |-> h]]

\* aros_scanout_unbind: without memory for a buffer of its own the resource
\* keeps the page.
Unbind(g, bad) ==
    IF "memory" \in bad \/ Free(g) = {} THEN Forget(g)
    ELSE Forget([Unref(Create(g), g.bo) EXCEPT !.bo = Handle(g)])

\* The queue is shown; the page that leaves the plane is drawn into next.
Rotate(g) ==
    [SetOverlay(g, g.ovl.queued) EXCEPT
        !.bo = g.ovl.onplane,
        !.ovl = [@ EXCEPT !.shown = TRUE, !.onplane = g.ovl.queued,
                          !.queued = g.bo, !.seq = seqno,
                          !.page = g.ovl.onplane]]

-----------------------------------------------------------------------------
(* The client.                                                             *)

Fails(kinds) == {bad \in SUBSET kinds : faults + Cardinality(bad) <= MaxFaults}
Failed(bad) == faults' = faults + Cardinality(bad)
Idle == finished = seqno        \* vc4_aros_wait_idle

\* vc4_aros_create_screen by the task of the last one, which sweeps nothing.
CreateScreen ==
    /\ screens < MaxScreens
    /\ screens' = screens + 1
    /\ UNCHANGED <<gl, seqno, finished, fresh, resources, faults>>

\* The state tracker replaces the resource, by another of its size or not and
\* perhaps at its address.
Resource(a, fits) ==
    /\ screens > 0 /\ resources < MaxResources /\ Free(gl) # {}
    /\ gl' = [Unref(Create(gl), gl.bo) EXCEPT
                !.rsc = a, !.bo = Handle(gl), !.fits = fits]
    /\ resources' = resources + 1
    /\ fresh' = FALSE
    /\ UNCHANGED <<seqno, finished, screens, faults>>

\* A job that draws a frame; a buffer just off the plane is retired first.
Draw ==
    /\ gl.rsc # 0 /\ ~fresh /\ seqno < MaxFrames
    /\ seqno' = seqno + 1 /\ fresh' = TRUE
    /\ LET g == IF gl.bo = gl.displaced THEN Retire(gl) ELSE gl
       IN gl' = [g EXCEPT !.drawn[Store(g, g.bo)] = seqno + 1]
    /\ UNCHANGED <<finished, screens, resources, faults>>

\* The engine is done with a job.
Finish ==
    /\ finished < seqno
    /\ finished' = finished + 1
    /\ UNCHANGED <<gl, seqno, fresh, screens, resources, faults>>

-----------------------------------------------------------------------------
(* aros_drm_blit_resource, for a resource as large as the frame.           *)

\* A present of a new frame becomes q, with the failures bad.
Presents(q, bad) ==
    /\ fresh /\ fresh' = FALSE
    /\ gl' = q /\ Failed(bad)
    /\ UNCHANGED <<seqno, finished, screens, resources>>

\* In the steady state no pixels move.  A flip that is refused, or a back page
\* that cannot be opened, has the frame copied and the page given up.
FlipFrame ==
    LET g == Known(gl) IN
    /\ gl.rsc # 0 /\ gl.fits /\ Bound(g) /\ Idle
    /\ \E bad \in Fails({"flip", "page", "copy", "memory"}) :
        LET t == [Turn(g) EXCEPT
                    !.front = IF "flip" \in bad THEN g.front ELSE @]
            copied == Copy(Forget(t), "flip" \notin bad, bad)
        IN Presents(IF "flip" \notin bad /\ CanBind(t, bad) THEN BindBack(t)
                    ELSE Unbind(copied, bad), bad)

\* The first frame is copied, and the next drawn into the back page.
EnterFrame ==
    LET g == Known(gl) IN
    /\ gl.rsc # 0 /\ gl.fits /\ ~Bound(g) /\ Idle
    /\ \E bad \in Fails({"page", "copy"}) :
        LET t == Copy(g, TRUE, bad)
        IN Presents(IF CanBind(t, bad) THEN BindBack(t) ELSE t, bad)

\* Something is in front of it.
CoveredFrame ==
    LET g == Known(gl) IN
    /\ gl.rsc # 0 /\ gl.fits /\ Idle
    /\ \E bad \in Fails({"copy", "memory"}) :
        LET t == Copy(g, FALSE, bad)
        IN Presents(IF Bound(g) THEN Unbind(t, bad) ELSE t, bad)

-----------------------------------------------------------------------------
(* aros_drm_blit_resource, for the resource of a window.                   *)

Ring(g) == g.ovl.rsc = g.rsc /\ g.bo = g.ovl.page

\* The second present: the frame waits, and the third page is drawn into.
FillRing ==
    LET g == Known(gl) IN
    /\ gl.rsc # 0 /\ ~gl.fits /\ Ring(g) /\ g.ovl.queued = 0
    /\ Presents([g EXCEPT !.bo = g.ovl.freep,
            !.ovl = [@ EXCEPT !.queued = g.bo, !.seq = seqno, !.freep = 0,
                              !.page = g.ovl.freep]], {})

\* Every other: the frame before is shown once its jobs are done.  When the
\* plane is refused the ring is given up, and the frame copied.
PresentRing ==
    LET g == Known(gl) IN
    /\ gl.rsc # 0 /\ ~gl.fits /\ Ring(g) /\ g.ovl.queued # 0
    /\ g.ovl.seq <= finished
    /\ \E bad \in Fails({"plane", "copy"}) :
        IF "plane" \notin bad THEN bad = {} /\ Presents(Rotate(g), bad)
        ELSE LET t == [Exit(RefuseOverlay(g)) EXCEPT !.ovl.refused = g.rsc]
             IN Idle /\ Presents(Copy(t, FALSE, bad), bad)

\* The first: the frame itself is shown, and two pages are allocated.
EnterRing ==
    LET g == Known(gl)
        t == Create(g)
        two == Create(t)
    IN
    /\ gl.rsc # 0 /\ ~gl.fits /\ g.ovl.rsc = 0 /\ g.ovl.refused = 0 /\ Idle
    /\ \E bad \in Fails({"memory", "plane", "copy"}) :
        IF bad = {} /\ Free(g) # {} /\ Free(t) # {}
        THEN Presents([SetOverlay(two, g.bo) EXCEPT !.bo = Handle(g),
                !.ovl = [NoRing EXCEPT !.rsc = g.rsc, !.page = Handle(g),
                    !.onplane = g.bo, !.freep = Handle(t), !.shown = TRUE]],
                bad)
        ELSE Presents(Copy([IF "plane" \in bad THEN RefuseOverlay(g) ELSE g
                                EXCEPT !.ovl.refused = g.rsc], FALSE, bad), bad)

\* Something is in front of it: the plane is hidden and the ring kept.
CoveredWindow ==
    LET g == Known(gl)
        t == IF g.ovl.rsc = g.rsc THEN Suspend(g) ELSE g
    IN
    /\ gl.rsc # 0 /\ ~gl.fits /\ Idle
    /\ \E bad \in Fails({"copy"}) : Presents(Copy(t, FALSE, bad), bad)

\* The plane was refused to this resource, or its buffer is not the ring's.
CopyWindow ==
    LET g == Known(gl)
        t == IF g.ovl.rsc = g.rsc THEN Exit(g) ELSE g
    IN
    /\ gl.rsc # 0 /\ ~gl.fits /\ ~Ring(g) /\ Idle
    /\ g.ovl.rsc = g.rsc \/ g.ovl.refused = g.rsc
    /\ \E bad \in Fails({"copy"}) : Presents(Copy(t, FALSE, bad), bad)

-----------------------------------------------------------------------------
(* The end of a screen.                                                    *)

\* aros_drm_release_bridge: the ring is forgotten, no reference given back.
Release(g) == [IF g.ovl.shown THEN ClearOverlay(g) ELSE g EXCEPT
                    !.ovl = [NoRing EXCEPT !.refused = g.ovl.refused]]

\* vc4_aros_release_all_bos
Sweep(g) == [Forget(ClearOverlay(g)) EXCEPT !.dma = 0,
                !.ref = [h \in Handles |-> 0], !.page = [h \in Handles |-> 0]]

\* DestroyPipeScreen, of the screen that draws or of another; the last sweeps.
CloseScreen(draws) ==
    /\ Idle
    /\ screens > IF draws THEN 0 ELSE 1
    /\ screens' = screens - 1
    /\ LET g == IF draws THEN [Unref(gl, gl.bo) EXCEPT !.rsc = 0, !.bo = 0]
                ELSE gl
       IN gl' = IF screens = 1 THEN Sweep(Release(g)) ELSE Release(g)
    /\ fresh' = (fresh /\ ~draws)
    /\ UNCHANGED <<seqno, finished, resources, faults>>

-----------------------------------------------------------------------------
Next ==
    \/ CreateScreen
    \/ \E a \in Addresses, fits \in BOOLEAN : Resource(a, fits)
    \/ Draw \/ Finish
    \/ FlipFrame \/ EnterFrame \/ CoveredFrame
    \/ FillRing \/ PresentRing \/ EnterRing \/ CoveredWindow \/ CopyWindow
    \/ \E draws \in BOOLEAN : CloseScreen(draws)

Spec == Init /\ [][Next]_vars

-----------------------------------------------------------------------------
(* Properties.                                                             *)

Held == {0} \cup Handles
Seen == {0} \cup Addresses

TypeOK ==
    /\ seqno \in 0..MaxFrames /\ finished \in 0..seqno
    /\ fresh \in BOOLEAN /\ screens \in 0..MaxScreens
    /\ resources \in 0..MaxResources /\ faults \in 0..MaxFaults
    /\ gl \in [ref : [Handles -> Nat], page : [Handles -> {0} \cup Pages],
               next : Held, pinned : Held, displaced : Held, dma : Held,
               rsc : Seen, bo : Held, fits : BOOLEAN,
               scan : [rsc : Seen, page : Held],
               ovl : [rsc : Seen, page : Held, queued : Held,
                      seq : 0..MaxFrames, onplane : Held, freep : Held,
                      shown : BOOLEAN, refused : Seen],
               front : Pages, drawn : [Stores -> 0..MaxFrames]]

\* Who holds a reference of buffer h: the resource, the ring, the pins.
Holders(h) ==
    Cardinality({i \in 1..7 : h = <<gl.bo, gl.ovl.queued, gl.ovl.onplane,
                                    gl.ovl.freep, gl.pinned, gl.displaced,
                                    gl.dma>>[i]})

\* No buffer that is drawn into, waits, is shown or copied has been given back,
\* whatever the order of presents, refusals, resources and screens.
RefsHeld == \A h \in Handles : gl.ref[h] >= Holders(h)

\* What the plane and the front page show is drawn: no job for it is left.
ShownDrawn ==
    /\ gl.pinned # 0 => Drawn(gl, gl.pinned) <= finished
    /\ gl.drawn[gl.front] <= finished

\* The next frame is drawn into nothing that is shown, and while the ring is
\* the resource's its pages are different ones.
TargetHidden ==
    gl.rsc # 0 =>
        /\ gl.bo # gl.pinned
        /\ Store(gl, gl.bo) # gl.front
        /\ Ring(gl) => \A a, b \in {"queued", "onplane", "freep"} :
                /\ gl.ovl[a] # gl.bo
                /\ gl.ovl[a] = gl.ovl[b] => a = b \/ gl.ovl[a] = 0

\* A surface of the frame that is taken for bound is drawn into the back page.
BoundRight ==
    gl.rsc # 0 /\ gl.fits /\ Bound(gl) => gl.page[gl.bo] = Other(gl.front)
=============================================================================
