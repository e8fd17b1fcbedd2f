---------------------------- MODULE DisplayPlanes ----------------------------
(***************************************************************************)
(* Pages and planes of the display: the display lists of vcgfx_hvs.c, the  *)
(* framebuffer and its cursor in vcgfx_onbitmap.c and vcgfx_hiddclass.c,   *)
(* the task of vcgfx_denise.c, and the presentation half of                *)
(* vc4_galliumclass.c (aros/arch/m68k-emu68/hidd).                         *)
(*                                                                         *)
(* The scaler scans the list its channel points to.  A new list is adopted *)
(* in the middle of a frame; a word patched in the live list is read at    *)
(* the next frame start.  All writers hold the mailbox lock; they wait for *)
(* the frame to start, still holding it, by counting vsync interrupts.  A  *)
(* list is the page of its framebuffer plane, the page of its overlay and  *)
(* whether it has a cursor; geometry and scaling are left out.             *)
(***************************************************************************)
EXTENDS Integers, FiniteSets

CONSTANTS
    BO,         \* buffers of the client: fewer than VC4_MAX_BOS
    Slots,      \* HVS_OWN_SLOTS
    Moves,      \* the pointer of the framebuffer is shown and hidden
    Late,       \* the vsync interrupt may be served after the frame started
    MaxModes    \* bound: mode changes

VARIABLES
    lock,               \* the task in the mailbox lock, or "free"
    hvs_Active,
    lists, head,        \* dlist memory; LIST of the channel
    scan,               \* what the scaler shows in this frame
    slot, base,         \* hvs_Slot, hvs_ListBase
    ovl, CurVisible,    \* hvs_OvlActive and hvs_OvlPhys; vcsd_CurVisible
    owed,               \* interrupts to come before FlipArmed
    front, pages,       \* vcsd_FBFront, vcsd_FBPages
    ref, pinned, displaced, \* bo_table[].refcount; overlay_*_handle
    app, prev, page, rendering,   \* the client: step, its local, page, target
    denise, composing,  \* the task's step; BPLEN, the frame count moves
    cursor,             \* step of the pointer's owner
    mode, modes         \* step of a mode change; how many

planes == <<lists, head, scan, slot, base, ovl>>
boTable == <<ref, pinned, displaced>>
client == <<app, prev, page, rendering>>
others == <<denise, composing, cursor, mode, modes>>
vars == <<lock, hvs_Active, planes, CurVisible, owed, front, pages, boTable,
          client, others>>

None == "none"      \* no page, no buffer
Firmware == Slots   \* the list of the firmware, beside 0..Slots - 1
FB == {"page0", "page1"}    \* vcsd_FBPage
Back(p) == CHOOSE q \in FB : q # p
Denise == "denise"  \* the chipset's frame, never freed
Planes == [fb : FB, ovl : BO \cup {Denise, None}, cur : BOOLEAN]

Init ==
    /\ lock = "free" /\ hvs_Active = FALSE
    /\ lists = [s \in 0..Slots |-> [fb |-> "page0", ovl |-> None, cur |-> FALSE]]
    /\ head = Firmware /\ scan = lists[Firmware]
    /\ slot = 0 /\ base = 0 /\ ovl = None /\ CurVisible = FALSE
    /\ owed = 0 /\ front = "page0" /\ pages = 1
    /\ ref = [b \in BO |-> 0] /\ pinned = None /\ displaced = None
    /\ app = "idle" /\ prev = None /\ page = None /\ rendering = None
    /\ denise = "idle" /\ composing = FALSE /\ cursor = "idle"
    /\ mode = "idle" /\ modes = 0

-----------------------------------------------------------------------------
(* The scaler and its interrupt.                                           *)

\* A frame starts: the list is read again, and hvs_vsync_irq counts it.
Frame ==
    /\ scan' = lists[head]
    /\ owed' = 0
    /\ UNCHANGED <<lock, hvs_Active, lists, head, slot, base, ovl, CurVisible, front, pages,
                   boTable, client, others>>

-----------------------------------------------------------------------------
(* Display lists.                                                          *)

\* hvs_build_list, and the repoint its callers make: the scaler adopts the list
\* at once, in the middle of the frame.
Build(fb, over, cur) ==
    /\ lists' = [lists EXCEPT ![slot] = [fb |-> fb, ovl |-> over, cur |-> cur]]
    /\ base' = slot /\ slot' = (slot + 1) % Slots
    /\ head' = slot /\ scan' = lists'[slot]

\* In the live list, for the next frame.
Patch(planesOf) ==
    /\ lists' = [lists EXCEPT ![base] = planesOf]
    /\ UNCHANGED <<base, slot, head, scan>>

ArmNow ==       \* mutant: armed for the count as it is
    owed' = 0

\* FlipArmed = VSyncCount + 1: one more, unless the interrupt of the frame that
\* has just started is still to be served and will pass for it.
Arm ==
    owed' \in {1} \cup IF Late THEN {0} ELSE {}

NoWait == TRUE  \* mutant: nobody waits for the frame

\* hvs_latch_wait: by count, the interrupt being armed.
Latched == owed = 0

\* vc4_hvs_overlay with a page, up to the wait: structural when the plane is not
\* in the list, a patch otherwise.
Show(p) ==
    /\ hvs_Active
    /\ ovl' = p
    /\ IF lists[base].ovl = None THEN Build(lists[base].fb, p, CurVisible)
       ELSE Patch([lists[base] EXCEPT !.ovl = p])
    /\ Arm

Refused == ~hvs_Active /\ ovl' = None /\ UNCHANGED <<lists, base, slot, head, scan, owed>>

\* vc4_hvs_overlay with no page; nobody waits.
Remove ==
    /\ ovl' = None
    /\ IF hvs_Active /\ ovl # None THEN Build(lists[base].fb, None, CurVisible)
       ELSE UNCHANGED <<lists, base, slot, head, scan>>

-----------------------------------------------------------------------------
(* The client of the 3D driver: it draws into a buffer, or into the back   *)
(* page of the framebuffer, and presents it.                               *)

Unref(r, b) == [r EXCEPT ![b] = @ - 1]

CreateBO(b) ==
    /\ app = "idle" /\ ref[b] = 0
    /\ ref' = [ref EXCEPT ![b] = 1]
    /\ UNCHANGED <<lock, hvs_Active, planes, CurVisible, owed, front, pages, pinned,
                   displaced, client, others>>

Owned(b) == ref[b] > Cardinality({h \in {1, 2} : (IF h = 1 THEN pinned ELSE displaced) = b})

\* ioctl_gem_close
Close(b) ==
    /\ app = "idle" /\ Owned(b) /\ rendering # b
    /\ ref' = Unref(ref, b)
    /\ UNCHANGED <<lock, hvs_Active, planes, CurVisible, owed, front, pages, pinned,
                   displaced, client, others>>

\* vc4_aros_overlay_latch_wait: the attribute it reads to wait is one vcgfx does
\* not have, so it only drops the pin.
Retired == IF displaced = None THEN ref ELSE Unref(ref, displaced)

\* Submission of a frame for a buffer off the plane; one just displaced is
\* retired first.
Render(b) ==
    /\ app = "idle" /\ rendering = None /\ Owned(b) /\ b # pinned
    /\ rendering' = b /\ page' = b
    /\ IF b = displaced THEN ref' = Retired /\ displaced' = None
       ELSE UNCHANGED <<ref, displaced>>
    /\ UNCHANGED <<lock, hvs_Active, planes, CurVisible, owed, front, pages, pinned,
                   app, prev, others>>

\* vc4_aros_get_scanout and a frame drawn into the back page.
RenderBack ==
    /\ app = "idle" /\ rendering = None /\ pages = 2 /\ mode = "idle"
    /\ rendering' = Back(front) /\ page' = Back(front)
    /\ UNCHANGED <<lock, hvs_Active, planes, CurVisible, owed, front, pages, boTable,
                   app, prev, others>>

Rendered ==
    /\ rendering # None
    /\ rendering' = None
    /\ UNCHANGED <<lock, hvs_Active, planes, CurVisible, owed, front, pages, boTable,
                   app, prev, page, others>>

\* vc4_aros_set_overlay: the buffer is pinned, then shown, and the one before it
\* is kept pinned until the next call.
SetOverlay(b) ==
    /\ app = "idle" /\ rendering = None /\ page = b /\ Owned(b)
    /\ ref' = [Retired EXCEPT ![b] = @ + 1] /\ displaced' = None
    /\ prev' = pinned /\ pinned' = b
    /\ app' = "show"
    /\ UNCHANGED <<lock, hvs_Active, planes, CurVisible, owed, front, pages, page,
                   rendering, others>>

SetShow ==
    /\ app = "show" /\ lock = "free"
    /\ \/ Show(pinned) /\ lock' = "app" /\ app' = "latch"
       \/ Refused /\ app' = "shown" /\ UNCHANGED lock
    /\ UNCHANGED <<hvs_Active, CurVisible, front, pages, boTable, prev, page,
                   rendering, others>>

SetLatch ==
    /\ app = "latch" /\ Latched
    /\ lock' = "free" /\ app' = "shown"
    /\ UNCHANGED <<hvs_Active, planes, CurVisible, owed, front, pages, boTable, prev,
                   page, rendering, others>>

\* The buffer before is kept, unless it is the same one.
KeepPrev(b) ==
    IF prev # None /\ prev # b THEN displaced' = prev /\ UNCHANGED ref
    ELSE /\ ref' = IF prev = None THEN ref ELSE Unref(ref, prev)
         /\ UNCHANGED displaced

SetDone ==
    /\ app = "shown"
    /\ IF ovl = None
       THEN /\ pinned' = None /\ UNCHANGED displaced
            /\ ref' = [b \in BO |-> ref[b] - (IF b = pinned THEN 1 ELSE 0)
                                           - (IF b = prev THEN 1 ELSE 0)]
       ELSE KeepPrev(pinned) /\ UNCHANGED pinned
    /\ app' = "idle" /\ prev' = None /\ page' = None
    /\ UNCHANGED <<lock, hvs_Active, planes, CurVisible, owed, front, pages,
                   rendering, others>>

\* vc4_aros_clear_overlay
ClearOverlay ==
    /\ app = "idle" /\ pinned # None /\ lock = "free"
    /\ Remove /\ app' = "clear"
    /\ UNCHANGED <<lock, hvs_Active, CurVisible, owed, front, pages, boTable, prev,
                   page, rendering, others>>

Clear ==
    /\ app = "clear"
    /\ ref' = [b \in BO |-> ref[b] - (IF b = pinned THEN 1 ELSE 0)
                                   - (IF b = displaced THEN 1 ELSE 0)]
    /\ pinned' = None /\ displaced' = None /\ app' = "idle"
    /\ UNCHANGED <<lock, hvs_Active, planes, CurVisible, owed, front, pages, prev,
                   page, rendering, others>>

\* vc4_fb_flip from vc4_aros_flip_scanout: a patch of the live list, or the
\* firmware's offset, which is in effect when the call returns.
Flip ==
    /\ app = "idle" /\ rendering = None /\ page \in FB /\ lock = "free"
    /\ IF pages = 1 THEN app' = "idle" /\ page' = None /\ UNCHANGED <<lock, planes, owed, front>>
       ELSE IF hvs_Active
       THEN /\ Patch([lists[base] EXCEPT !.fb = Back(front)]) /\ Arm
            /\ lock' = "app" /\ app' = "flip" /\ UNCHANGED <<page, front, ovl>>
       ELSE /\ lists' = [lists EXCEPT ![Firmware].fb = Back(front)]
            /\ scan' = IF head = Firmware THEN lists'[Firmware] ELSE scan
            /\ front' = Back(front) /\ page' = None /\ app' = "idle"
            /\ UNCHANGED <<lock, owed, base, slot, head, ovl>>
    /\ UNCHANGED <<hvs_Active, CurVisible, pages, boTable, prev, rendering, others>>

FlipLatch ==
    /\ app = "flip" /\ Latched
    /\ front' = Back(front) /\ page' = None
    /\ lock' = "free" /\ app' = "idle"
    /\ UNCHANGED <<hvs_Active, planes, CurVisible, owed, pages, boTable, prev,
                   rendering, others>>

-----------------------------------------------------------------------------
(* The watcher of the chipset's picture.                                   *)

Compose ==
    /\ composing' = ~composing
    /\ UNCHANGED <<lock, hvs_Active, planes, CurVisible, owed, front, pages, boTable,
                   client, denise, cursor, mode, modes>>

DeniseTrusts ==     \* mutant: a plane once raised is not raised again
    /\ denise = "idle" /\ composing /\ lock = "free"
    /\ \/ Show(Denise) /\ lock' = "denise" /\ denise' = "latch"
       \/ Refused /\ UNCHANGED lock /\ denise' = "idle"
    /\ UNCHANGED <<hvs_Active, CurVisible, front, pages, boTable, client, composing,
                   cursor, mode, modes>>

\* denise_watcher: "Applied on every tick, not only on the way up."
DeniseTick ==
    /\ denise # "latch" /\ composing /\ lock = "free"
    /\ \/ Show(Denise) /\ lock' = "denise" /\ denise' = "latch"
       \/ Refused /\ UNCHANGED <<lock, denise>>
    /\ UNCHANGED <<hvs_Active, CurVisible, front, pages, boTable, client, composing,
                   cursor, mode, modes>>

DeniseLatch ==
    /\ denise = "latch" /\ Latched
    /\ lock' = "free" /\ denise' = "up"
    /\ UNCHANGED <<hvs_Active, planes, CurVisible, owed, front, pages, boTable, client,
                   composing, cursor, mode, modes>>

DeniseDown ==
    /\ denise = "up" /\ ~composing /\ lock = "free"
    /\ Remove /\ denise' = "idle"
    /\ UNCHANGED <<lock, hvs_Active, CurVisible, owed, front, pages, boTable, client,
                   composing, cursor, mode, modes>>

-----------------------------------------------------------------------------
(* The pointer: SetCursorShape, SetCursorPos and SetCursorVisible look at  *)
(* hvs_Active first and take the lock after.                               *)

SetCursor ==
    /\ Moves /\ cursor = "idle"
    /\ \E v \in BOOLEAN : CurVisible' = v
    /\ cursor' = IF hvs_Active THEN "update" ELSE "firmware"
    /\ UNCHANGED <<lock, hvs_Active, planes, owed, front, pages, boTable, client,
                   denise, composing, mode, modes>>

\* vc4_hvs_update_cursor
UpdateCursor ==
    /\ cursor = "update" /\ lock = "free"
    /\ cursor' = "idle"
    /\ IF hvs_Active /\ CurVisible # lists[base].cur
       THEN Build(lists[base].fb, ovl, CurVisible)
       ELSE UNCHANGED <<lists, base, slot, head, scan>>
    /\ UNCHANGED <<lock, hvs_Active, ovl, CurVisible, owed, front, pages, boTable,
                   client, denise, composing, mode, modes>>

\* SETCURSORSTATE: the firmware rebuilds its own list and takes the channel.
FirmwareCursor ==
    /\ cursor = "firmware" /\ lock = "free"
    /\ cursor' = "idle"
    /\ lists' = [lists EXCEPT ![Firmware].cur = CurVisible]
    /\ head' = Firmware /\ scan' = lists'[Firmware]
    /\ UNCHANGED <<lock, hvs_Active, slot, base, ovl, CurVisible, owed, front, pages,
                   boTable, client, denise, composing, mode, modes>>

-----------------------------------------------------------------------------
(* A mode change: vc4_program_fb and vc4_hvs_takeover.                     *)

\* Ownership is given up; FBALLOC makes the firmware rebuild its list.
Program ==
    /\ mode = "idle" /\ modes < MaxModes /\ lock = "free"
    /\ modes' = modes + 1 /\ mode' = "alloc"
    /\ hvs_Active' = FALSE
    /\ UNCHANGED <<lock, planes, CurVisible, owed, front, pages, boTable, client,
                   denise, composing, cursor>>

Alloc ==
    /\ mode = "alloc" /\ lock = "free"
    /\ mode' = "pages"
    /\ lists' = [lists EXCEPT ![Firmware] = [fb |-> "page0", ovl |-> None, cur |-> FALSE]]
    /\ head' = Firmware /\ scan' = lists'[Firmware]
    /\ UNCHANGED <<lock, hvs_Active, slot, base, ovl, CurVisible, owed, front, pages,
                   boTable, client, denise, composing, cursor, modes>>

\* Without the lock; two pages if the firmware gave them and honours an offset.
Pages ==
    /\ mode = "pages"
    /\ mode' = "look" /\ front' = "page0"
    /\ pages' \in {1, 2}
    /\ UNCHANGED <<lock, hvs_Active, planes, CurVisible, owed, boTable, client,
                   denise, composing, cursor, modes>>

\* The takeover: the list of the firmware is walked for a plane that shows the
\* first page; the overlay is forgotten.
Look ==
    /\ mode = "look"
    /\ \/ lists[head].fb = "page0" /\ mode' = "take" /\ slot' = 0 /\ ovl' = None
       \/ lists[head].fb # "page0" /\ mode' = "idle" /\ UNCHANGED <<slot, ovl>>
    /\ UNCHANGED <<lock, hvs_Active, lists, head, scan, base, CurVisible, owed,
                   front, pages, boTable, client, denise, composing, cursor, modes>>

Take ==
    /\ mode = "take" /\ lock = "free"
    /\ mode' = "idle" /\ hvs_Active' = TRUE
    /\ Build("page0", ovl, CurVisible)
    /\ UNCHANGED <<lock, ovl, CurVisible, owed, front, pages, boTable, client,
                   denise, composing, cursor, modes>>

-----------------------------------------------------------------------------

App == \/ \E b \in BO : CreateBO(b) \/ Close(b) \/ Render(b) \/ SetOverlay(b)
       \/ RenderBack \/ Rendered \/ SetShow \/ SetLatch \/ SetDone
       \/ ClearOverlay \/ Clear \/ Flip \/ FlipLatch
Watcher == DeniseTick \/ DeniseLatch \/ DeniseDown
Pointer == SetCursor \/ UpdateCursor \/ FirmwareCursor
ModeChange == Program \/ Alloc \/ Pages \/ Look \/ Take

Next == Frame \/ App \/ Compose \/ Watcher \/ Pointer \/ ModeChange

\* The scaler runs and its interrupt is served; semaphores are granted in turn.
Spec == /\ Init /\ [][Next]_vars
        /\ WF_vars(Frame)
        /\ WF_vars(SetLatch) /\ WF_vars(FlipLatch) /\ WF_vars(DeniseLatch)
        /\ SF_vars(DeniseTick)

-----------------------------------------------------------------------------

TypeOK ==
    /\ lock \in {"free", "app", "denise"} /\ hvs_Active \in BOOLEAN
    /\ lists \in [0..Slots -> Planes] /\ head \in 0..Slots 
    /\ scan \in Planes /\ slot \in 0..Slots - 1 /\ base \in 0..Slots - 1
    /\ ovl \in BO \cup {Denise, None} /\ CurVisible \in BOOLEAN
    /\ owed \in 0..1 /\ front \in FB /\ pages \in {1, 2}
    /\ ref \in [BO -> 0..3]
    /\ {pinned, displaced, prev, rendering, page} \subseteq BO \cup {None} \cup FB
    /\ app \in {"idle", "show", "latch", "shown", "clear", "flip"}
    /\ denise \in {"idle", "latch", "up"} /\ composing \in BOOLEAN
    /\ cursor \in {"idle", "update", "firmware"}
    /\ mode \in {"idle", "alloc", "pages", "look", "take"} /\ modes \in 0..MaxModes

\* A buffer on scanout is alive: the pins of the 3D driver outlast the plane,
\* through every order of presents, closes, removals and mode changes.
ShownAlive == scan.ovl \in BO => ref[scan.ovl] > 0

\* Nothing is drawn into a buffer that is on scanout: the wait in the display
\* driver ends only when the page taken off the plane is no longer read.
RenderHidden == rendering \in BO => scan.ovl # rendering

\* While the driver owns the display the channel shows a list of its own
\* (vc4_restore_cursor: the cursor tags would "steal the channel back").
ChannelOurs == hvs_Active => head # Firmware

\* A picture of the chipset that stays wanted is raised again after a mode
\* change dropped its plane.
PictureReturns == (composing /\ hvs_Active) ~> (ovl # None \/ ~composing \/ ~hvs_Active)
=============================================================================
