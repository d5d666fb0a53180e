---------------------------- MODULE LivePicking ----------------------------
(***************************************************************************)
(* Picking and inserting in the live overlay (live-browser.js): pick mode  *)
(* targets an element, insert mode a place between elements.  A click puts *)
(* a placeholder at that place, the user may drag its edges, and the       *)
(* request for variants names its place and size; hot updates and reloads  *)
(* can take the placeholder away while the variants are on their way.      *)
(*                                                                         *)
(* A page is one container, element 0, and its children, 1 and up in DOM   *)
(* order, with their rectangles in pixels.  A reference to an element      *)
(* holds the rendering it belongs to.  Text editing and the commits that   *)
(* block every handler are LiveEdits'; scrolling while a place is hovered, *)
(* reversed flex directions and voice input are left out.                  *)
(***************************************************************************)
EXTENDS Integers, Sequences, FiniteSets

CONSTANTS Layouts,       \* the containers: display, dir, box, els, w, body, share, sel and text
          PointStep,     \* the distance between pointer positions
          DragSteps,     \* how far a dragged edge is from where it was grabbed, either way
          MaxDrags,      \* edges grabbed
          MaxRenderings, \* hot updates and reloads
          MaxInserts     \* requests for variants

ASSUME PickingBounds == PointStep > 0 /\ MaxDrags >= 0 /\ MaxRenderings >= 0 /\ MaxInserts > 0

VARIABLES ov,     \* the overlay: modes, state, hovered place, placeholder, drag
          page    \* the page: layout, rendering, the session's progress, what is stored and was asked

pickVars == <<ov, page>>

DefaultHeight == 80
MinHeight == 48
MinWidth == 120
Slop == 12
RowThreshold == 8

None == -1
NoRef == [el |-> None, ver |-> 0]
NoHover == [anchor |-> NoRef, pos |-> "none", axis |-> "none"]
NoPlace == [anchor |-> None]
NoLine == [made |-> FALSE, shown |-> FALSE, at |-> 0, from |-> 0, to |-> 0]
NoSize == [w |-> 0, h |-> 0, ml |-> 0, mt |-> 0]
NoPlaceholder == [is |-> FALSE, on |-> FALSE, at |-> None, pos |-> "none", kind |-> "none", size |-> NoSize]
NoDrag == [edge |-> "none", start |-> NoSize, parentWidth |-> 0]
NoSnap == [is |-> FALSE, size |-> NoSize, pos |-> "none", axis |-> "none", el |-> None]
NotAsked == [el |-> None, pos |-> "none", shown |-> FALSE, size |-> NoSize]
AtLeast(n, low) == IF n < low THEN low ELSE n

Fresh(pick, insert) ==
    [state |-> "IDLE", pick |-> pick, insert |-> insert, hovered |-> FALSE, selected |-> "none",
     kind |-> "replace", cursor |-> "", annot |-> FALSE, hover |-> NoHover, line |-> NoLine,
     ph |-> NoPlaceholder, anchor |-> NoRef, pos |-> "none", axis |-> "none", snap |-> NoSnap, drag |-> NoDrag]

----------------------------------------------------------------------------
(* Where a new element would go.                                           *)

Box(L, e) == IF e = 0 THEN L.box ELSE L.els[e]
Children(L) == 1..Len(L.els)
Within(x, y, r) == r.l <= x /\ x < r.r /\ r.t <= y /\ y < r.b

\* pickable(): an element of at least 20 by 20.
Pickable(L, e) == Box(L, e).r - Box(L, e).l >= 20 /\ Box(L, e).b - Box(L, e).t >= 20

\* document.elementFromPoint()
ElementAt(L, x, y) ==
    IF \E e \in Children(L) : Within(x, y, Box(L, e)) THEN CHOOSE e \in Children(L) : Within(x, y, Box(L, e))
    ELSE IF Within(x, y, Box(L, 0)) THEN 0 ELSE None

\* detectInsertAxis() of the parent: the container for a child, the body for the container.
InsertAxis(L, e) == IF e > 0 /\ L.display \in {"flex", "grid"} THEN L.dir ELSE "column"

\* layoutFlowChildren() of the parent.
Siblings(L, e) == IF e = 0 THEN {0} ELSE {c \in Children(L) : Pickable(L, c)}

\* The order of the sorts by top, then by left; both are stable.
Above(L, i, j) ==
    \/ Box(L, i).t < Box(L, j).t
    \/ Box(L, i).t = Box(L, j).t /\ (Box(L, i).l < Box(L, j).l \/ (Box(L, i).l = Box(L, j).l /\ i < j))
LeftOf(L, i, j) == Box(L, i).l < Box(L, j).l \/ (Box(L, i).l = Box(L, j).l /\ Above(L, i, j))

\* groupSiblingRows(): an element opens a row unless it is near the first element of an earlier one.
InRowOf(L, i, h) == ~Above(L, i, h) /\ Box(L, i).t - Box(L, h).t <= RowThreshold
RowHeads(L, S) == CHOOSE H \in SUBSET S : \A i \in S : i \in H <=> ~\E h \in H : h # i /\ InRowOf(L, i, h)
HeadOf(L, S, i) ==
    CHOOSE h \in RowHeads(L, S) : InRowOf(L, i, h) /\ ~\E g \in RowHeads(L, S) : InRowOf(L, i, g) /\ Above(L, g, h)

\* The loops of hitSiblingInsertGap(), over neighbours in a row and over neighbours by top: the line between
\* a and b, if there is a gap and the pointer is near it.
RowGap(L, a, b, x, y) ==
    LET p == Box(L, a) q == Box(L, b)
        top == AtLeast(p.t, q.t) bottom == IF p.b < q.b THEN p.b ELSE q.b
        minH == IF p.b - p.t < q.b - q.t THEN p.b - p.t ELSE q.b - q.t
    IN  [hit |-> /\ q.l > p.r /\ 4 * (bottom - top) >= minH
                 /\ p.r - Slop <= x /\ x <= q.l + Slop /\ top - Slop <= y /\ y <= bottom + Slop,
         at |-> (p.r + q.l) \div 2, from |-> top, to |-> bottom]
HorizontalOverlap(p, q) == AtLeast((IF p.r < q.r THEN p.r ELSE q.r) - AtLeast(p.l, q.l), 0)
ColumnGap(L, a, b, x, y) ==
    LET p == Box(L, a) q == Box(L, b)
        left == AtLeast(p.l, q.l) right == IF p.r < q.r THEN p.r ELSE q.r
        minW == IF p.r - p.l < q.r - q.l THEN p.r - p.l ELSE q.r - q.l
    IN  [hit |-> /\ q.t > p.b /\ 4 * HorizontalOverlap(p, q) >= minW
                 /\ p.b - Slop <= y /\ y <= q.t + Slop /\ left - Slop <= x /\ x <= right + Slop,
         at |-> (p.b + q.t) \div 2, from |-> left, to |-> right]
RowGaps(L, S, x, y) ==
    {<<a, b>> \in S \X S :
        /\ RowGap(L, a, b, x, y).hit /\ HeadOf(L, S, a) = HeadOf(L, S, b)
        /\ ~\E c \in S : HeadOf(L, S, c) = HeadOf(L, S, a) /\ LeftOf(L, a, c) /\ LeftOf(L, c, b)}
ColumnGaps(L, S, x, y) ==
    {<<a, b>> \in S \X S : ColumnGap(L, a, b, x, y).hit /\ ~\E c \in S : Above(L, a, c) /\ Above(L, c, b)}

\* Mutant: the element is put after the second neighbour of a gap.
PlaceAfterGap(b, axis, gap) == [anchor |-> b, pos |-> "after", axis |-> axis, line |-> [at |-> gap.at, from |-> gap.from, to |-> gap.to]]

\* What hitSiblingInsertGap() returns for a gap before b.
PlaceInGap(b, axis, gap) == [anchor |-> b, pos |-> "before", axis |-> axis, line |-> [at |-> gap.at, from |-> gap.from, to |-> gap.to]]

\* computeInsertPosition(): the half of the element that the pointer is in.
ComputeInsertPosition(x, y, r, axis) ==
    IF (axis = "row" /\ 2 * x < r.l + r.r) \/ (axis # "row" /\ 2 * y < r.t + r.b) THEN "before" ELSE "after"

\* insertLineCoords(): beside that half.
InsertLineCoords(r, pos, axis) ==
    IF axis = "row" THEN [at |-> IF pos = "before" THEN r.l - 2 ELSE r.r + 2, from |-> r.t, to |-> r.b]
    ELSE [at |-> IF pos = "before" THEN r.t - 2 ELSE r.b + 2, from |-> r.l, to |-> r.r]

\* resolveInsertHover(): the first gap by rows, the first by columns, or a side of the element.
ResolveInsertHover(L, e, x, y) ==
    LET S == Siblings(L, e) rows == RowGaps(L, S, x, y) columns == ColumnGaps(L, S, x, y)
        row == CHOOSE g \in rows : \A h \in rows \ {g} :
                   \/ Above(L, HeadOf(L, S, g[1]), HeadOf(L, S, h[1]))
                   \/ HeadOf(L, S, g[1]) = HeadOf(L, S, h[1]) /\ LeftOf(L, g[1], h[1])
        column == CHOOSE g \in columns : \A h \in columns \ {g} : Above(L, g[1], h[1])
        axis == InsertAxis(L, e)
        pos == ComputeInsertPosition(x, y, Box(L, e), axis)
    IN  IF rows # {} THEN PlaceInGap(row[2], "row", RowGap(L, row[1], row[2], x, y))
        ELSE IF columns # {} THEN PlaceInGap(column[2], "column", ColumnGap(L, column[1], column[2], x, y))
        ELSE [anchor |-> e, pos |-> pos, axis |-> axis, line |-> InsertLineCoords(Box(L, e), pos, axis)]

\* The elements, and the places to insert at, that the pointer can be moved to.
Points(L) == {<<PointStep * i, PointStep * j>> : i \in 0..(L.box.r \div PointStep), j \in 0..(L.box.b \div PointStep)}
Targets == [k \in DOMAIN Layouts |-> {ElementAt(Layouts[k], p[1], p[2]) : p \in Points(Layouts[k])}]
PlaceAt(L, x, y) ==
    LET e == ElementAt(L, x, y)
    IN  IF e = None \/ ~Pickable(L, e) THEN NoPlace ELSE ResolveInsertHover(L, e, x, y)
Places == [k \in DOMAIN Layouts |-> {PlaceAt(Layouts[k], p[1], p[2]) : p \in Points(Layouts[k])}]

----------------------------------------------------------------------------
(* The parts of the handlers.                                              *)

Layout == Layouts[page.layout]

\* syncPageInteractionCursor()
Implied(o) ==
    CASE o.state = "PICKING" /\ o.pick /\ ~o.insert -> "crosshair"
      [] o.state = "PICKING" /\ o.insert /\ o.hover # NoHover -> IF o.hover.axis = "row" THEN "ew-resize" ELSE "ns-resize"
      [] OTHER -> ""
Synced(o) == [o EXCEPT !.cursor = Implied(o)]

\* Mutant: a bare assignment of the state.
AssignState(o, next) == [o EXCEPT !.state = next]

\* setLiveState()
SetLiveState(o, next) == Synced([o EXCEPT !.state = next])

\* hideInsertLine(), showInsertLine()
HideInsertLine(o) == IF o.line.made THEN Synced([o EXCEPT !.line = [NoLine EXCEPT !.made = TRUE], !.hover = NoHover]) ELSE o
ShowInsertLine(o, place) ==
    [o EXCEPT !.hover = [anchor |-> [el |-> place.anchor, ver |-> page.ver], pos |-> place.pos, axis |-> place.axis],
              !.line = [made |-> TRUE, shown |-> TRUE, at |-> place.line.at, from |-> place.line.from, to |-> place.line.to]]

\* removeInsertPlaceholderDom(), finalizeInsertSession(), clearInsertPicking()
RemovePlaceholder(o) == [o EXCEPT !.ph = NoPlaceholder, !.drag = NoDrag]
FinalizeInsert(o) ==
    [RemovePlaceholder(o) EXCEPT !.anchor = NoRef, !.pos = "none", !.axis = "none", !.snap = NoSnap, !.kind = "replace"]
ClearInsertPicking(o) == FinalizeInsert(HideInsertLine(o))

\* hideBar(), teardownConfigureChrome(), cancelInsertConfigure()
HideBar(o) == IF o.kind = "insert" THEN ClearInsertPicking(o) ELSE o
TeardownConfigure(o) == [HideBar(o) EXCEPT !.annot = FALSE, !.drag = NoDrag]
CancelInsert(o) ==
    SetLiveState([ClearInsertPicking(TeardownConfigure(o)) EXCEPT !.selected = "none"],
                 IF o.insert THEN "PICKING" ELSE "IDLE")

\* beginNewLiveConfiguration(), showAnnotOverlay() and showBar() on an element of the page.
BeginConfigure(o, what) == [SetLiveState(o, "CONFIGURING") EXCEPT !.selected = what, !.annot = TRUE]

\* Is the element of a reference in the document?
Attached(ref) == ref.el # None /\ (ref.el = 0 \/ ref.ver = page.ver)
ParentWidth(e) == IF e = 0 THEN Layout.body ELSE Layout.w

\* placeholderSizing() and applyPlaceholderSizingStyles()
Sizing(e, axis) ==
    LET display == IF e = 0 THEN "block" ELSE Layout.display
    IN  CASE axis = "row" /\ display = "flex" -> [kind |-> "flex", w |-> Layout.share]
          [] axis = "row" /\ display = "grid" -> [kind |-> "auto", w |-> Layout.share]
          [] (axis # "row" \/ display = "block") /\ ParentWidth(e) >= MinWidth -> [kind |-> "percent", w |-> ParentWidth(e)]
          [] OTHER -> [kind |-> "explicit", w |-> MinWidth]

\* createInsertPlaceholder(): there is none if the anchor has left its parent.
CreatePlaceholder(o, ref, pos, axis) ==
    LET s == Sizing(ref.el, axis)
    IN  IF ~Attached(ref) THEN RemovePlaceholder(o)
        ELSE [RemovePlaceholder(o) EXCEPT
                !.ph = [is |-> TRUE, on |-> TRUE, at |-> ref.el, pos |-> pos, kind |-> s.kind,
                        size |-> [NoSize EXCEPT !.w = s.w, !.h = DefaultHeight]],
                !.anchor = ref, !.pos = pos, !.axis = axis]

\* materializePlaceholderWidth()
Materialized(p) ==
    IF p.kind \in {"flex", "percent", "auto"} THEN [p EXCEPT !.kind = "explicit", !.size.w = AtLeast(@, MinWidth)] ELSE p

\* Mutant: the margin moves with the pointer when the size has reached its limit.
ResizedLoose(start, edge, d, parentWidth) ==
    LET width == IF edge = "e" THEN start.w + d ELSE IF edge = "w" THEN start.w - d ELSE start.w
        height == IF edge = "s" THEN start.h + d ELSE IF edge = "n" THEN start.h - d ELSE start.h
        most == AtLeast(parentWidth, MinWidth)
        w == IF width > most THEN most ELSE AtLeast(width, MinWidth)
    IN  [w |-> w, h |-> AtLeast(height, MinHeight),
         ml |-> IF edge = "w" THEN start.ml + d ELSE start.ml, mt |-> IF edge = "n" THEN start.mt + d ELSE start.mt]

\* resizePlaceholderFromEdge() with clampPlaceholderSize()
Resized(start, edge, d, parentWidth) ==
    LET width == IF edge = "e" THEN start.w + d ELSE IF edge = "w" THEN start.w - d ELSE start.w
        height == IF edge = "s" THEN start.h + d ELSE IF edge = "n" THEN start.h - d ELSE start.h
        most == AtLeast(parentWidth, MinWidth)
        w == IF width > most THEN most ELSE AtLeast(width, MinWidth)
        h == AtLeast(height, MinHeight)
    IN  [w |-> w, h |-> h, ml |-> IF edge = "w" THEN start.ml + start.w - w ELSE start.ml,
         mt |-> IF edge = "n" THEN start.mt + start.h - h ELSE start.mt]

\* findInsertAnchorInDom(): the anchor itself, or the first element that looks like it and holds its text.
LooksLike(c, e) == Layout.sel[c + 1] = Layout.sel[e + 1] /\ (c = 0 \/ Layout.text[c + 1] = Layout.text[e + 1])
FindAnchor(o) ==
    LET found == {c \in {0} \cup Children(Layout) : LooksLike(c, o.snap.el)}
    IN  IF Attached(o.anchor) THEN o.anchor
        ELSE IF ~o.snap.is \/ found = {} THEN NoRef
        ELSE [el |-> CHOOSE c \in found : \A d \in found : c <= d, ver |-> page.ver]

----------------------------------------------------------------------------
(* The handlers.                                                           *)

\* handleMouseMove() in insert mode: the line is drawn again only for another place.
MouseInsert(place) ==
    LET same == /\ ov.hover.anchor = [el |-> place.anchor, ver |-> page.ver]
                /\ ov.hover.pos = place.pos /\ ov.hover.axis = place.axis
    IN  /\ ov.state = "PICKING" /\ ov.insert
        /\ ov' = IF place = NoPlace THEN HideInsertLine(ov) ELSE Synced(IF same THEN ov ELSE ShowInsertLine(ov, place))
        /\ UNCHANGED page

\* handleMouseMove() in pick mode.
MousePick(e) ==
    /\ ov.state = "PICKING" /\ ~ov.insert /\ ov.pick
    /\ e # None /\ Pickable(Layout, e)
    /\ ov' = [ov EXCEPT !.hovered = TRUE]
    /\ UNCHANGED page

\* handleClick() in insert mode.
InsertClick ==
    LET made == CreatePlaceholder(ov, ov.hover.anchor, ov.hover.pos, ov.hover.axis)
    IN  /\ ov.state = "PICKING" /\ ov.insert /\ ov.hover # NoHover
        /\ ov' = IF ~made.ph.is THEN made
                 ELSE BeginConfigure([HideInsertLine(made) EXCEPT !.kind = "insert"], "placeholder")
        /\ UNCHANGED page

\* handleClick() in pick mode, and Enter in either mode.
PickClick ==
    /\ ov.state = "PICKING" /\ ov.hovered
    /\ ov' = BeginConfigure(ov, "page")
    /\ UNCHANGED page

\* ArrowUp and ArrowDown while configuring: another element is selected.
ArrowKey ==
    /\ ov.state = "CONFIGURING"
    /\ ov.selected = "page" \/ (ov.selected = "placeholder" /\ ov.ph.on)
    /\ ov' = [ov EXCEPT !.selected = "page", !.annot = TRUE]
    /\ UNCHANGED page

\* Escape, a click outside, or the selection pill while configuring: cancelInsertConfigure() or
\* exitConfigureToPicking(), which may forget the hovered element.
LeaveConfigure(forgets) ==
    /\ ov.state = "CONFIGURING"
    /\ ov' = IF ov.kind = "insert" THEN CancelInsert(ov)
             ELSE [SetLiveState(TeardownConfigure(ov), "PICKING") EXCEPT !.hovered = @ /\ ~forgets]
    /\ UNCHANGED page

\* Mutant: pick mode leaves the placeholder of an insert where it is.
PickModeOver(o) == [o EXCEPT !.pick = TRUE, !.insert = FALSE]

\* The part of togglePick() that turns pick mode on.
PickModeOn(o) == ClearInsertPicking([o EXCEPT !.pick = TRUE, !.insert = FALSE])

\* saveInteractionPrefs()
SavePrefs(o) == [page EXCEPT !.prefs = [pick |-> o.pick, insert |-> o.insert]]

\* togglePick(), by its button or by Escape while picking.
TogglePickMode ==
    LET on == Synced(PickModeOn(ov))
        off == Synced([ov EXCEPT !.pick = FALSE])
        idle == [TeardownConfigure(off) EXCEPT !.selected = "none", !.hovered = FALSE, !.kind = "replace"]
    IN  /\ ov' = IF ~ov.pick THEN IF on.state = "IDLE" THEN SetLiveState(on, "PICKING") ELSE on
                 ELSE IF off.kind = "insert" /\ off.state = "CONFIGURING" THEN CancelInsert(off)
                 ELSE IF off.state \in {"PICKING", "CONFIGURING"} THEN SetLiveState(idle, "IDLE") ELSE idle
        /\ page' = SavePrefs(ov')

\* toggleInsert(), by its button or by Escape while picking.
ToggleInsert ==
    LET on == [HideBar([ov EXCEPT !.insert = TRUE, !.pick = FALSE]) EXCEPT !.selected = "none", !.kind = "replace"]
        off == ClearInsertPicking([ov EXCEPT !.insert = FALSE])
    IN  /\ ov' = Synced(IF ~ov.insert
                        THEN CASE on.state = "CONFIGURING" -> CancelInsert(on)
                               [] on.state \in {"IDLE", "PICKING"} -> SetLiveState(on, "PICKING")
                               [] OTHER -> on
                        ELSE IF off.state = "PICKING" /\ ~off.pick THEN SetLiveState(off, "IDLE") ELSE off)
        /\ page' = SavePrefs(ov')

\* Escape while picking in neither mode.
EscapePicking ==
    /\ ov.state = "PICKING" /\ ~ov.pick /\ ~ov.insert
    /\ ov' = SetLiveState(ov, "IDLE")
    /\ UNCHANGED page

\* startPlaceholderEdgeResize(), onAnnotMove() and onAnnotUp(): the drag of an edge.
StartResize(edge) ==
    LET p == Materialized(ov.ph)
    IN  /\ ov.annot /\ ov.kind = "insert" /\ ov.ph.on /\ ov.state = "CONFIGURING"
        /\ ov.drag = NoDrag /\ page.drags < MaxDrags
        /\ ov' = [ov EXCEPT !.ph = p, !.drag = [edge |-> edge, start |-> p.size, parentWidth |-> ParentWidth(p.at)]]
        /\ page' = [page EXCEPT !.drags = @ + 1]
DragEdge(d) ==
    /\ ov.annot /\ ov.drag # NoDrag
    /\ ov' = [ov EXCEPT !.ph = [Materialized(@) EXCEPT !.size = Resized(ov.drag.start, ov.drag.edge, d, ov.drag.parentWidth)]]
    /\ UNCHANGED page
EndResize ==
    /\ ov.drag # NoDrag
    /\ ov' = [ov EXCEPT !.drag = NoDrag]
    /\ UNCHANGED page

\* buildInsertPlaceholderSnapshotFromDom(): a placeholder that left the document has no width.
Snapshot(o) ==
    [is |-> TRUE, el |-> o.anchor.el, pos |-> o.pos, axis |-> o.axis,
     size |-> IF o.ph.on THEN o.ph.size ELSE [o.ph.size EXCEPT !.w = 0, !.h = DefaultHeight]]

\* handleInsertCreate(), with a prompt or annotations.
InsertCreate ==
    /\ ov.ph.is /\ ov.anchor # NoRef /\ ov.state = "CONFIGURING" /\ ov.kind = "insert"
    /\ page.session = "none" /\ page.inserts < MaxInserts
    /\ ov' = SetLiveState([ov EXCEPT !.selected = "placeholder", !.snap = Snapshot(ov), !.annot = FALSE, !.drag = NoDrag],
                          "GENERATING")
    /\ page' = [page EXCEPT !.session = "asked", !.inserts = @ + 1, !.stored = Snapshot(ov),
                            !.asked = [el |-> ov.anchor.el, pos |-> ov.pos, shown |-> ov.ph.on, size |-> ov.ph.size]]

\* The agent puts the wrapper of an insert, still without variants, into the page.
WrapperArrives ==
    /\ page.session = "asked" /\ ov.state = "GENERATING"
    /\ page' = [page EXCEPT !.session = "wrapped"]
    /\ UNCHANGED ov

\* Mutant: the new placeholder has the default size.
SizedAsNew(o) == o

\* applyPlaceholderDimensions() with the snapshot.
SizedAsBefore(o) == IF o.snap.is THEN [o EXCEPT !.ph = [Materialized(@) EXCEPT !.size = o.snap.size]] ELSE o

\* ensureInsertPlaceholder(), from the observer, the bar's ticks and resumeSession().
EnsurePlaceholder ==
    LET ref == FindAnchor(ov)
        made == CreatePlaceholder(ov, ref, IF ov.snap.is THEN ov.snap.pos ELSE ov.pos,
                                           IF ov.snap.is THEN ov.snap.axis ELSE ov.axis)
    IN  /\ ov.state = "GENERATING" /\ page.session = "wrapped" /\ ~ov.ph.on
        /\ ref # NoRef
        /\ ov' = [SizedAsBefore(made) EXCEPT !.selected = "placeholder"]
        /\ UNCHANGED page

\* The observer sees variants in the wrapper of an insert.
VariantsArrive ==
    /\ ov.state = "GENERATING" /\ page.session = "wrapped"
    /\ ov' = [FinalizeInsert(SetLiveState(ov, "CYCLING")) EXCEPT !.selected = "page"]
    /\ page' = [page EXCEPT !.session = "arrived", !.stored = NoSnap, !.asked = NotAsked]

\* saveSession() as the generation goes on.
ProgressSaved ==
    /\ ov.state = "GENERATING"
    /\ page' = [page EXCEPT !.stored = ov.snap]
    /\ UNCHANGED ov

\* The session is over: cleanup().
SessionEnds ==
    /\ ov.state \in {"GENERATING", "CYCLING"}
    /\ ov' = SetLiveState([FinalizeInsert(HideBar(ov)) EXCEPT !.selected = "none", !.hovered = FALSE], "PICKING")
    /\ page' = [page EXCEPT !.session = "none", !.stored = NoSnap, !.asked = NotAsked]

\* A hot update: the children may be rendered anew, the placeholder may go.
HotUpdate(renders, drops) ==
    /\ page.renderings < MaxRenderings
    /\ renders \/ (drops /\ ov.ph.on)
    /\ page' = [page EXCEPT !.renderings = @ + 1, !.ver = IF renders THEN @ + 1 ELSE @]
    /\ ov' = IF drops THEN [ov EXCEPT !.ph.on = FALSE] ELSE ov

\* The page is loaded again: loadInteractionPrefs(), applySavedSessionMeta(), and the session's state.
PageReloads ==
    LET new == Fresh(page.prefs.pick, page.prefs.insert)
    IN  /\ page.renderings < MaxRenderings
        /\ page' = [page EXCEPT !.renderings = @ + 1, !.ver = @ + 1]
        /\ ov' = CASE page.session \in {"asked", "wrapped"} -> SetLiveState([new EXCEPT !.snap = page.stored], "GENERATING")
                   [] page.session = "arrived" -> SetLiveState([new EXCEPT !.selected = "page"], "CYCLING")
                   [] OTHER -> SetLiveState(new, IF new.pick \/ new.insert THEN "PICKING" ELSE "IDLE")

InitPicking ==
    \E layout \in DOMAIN Layouts, m \in {<<FALSE, FALSE>>, <<TRUE, FALSE>>, <<FALSE, TRUE>>} :
        /\ ov = SetLiveState(Fresh(m[1], m[2]), IF m[1] \/ m[2] THEN "PICKING" ELSE "IDLE")
        /\ page = [layout |-> layout, ver |-> 0, prefs |-> [pick |-> m[1], insert |-> m[2]], session |-> "none",
                   stored |-> NoSnap, asked |-> NotAsked,
                   drags |-> 0, renderings |-> 0, inserts |-> 0]

NextPicking ==
    \/ \E place \in Places[page.layout] : MouseInsert(place)
    \/ \E e \in Targets[page.layout] : MousePick(e)
    \/ InsertClick \/ PickClick \/ ArrowKey \/ EscapePicking
    \/ \E forgets \in BOOLEAN : LeaveConfigure(forgets)
    \/ TogglePickMode \/ ToggleInsert
    \/ \E edge \in {"n", "s", "e", "w"} : StartResize(edge)
    \/ \E d \in DragSteps : DragEdge(d) \/ DragEdge(-d)
    \/ EndResize \/ InsertCreate \/ WrapperArrives \/ EnsurePlaceholder \/ VariantsArrive
    \/ ProgressSaved \/ SessionEnds
    \/ \E renders, drops \in BOOLEAN : HotUpdate(renders, drops)
    \/ PageReloads

----------------------------------------------------------------------------

\* The insert line lies where the element will be put: of the pickable children it runs beside, those
\* before the place in the DOM are on its one side and the others on its other side.
LineAtPlace ==
    LET place == IF ov.hover.pos = "before" THEN ov.hover.anchor.el ELSE ov.hover.anchor.el + 1
        row == ov.hover.axis = "row"
        Beside(c) == IF row THEN Box(Layout, c).t < ov.line.to /\ ov.line.from < Box(Layout, c).b
                     ELSE Box(Layout, c).l < ov.line.to /\ ov.line.from < Box(Layout, c).r
        Middle(c) == IF row THEN Box(Layout, c).l + Box(Layout, c).r ELSE Box(Layout, c).t + Box(Layout, c).b
    IN  (ov.line.shown /\ ov.hover.anchor.el > 0) =>
            \A c \in Children(Layout) : (Pickable(Layout, c) /\ Beside(c)) => (c < place <=> Middle(c) < 2 * ov.line.at)

\* "the page cursor out of sync with the mode it advertises" never happens, and the two modes exclude each other.
ModesTrue == ov.cursor = Implied(ov) /\ ~(ov.pick /\ ov.insert)

\* A placeholder is in the page only while its insert is configured in insert mode, or its variants are awaited.
PlaceholderScoped ==
    ov.ph.on => \/ ov.state = "CONFIGURING" /\ ov.kind = "insert" /\ ov.insert
                \/ ov.state = "GENERATING"

\* A dragged edge moves alone: the opposite edge and the other size stay, within the limits of the sizes.
DragAnchored ==
    LET d == ov.drag.start s == ov.ph.size
    IN  ov.drag # NoDrag =>
            /\ s.w >= MinWidth /\ s.w <= AtLeast(ov.drag.parentWidth, MinWidth) /\ s.h >= MinHeight
            /\ ov.drag.edge # "w" => s.ml = d.ml
            /\ ov.drag.edge # "n" => s.mt = d.mt
            /\ ov.drag.edge # "e" => s.ml + s.w = d.ml + d.w
            /\ ov.drag.edge # "s" => s.mt + s.h = d.mt + d.h

\* The placeholder seen while the variants are awaited has the side and the size it had when they were asked
\* for, and stands by the same element unless an earlier one looks like it.
PlaceholderAsAsked ==
    LET a == page.asked
    IN  (ov.state = "GENERATING" /\ ov.ph.on /\ a.shown) =>
            /\ ov.ph.pos = a.pos /\ ov.ph.size = a.size
            /\ (\A c \in 0..(a.el - 1) : ~LooksLike(c, a.el)) => ov.ph.at = a.el

\* Picking and inserting: the mode, the line, the placeholder and the request agree.
PickingTrue == LineAtPlace /\ ModesTrue /\ PlaceholderScoped /\ DragAnchored /\ PlaceholderAsAsked
=============================================================================
