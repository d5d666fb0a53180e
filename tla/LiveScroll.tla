----------------------------- MODULE LiveScroll -----------------------------
(***************************************************************************)
(* The scroll lock of the live overlay (live-browser.js): while a session  *)
(* is at work the page stays where the user left it, through hot updates,  *)
(* variants of other heights, scripts that scroll, and reloads.  A frame,  *)
(* the scroll event and the user's gestures each correct the position or   *)
(* what it is corrected to; nothing scrolls past the end of the page, and  *)
(* a page that was just loaded is often too short for its old position.    *)
(* One tab; positions are small numbers; half pixels and the choice of the *)
(* anchor element are left out.                                            *)
(***************************************************************************)
EXTENDS Integers

CONSTANTS MaxY,       \* the largest scroll position of any layout
          MaxMoves    \* layout shifts, scrolls, gestures and reloads

ASSUME ScrollBounds == MaxY > 0 /\ MaxMoves > 0

VARIABLES view,   \* the browser: scroll position, how far the page scrolls now, events to come
          lock    \* the scroll lock, and the position and the anchor's place that survive a reload

scrollVars == <<view, lock>>

NoTop == -100
Off == [on |-> FALSE, targetY |-> 0, anchorTop |-> NoTop, raf |-> FALSE, gesture |-> FALSE]
Least(m, n) == IF m <= n THEN m ELSE n
Clamp(v, n) == IF n < 0 THEN 0 ELSE Least(n, v.end)

\* window.scrollTo(): a scroll event follows if the position changes.
ScrollTo(v, n) == [v EXCEPT !.y = Clamp(v, n), !.event = @ \/ Clamp(v, n) # v.y]

\* resolveScrollLockAnchorTop()
AnchorTop(v) == IF v.anchored THEN v.top - v.y ELSE NoTop

\* Every move of the page or of the user is counted.
Counted(v) == [v EXCEPT !.moves = @ + 1]
Moves == view.moves < MaxMoves

----------------------------------------------------------------------------

\* startScrollLock(), with what is known of the position and of the anchor.
StartScrollLock(y, top) ==
    /\ lock' = [lock EXCEPT !.now = [Off EXCEPT !.on = TRUE, !.targetY = IF y = NoTop THEN view.y ELSE y,
                                                !.anchorTop = IF top = NoTop THEN AnchorTop(view) ELSE top],
                            !.saved = y, !.picked = top]
    /\ view' = ScrollTo([view EXCEPT !.unseen = FALSE], lock'.now.targetY)

\* handleGo(): the position is stored and the page locked there.
Go ==
    /\ ~lock.now.on /\ view.anchored /\ lock.picked = NoTop
    /\ StartScrollLock(view.y, AnchorTop(view))

\* resumeSession(), after a reload or for a session that the server still has: the position may be
\* stored or not.
Resume == ~lock.now.on /\ StartScrollLock(lock.saved, lock.picked)

\* stopScrollLock() and clearScrollY() when the session ends ...
Finish ==
    /\ lock.now.on
    /\ lock' = [lock EXCEPT !.now = Off, !.saved = NoTop, !.picked = NoTop]
    /\ UNCHANGED view

\* ... and stopScrollLock() alone: an injection is aborted, the server lost, or a session reset.
Release ==
    /\ lock.now.on
    /\ \E top \in {lock.picked, NoTop} : lock' = [lock EXCEPT !.now = Off, !.picked = top]
    /\ UNCHANGED view

\* Mutant: the target stays where it was when the anchor is followed.
FollowAnchorOnly(l, y) == [l EXCEPT !.now.raf = FALSE]

\* The new target of correct() when the anchor was followed to y.
FollowAnchor(l, y) == [l EXCEPT !.now.raf = FALSE, !.now.targetY = y, !.saved = y]

\* correct(), in a frame.
Correct ==
    LET n == lock.now
        delta == AnchorTop(view) - n.anchorTop
        follows == view.anchored /\ n.anchorTop # NoTop /\ delta # 0
    IN  /\ n.raf
        /\ view' = [ScrollTo(view, IF follows THEN view.y + delta ELSE n.targetY) EXCEPT !.unseen = FALSE]
        /\ lock' = IF follows THEN FollowAnchor(lock, view'.y) ELSE [lock EXCEPT !.now.raf = FALSE]

\* The 'scroll' listener: within the window of a gesture it lets the page be.
ScrollEvent ==
    /\ view.event
    /\ LET v == [view EXCEPT !.event = FALSE]
           off == lock.now.on /\ view.y # lock.now.targetY
       IN  view' = IF ~off THEN v
                   ELSE IF lock.now.gesture THEN [v EXCEPT !.unseen = TRUE]
                   ELSE [ScrollTo(v, lock.now.targetY) EXCEPT !.unseen = FALSE]
    /\ UNCHANGED lock

\* markGesture() and reanchor(): a wheel, touch or key event, before the page has scrolled.
Gesture ==
    /\ lock.now.on /\ Moves
    /\ lock' = [lock EXCEPT !.now.gesture = TRUE, !.now.raf = FALSE, !.now.targetY = view.y,
                            !.now.anchorTop = AnchorTop(view), !.saved = view.y]
    /\ view' = [Counted(view) EXCEPT !.unseen = FALSE]

\* USER_GESTURE_WINDOW_MS pass.
GestureEnds ==
    /\ lock.now.gesture
    /\ lock' = [lock EXCEPT !.now.gesture = FALSE]
    /\ UNCHANGED view

\* The user, a script, or the browser that restores a position scrolls the page.
PageScrolls ==
    /\ Moves
    /\ \E n \in 0..view.end \ {view.y} : view' = ScrollTo(Counted(view), n)
    /\ UNCHANGED lock

\* The page grows or shrinks, above the anchor or below, or the anchor is replaced; the observer sees
\* a change in the wrapper.  A page that grows elsewhere tells the lock nothing.
LayoutShifts ==
    /\ Moves
    /\ \E end \in 0..MaxY, top \in 0..MaxY, here \in BOOLEAN, seen \in BOOLEAN :
         /\ view' = [ScrollTo([Counted(view) EXCEPT !.end = end], view.y) EXCEPT
                       !.top = top, !.anchored = here,
                       !.unseen = @ \/ (lock.now.on /\ ~seen /\ end > view.end)]
         /\ lock' = IF seen /\ lock.now.on THEN [lock EXCEPT !.now.raf = TRUE] ELSE lock

\* The page is loaded again, as long as it is by then: the stored position is applied as the script
\* is parsed, and kept for later.
Reload ==
    /\ Moves
    /\ lock' = [lock EXCEPT !.now = Off]
    /\ \E end \in 0..MaxY :
         \E y \in IF lock.saved = NoTop THEN 0..end ELSE {Least(lock.saved, end)} :
           view' = [Counted(view) EXCEPT !.y = y, !.end = end, !.event = FALSE, !.anchored = TRUE,
                                         !.unseen = FALSE, !.savedY = lock.saved,
                                         !.retries = IF lock.saved = NoTop THEN 0 ELSE 2]

\* The retry on fonts.ready or on load, whatever was stored meanwhile.
Retry ==
    /\ view.retries > 0
    /\ view' = ScrollTo([view EXCEPT !.retries = @ - 1], view.savedY)
    /\ UNCHANGED lock

InitScroll ==
    /\ view \in [y : {0}, end : 0..MaxY, top : 0..MaxY, anchored : {TRUE}, event : {FALSE},
                 unseen : {FALSE}, savedY : {NoTop}, retries : {0}, moves : {0}]
    /\ lock = [now |-> Off, saved |-> NoTop, picked |-> NoTop]

NextScroll ==
    \/ Go \/ Resume \/ Finish \/ Release \/ Correct \/ ScrollEvent \/ Gesture \/ GestureEnds
    \/ PageScrolls \/ LayoutShifts \/ Reload \/ Retry

----------------------------------------------------------------------------

\* "Hold window.scrollY at a fixed value": once the frames and the scroll events have run, a locked page
\* stands at the lock's target, or at its end while it is too short for that, whatever scripts, retries
\* and hot updates did meanwhile.  It may stand elsewhere only after a scroll that a gesture allowed
\* and after it has grown where no observer looks, until the next correction.  A reload comes
\* back to that target, unless nothing was stored.
ScrollHeld ==
    /\ (lock.now.on /\ ~lock.now.raf /\ ~view.event /\ ~view.unseen) =>
         view.y = Least(lock.now.targetY, view.end)
    /\ lock.now.on => lock.saved \in {lock.now.targetY, NoTop}
=============================================================================
