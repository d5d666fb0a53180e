---- MODULE MCLiveTools ----
(***************************************************************************)
(* The tools of the live overlay on small instances.  Each is checked by   *)
(* itself: a behaviour is one of a single tool, and the variables of the   *)
(* others are idle.                                                        *)
(***************************************************************************)
EXTENDS LiveEdits, LiveSteer, LivePreviews, LiveDetect, LiveTexts, LiveNotes, LiveStore, LiveScroll, LivePicking

VARIABLE tool   \* the tool that is at work

\* The pages of LivePicking: a flex row whose narrow child has a gap on either side, a grid that wraps,
\* and a narrow column with a thin divider and two children that touch.
Rect(l, t, r, b) == [l |-> l, t |-> t, r |-> r, b |-> b]
MCLayouts == <<
  [display |-> "flex", dir |-> "row", box |-> Rect(0, 0, 300, 100), w |-> 300, body |-> 320, share |-> 80,
   els |-> <<Rect(10, 10, 110, 90), Rect(130, 16, 152, 70), Rect(172, 10, 290, 90)>>,
   sel |-> <<"section", "div", "div", "div">>, text |-> <<"", "a", "b", "a">>],
  [display |-> "grid", dir |-> "row", box |-> Rect(0, 0, 300, 240), w |-> 300, body |-> 320, share |-> 140,
   els |-> <<Rect(10, 10, 140, 60), Rect(160, 10, 290, 60), Rect(10, 80, 140, 130), Rect(10, 150, 290, 230)>>,
   sel |-> <<"div", "card", "card", "card", "div">>, text |-> <<"", "a", "b", "c", "d">>],
  [display |-> "block", dir |-> "column", box |-> Rect(0, 0, 100, 200), w |-> 100, body |-> 320, share |-> 100,
   els |-> <<Rect(0, 10, 100, 60), Rect(0, 70, 100, 74), Rect(0, 84, 100, 130), Rect(0, 130, 100, 190)>>,
   sel |-> <<"section", "p", "hr", "p", "p">>, text |-> <<"", "a", "", "b", "c">>]>>

Idle == "idle"
IdleEdits == edit = Idle /\ staged = Idle /\ events = Idle /\ used = Idle
IdleSteer == chat = Idle /\ voice = Idle /\ steers = Idle
IdlePreviews == pv = Idle /\ place = Idle /\ runs = Idle /\ feed = Idle /\ overlap = Idle
IdleDetect == site = Idle /\ detect = Idle /\ wire = Idle
IdleTexts == para = Idle /\ other = Idle /\ texts = Idle
IdleNotes == marks = Idle /\ hand = Idle /\ sent = Idle /\ made = Idle
IdleStore == store = Idle /\ pages = Idle /\ started = Idle /\ past = Idle
IdleScroll == view = Idle /\ lock = Idle
IdlePicking == ov = Idle /\ page = Idle

Init ==
    /\ tool \in {"edits", "steer", "previews", "detect", "texts", "notes", "store", "scroll", "picking"}
    /\ IF tool = "edits" THEN InitEdits ELSE IdleEdits
    /\ IF tool = "steer" THEN InitSteer ELSE IdleSteer
    /\ IF tool = "previews" THEN InitPreviews ELSE IdlePreviews
    /\ IF tool = "detect" THEN InitDetect ELSE IdleDetect
    /\ IF tool = "texts" THEN InitTexts ELSE IdleTexts
    /\ IF tool = "notes" THEN InitNotes ELSE IdleNotes
    /\ IF tool = "store" THEN InitStore ELSE IdleStore
    /\ IF tool = "scroll" THEN InitScroll ELSE IdleScroll
    /\ IF tool = "picking" THEN InitPicking ELSE IdlePicking

vars == <<tool, editVars, steerVars, previewVars, detectVars, textVars, noteVars, storeVars, scrollVars, pickVars>>

Next ==
    \/ /\ tool = "edits" /\ NextEdits
       /\ UNCHANGED <<tool, steerVars, previewVars, detectVars, textVars, noteVars, storeVars, scrollVars, pickVars>>
    \/ /\ tool = "steer" /\ NextSteer
       /\ UNCHANGED <<tool, editVars, previewVars, detectVars, textVars, noteVars, storeVars, scrollVars, pickVars>>
    \/ /\ tool = "previews" /\ NextPreviews
       /\ UNCHANGED <<tool, editVars, steerVars, detectVars, textVars, noteVars, storeVars, scrollVars, pickVars>>
    \/ /\ tool = "detect" /\ NextDetect
       /\ UNCHANGED <<tool, editVars, steerVars, previewVars, textVars, noteVars, storeVars, scrollVars, pickVars>>
    \/ /\ tool = "texts" /\ NextTexts
       /\ UNCHANGED <<tool, editVars, steerVars, previewVars, detectVars, noteVars, storeVars, scrollVars, pickVars>>
    \/ /\ tool = "notes" /\ NextNotes
       /\ UNCHANGED <<tool, editVars, steerVars, previewVars, detectVars, textVars, storeVars, scrollVars, pickVars>>
    \/ /\ tool = "store" /\ NextStore
       /\ UNCHANGED <<tool, editVars, steerVars, previewVars, detectVars, textVars, noteVars, scrollVars, pickVars>>
    \/ /\ tool = "scroll" /\ NextScroll
       /\ UNCHANGED <<tool, editVars, steerVars, previewVars, detectVars, textVars, noteVars, storeVars, pickVars>>
    \/ /\ tool = "picking" /\ NextPicking
       /\ UNCHANGED <<tool, editVars, steerVars, previewVars, detectVars, textVars, noteVars, storeVars, scrollVars>>

Spec == Init /\ [][Next]_vars

\* Copy edits: the overlay is frozen only while an apply runs or its end is on the way, and a text left
\* unsaved is what it was (EditsSettled); a discard gives the page its texts back (TextsRestored).
CopyEditsHold == (tool = "edits" => EditsSettled) /\ (tool = "texts" => TextsRestored)

\* Input: a steer locks the chat until its end and voice keeps its input (SteersSettle), a note
\* goes to the pin it was opened on (NotesKept), and the mode, the insert line, the placeholder and the
\* request for its variants agree (PickingTrue).
InputHolds ==
    (tool = "steer" => SteersSettle) /\ (tool = "notes" => NotesKept) /\ (tool = "picking" => PickingTrue)

\* What the user looks at: component previews never lose the page's element or strand the overlay
\* (PreviewsHold), and a locked page keeps its scroll position as far as it reaches (ScrollHeld).
ViewHolds == (tool = "previews" => PreviewsHold) /\ (tool = "scroll" => ScrollHeld)

\* What a page takes over: the waivers of its own file (DetectTrue), and only sessions of its own
\* project that nobody finished (StoreKept).
PagesHold == (tool = "detect" => DetectTrue) /\ (tool = "store" => StoreKept)
====
