----------------------------- MODULE LiveNotes -----------------------------
(***************************************************************************)
(* The annotations of the live overlay (live-browser.js): pins with a note *)
(* and strokes that are drawn over the picked element and sent with the    *)
(* request for variants.  Pins are known by their place in an array, in    *)
(* the drag, in the note being edited and in the last press, while other   *)
(* handlers remove pins from it; here a pin also has a number of its own,  *)
(* which the code does not know.  One pointer; where things are on the     *)
(* screen, and the resizing of a placeholder's edges, are left out.        *)
(***************************************************************************)
EXTENDS Integers, Sequences, FiniteSets
LOCAL INSTANCE SequencesExt

CONSTANTS MaxPins,      \* pins ever placed
          MaxStrokes,   \* strokes ever drawn
          MaxNotes      \* times a note's text is typed

ASSUME NoteBounds == MaxPins > 0 /\ MaxStrokes > 0 /\ MaxNotes > 0

VARIABLES marks,   \* annotState: pins and strokes, and the overlay's visibility
          hand,    \* annotPointer, annotEditing, annotLastPinClick
          sent,    \* what the requests for variants carried
          made     \* counters, and whether a press kept an index that its own commit moved

noteVars == <<marks, hand, sent, made>>

NoPointer == [kind |-> "none", idx |-> 0, pin |-> 0, moved |-> FALSE]
NoEdit == [idx |-> 0, pin |-> 0, value |-> "", originalText |-> ""]
Pins == DOMAIN marks.comments
Editing == hand.editing.idx # 0

\* PIN_DBL_CLICK_MS is shorter than any gesture other than a press and a release on pins.
Unhurried == hand.last = 0

----------------------------------------------------------------------------
(* The note of a pin.                                                      *)

\* beginEditPin(), if the pin is there.
BeginEdit(comments, idx) ==
    IF idx \notin DOMAIN comments THEN NoEdit
    ELSE [idx |-> idx, pin |-> comments[idx].pin, value |-> comments[idx].text,
          originalText |-> comments[idx].text]

\* Mutant: a note without words is kept.
FinalizedKept(comments, edit) == [comments EXCEPT ![edit.idx].text = edit.value]

\* finalizeEditingPin(): the words go to the pin, and a pin without words is removed.
Finalized(comments, edit) ==
    IF edit.value # "" THEN [comments EXCEPT ![edit.idx].text = edit.value]
    ELSE RemoveAt(comments, edit.idx)

\* cancelEditingPin()
Cancelled(comments, edit) ==
    IF edit.originalText # "" THEN [comments EXCEPT ![edit.idx].text = edit.originalText]
    ELSE RemoveAt(comments, edit.idx)

----------------------------------------------------------------------------
(* The pointer: onAnnotDown, onAnnotMove, onAnnotUp.                       *)

Down == marks.active /\ hand.pointer = NoPointer

\* clearAnnotations()
Cleared == /\ marks' = [marks EXCEPT !.comments = <<>>, !.strokes = <<>>]
           /\ hand' = [pointer |-> NoPointer, editing |-> NoEdit, last |-> 0]

PressClear ==
    /\ Down /\ Unhurried /\ (marks.comments # <<>> \/ marks.strokes # <<>>)
    /\ Cleared
    /\ UNCHANGED <<sent, made>>

PressStroke ==
    /\ Down /\ Unhurried
    /\ \E k \in DOMAIN marks.strokes : marks' = [marks EXCEPT !.strokes = RemoveAt(@, k)]
    /\ UNCHANGED <<hand, sent, made>>

\* The second press on a pin within PIN_DBL_CLICK_MS.
DeletePin(idx) ==
    /\ Down /\ hand.last = idx
    /\ marks' = [marks EXCEPT !.comments = RemoveAt(@, idx)]
    /\ hand' = [hand EXCEPT !.last = 0, !.editing = IF @.idx = idx THEN NoEdit ELSE @]
    /\ UNCHANGED <<sent, made>>

\* A first press: another pin's note is committed, and the drag starts from the same index.
GrabPin(idx) ==
    LET commits  == Editing /\ hand.editing.idx # idx
        comments == IF commits THEN Finalized(marks.comments, hand.editing) ELSE marks.comments
        stale    == Len(comments) < Len(marks.comments) /\ hand.editing.idx < idx
    IN  /\ Down /\ hand.last # idx
        /\ marks' = [marks EXCEPT !.comments = comments]
        /\ hand' = [last |-> idx,
                    editing |-> IF commits THEN NoEdit ELSE hand.editing,
                    pointer |-> IF idx \notin DOMAIN comments \/ (Editing /\ ~commits) THEN NoPointer
                                ELSE [kind |-> "pin", idx |-> idx, pin |-> marks.comments[idx].pin, moved |-> FALSE]]
        /\ made' = [made EXCEPT !.stale = @ \/ stale]
        /\ UNCHANGED sent

PressPin == \E idx \in Pins : DeletePin(idx) \/ GrabPin(idx)

PressEmpty ==
    /\ Down /\ Unhurried
    /\ IF Editing
       THEN /\ marks' = [marks EXCEPT !.comments = Finalized(@, hand.editing)]
            /\ hand' = [hand EXCEPT !.editing = NoEdit]
       ELSE /\ hand' = [hand EXCEPT !.pointer = [NoPointer EXCEPT !.kind = "new"]]
            /\ UNCHANGED marks
    /\ UNCHANGED <<sent, made>>

\* The pointer passes DRAG_THRESHOLD.
Move ==
    /\ marks.active /\ hand.pointer.kind # "none" /\ ~hand.pointer.moved
    /\ hand' = [hand EXCEPT !.pointer = IF @.kind = "pin" /\ @.idx \notin Pins THEN NoPointer
                                        ELSE [@ EXCEPT !.moved = TRUE]]
    /\ UNCHANGED <<marks, sent, made>>

ReleasePin ==
    /\ marks.active /\ hand.pointer.kind = "pin"
    /\ hand' = IF hand.pointer.moved THEN [hand EXCEPT !.pointer = NoPointer, !.last = 0]
               ELSE [hand EXCEPT !.pointer = NoPointer, !.editing = BeginEdit(marks.comments, hand.pointer.idx)]
    /\ UNCHANGED <<marks, sent, made>>

ReleaseStroke ==
    /\ marks.active /\ hand.pointer.kind = "new" /\ hand.pointer.moved /\ made.strokes < MaxStrokes
    /\ marks' = [marks EXCEPT !.strokes = Append(@, made.strokes + 1)]
    /\ made' = [made EXCEPT !.strokes = @ + 1]
    /\ hand' = [hand EXCEPT !.pointer = NoPointer]
    /\ UNCHANGED sent

ReleaseNew ==
    LET comments == Append(marks.comments, [pin |-> made.pins + 1, text |-> ""])
    IN  /\ marks.active /\ hand.pointer.kind = "new" /\ ~hand.pointer.moved /\ made.pins < MaxPins
        /\ marks' = [marks EXCEPT !.comments = comments]
        /\ made' = [made EXCEPT !.pins = @ + 1]
        /\ hand' = [hand EXCEPT !.pointer = NoPointer, !.editing = BeginEdit(comments, Len(comments))]
        /\ UNCHANGED sent

----------------------------------------------------------------------------

TypeNote ==
    /\ Editing /\ Unhurried /\ made.notes < MaxNotes
    /\ \E w \in {"", "a", "b"} \ {hand.editing.value} : hand' = [hand EXCEPT !.editing.value = w]
    /\ made' = [made EXCEPT !.notes = @ + 1]
    /\ UNCHANGED <<marks, sent>>

\* Enter, or the focus leaves the note.
CommitNote ==
    /\ Editing /\ Unhurried
    /\ marks' = [marks EXCEPT !.comments = Finalized(@, hand.editing)]
    /\ hand' = [hand EXCEPT !.editing = NoEdit]
    /\ UNCHANGED <<sent, made>>

CancelNote ==
    /\ Editing /\ Unhurried
    /\ marks' = [marks EXCEPT !.comments = Cancelled(@, hand.editing)]
    /\ hand' = [hand EXCEPT !.editing = NoEdit]
    /\ UNCHANGED <<sent, made>>

\* PIN_DBL_CLICK_MS pass.
WindowCloses ==
    /\ hand.last # 0
    /\ hand' = [hand EXCEPT !.last = 0]
    /\ UNCHANGED <<marks, sent, made>>

\* hideAnnotOverlay() on the way to text editing, whose click takes the focus from a note first.
HideOverlay ==
    /\ marks.active /\ ~Editing /\ Unhurried
    /\ marks' = [marks EXCEPT !.active = FALSE]
    /\ UNCHANGED <<hand, sent, made>>

\* showAnnotOverlay() when text editing ends.
ShowOverlay ==
    /\ ~marks.active
    /\ marks' = [marks EXCEPT !.active = TRUE]
    /\ UNCHANGED <<hand, sent, made>>

\* The snapshot of handleGo(), which hides and clears the overlay; its click ends a note first.
SendNotes ==
    /\ marks.active /\ ~Editing /\ Unhurried
    /\ sent' = sent \cup {[comments |-> marks.comments, strokes |-> marks.strokes]}
    /\ Cleared
    /\ UNCHANGED made

InitNotes ==
    /\ marks = [comments |-> <<>>, strokes |-> <<>>, active |-> TRUE]
    /\ hand = [pointer |-> NoPointer, editing |-> NoEdit, last |-> 0]
    /\ sent = {}
    /\ made = [pins |-> 0, strokes |-> 0, notes |-> 0, stale |-> FALSE]

NextNotes ==
    \/ PressClear \/ PressStroke \/ PressPin \/ PressEmpty \/ Move \/ ReleasePin \/ ReleaseStroke
    \/ ReleaseNew \/ TypeNote \/ CommitNote \/ CancelNote \/ WindowCloses \/ HideOverlay \/ ShowOverlay
    \/ SendNotes

----------------------------------------------------------------------------

\* The indices that handlers keep stay those of their pins: what is typed goes to the pin whose note is
\* open, a drag moves the pin that was pressed, no pin without words is left behind or sent, and every
\* pin is there once.  A press that removes an earlier pin, emptied a moment ago, by its own commit is
\* excepted: it keeps the index from before.
NotesKept ==
    ~made.stale =>
      /\ Editing => hand.editing.idx \in Pins /\ marks.comments[hand.editing.idx].pin = hand.editing.pin
      /\ hand.pointer.kind = "pin"
           => hand.pointer.idx \in Pins /\ marks.comments[hand.pointer.idx].pin = hand.pointer.pin
      /\ \A i \in Pins : marks.comments[i].text = "" => hand.editing.idx = i
      /\ \A i, j \in Pins : marks.comments[i].pin = marks.comments[j].pin => i = j
      /\ \A s \in sent : \A i \in DOMAIN s.comments : s.comments[i].text # ""
=============================================================================
