----------------------------- MODULE LiveTexts -----------------------------
(***************************************************************************)
(* Where a copy edit is, for the live overlay (live-browser.js): the texts *)
(* of a picked paragraph are made editable, the edits are saved with a     *)
(* reference each, and a discard later finds the texts again by these      *)
(* references and puts the original words back.  In between the markers    *)
(* around loose texts are removed, so a reference is taken from one tree   *)
(* and looked up in another.                                               *)
(*                                                                         *)
(* The document is the picked paragraph, whose nodes are loose texts and   *)
(* elements with one text, and a second paragraph after it.  The class of  *)
(* an element matters by whether a reference can carry it: "dotted" ones   *)
(* (w-1.5) are cut in two when the reference is parsed.  The server that   *)
(* keeps the edits is external.                                            *)
(***************************************************************************)
EXTENDS Integers, Sequences, FiniteSets
LOCAL INSTANCE SequencesExt

CONSTANTS Words,       \* texts other than blanks
          LeafTags,    \* tags of the paragraph's elements
          MaxNodes,    \* nodes of the paragraph
          MaxEdits     \* texts edited

ASSUME TextBounds == MaxNodes > 0 /\ MaxEdits > 0 /\ "p" \notin LeafTags

VARIABLES para,    \* the picked paragraph: its class and its nodes
          other,   \* the second paragraph: its class and its text
          texts    \* the editing session: phase, rows, saved edits, failures, and the texts before it

textVars == <<para, other, texts>>

Blank == "blank"
Tokens == {"none", "plain", "dotted"}
Text(w) == [kind |-> "text", tag |-> "text", class |-> "none", text |-> w]
Elem(tag, class, w) == [kind |-> "elem", tag |-> tag, class |-> class, text |-> w]
Wrapped(w) == [kind |-> "wrap", tag |-> "span", class |-> "none", text |-> w]
IsText(n) == n.kind = "text"

----------------------------------------------------------------------------
(* Rows.                                                                   *)

\* MIXED_WRAP_SKIP
Skipped(tag) == tag \in {"code", "pre", "script", "style", "template", "noscript", "svg"}

\* wrapMixedContentTextNodes(): the words among elements get a marker span.
Wrap(nodes) ==
    IF (\E i \in DOMAIN nodes : IsText(nodes[i]) /\ nodes[i].text # Blank)
       /\ (\E i \in DOMAIN nodes : ~IsText(nodes[i]))
    THEN [i \in DOMAIN nodes |->
            IF IsText(nodes[i]) /\ nodes[i].text # Blank THEN Wrapped(nodes[i].text) ELSE nodes[i]]
    ELSE nodes

\* unwrapMixedContentTextNodes(): texts are never neighbours, so there is nothing to join.
Unwrap(nodes) == [i \in DOMAIN nodes |-> IF nodes[i].kind = "wrap" THEN Text(nodes[i].text) ELSE nodes[i]]

\* collectEditableTextRows(): 0 is the paragraph itself.
Rows(nodes) ==
    {i \in DOMAIN nodes : ~IsText(nodes[i]) /\ ~Skipped(nodes[i].tag) /\ nodes[i].text # Blank}
      \cup (IF Len(nodes) = 1 /\ IsText(nodes[1]) /\ nodes[1].text # Blank THEN {0} ELSE {})

\* The text of a row.
RowText(nodes, i) == IF i = 0 THEN nodes[1].text ELSE nodes[i].text

----------------------------------------------------------------------------
(* References.                                                             *)

\* indexAmongSameTag()
IndexAmongSameTag(nodes, i) == Cardinality({j \in 1..i : nodes[j].tag = nodes[i].tag})

\* documentRefForElement(), below the paragraph's own segment.
DocumentRef(nodes, i) ==
    IF i = 0 THEN <<>>
    ELSE <<[tag |-> nodes[i].tag, class |-> nodes[i].class, nth |-> IndexAmongSameTag(nodes, i)]>>

\* parseManualEditRefSegment() and elementMatchesManualRefSegment()
Matches(nodes, i, segment) ==
    /\ ~IsText(nodes[i])
    /\ nodes[i].tag = segment.tag
    /\ segment.class = "none" \/ (segment.class = "plain" /\ nodes[i].class = "plain")
    /\ IndexAmongSameTag(nodes, i) = segment.nth

\* queryManualEditRef(): a row, or -1.
Query(p, ref) ==
    IF p.class = "dotted" THEN -1
    ELSE IF ref = <<>> THEN 0
    ELSE LET found == {i \in DOMAIN p.nodes : Matches(p.nodes, i, ref[1])}
         IN  IF found = {} THEN -1 ELSE CHOOSE i \in found : \A j \in found : i <= j

\* buildLocatorForLeaf(): the element or the nearest ancestor that has a class, or the paragraph.
Locator(p, i) ==
    IF i # 0 /\ p.nodes[i].class # "none"
    THEN [tag |-> p.nodes[i].tag, class |-> p.nodes[i].class]
    ELSE [tag |-> "p", class |-> p.class]

\* directMixedTextRestoreNodes(), as positions.
RestoreNodes(nodes) ==
    {i \in DOMAIN nodes : (IsText(nodes[i]) \/ nodes[i].kind = "wrap") /\ nodes[i].text # Blank}

\* Mutant: no hint is saved.
NoHint(nodes, i) == 0

\* mixedTextWrapRestoreHint(): the rank of the text in its paragraph, or 0.
RestoreHint(nodes, i) ==
    IF i # 0 /\ nodes[i].kind = "wrap" THEN Cardinality({j \in RestoreNodes(nodes) : j <= i}) ELSE 0

----------------------------------------------------------------------------
(* Restoring.                                                              *)

\* restoreMixedTextNodeManualEdit(): the node to restore, or 0.
MixedTextNode(p, op) ==
    LET nodes == {i \in RestoreNodes(p.nodes) : IsText(p.nodes[i])}
        ranked == {i \in nodes : Cardinality({j \in nodes : j <= i}) = op.hint /\ p.nodes[i].text = op.new}
        same == {i \in nodes : p.nodes[i].text = op.new}
    IN  CASE op.hint = 0 \/ p.class = "dotted" -> 0
          [] op.hint > 0 /\ p.class # "dotted" /\ ranked # {} -> CHOOSE i \in ranked : TRUE
          [] OTHER -> IF Cardinality(same) = 1 THEN CHOOSE i \in same : TRUE ELSE 0

\* The whole text of the paragraph is this word.
WholeText(p, w) == \E i \in DOMAIN p.nodes : p.nodes[i].text = w /\ \A j \in DOMAIN p.nodes \ {i} : p.nodes[j].text = Blank

\* The elements that the locator selects and that have the new text: nodes, the paragraph (0), the
\* second paragraph (-2).
Selected(p, o, op) ==
    {i \in DOMAIN p.nodes : /\ p.nodes[i].kind = "elem" /\ p.nodes[i].tag = op.locator.tag
                            /\ op.locator.class = "none" \/ p.nodes[i].class = op.locator.class
                            /\ p.nodes[i].text = op.new}
      \cup {i \in {0} : /\ op.locator.tag = "p" /\ WholeText(p, op.new)
                        /\ op.locator.class = "none" \/ p.class = op.locator.class}
      \cup {i \in {-2} : /\ op.locator.tag = "p" /\ o.text = op.new
                         /\ op.locator.class = "none" \/ o.class = op.locator.class}

\* findManualEditRestoreElement()
RestoreElement(p, o, op) ==
    LET byRef == Query(p, op.ref)
    IN  IF byRef # -1 THEN byRef
        ELSE IF Cardinality(Selected(p, o, op)) = 1 THEN CHOOSE i \in Selected(p, o, op) : TRUE ELSE -1

\* canRestoreManualEditElement(): an element without elements in it that has the new text.
CanRestore(p, o, op, i) ==
    CASE i = -1 -> FALSE
      [] i = -2 -> o.text = op.new
      [] i = 0  -> (\A j \in DOMAIN p.nodes : IsText(p.nodes[j])) /\ WholeText(p, op.new)
      [] OTHER  -> p.nodes[i].text = op.new

\* One edit of restoreDiscardedManualEdits(), on the paragraphs and the count of failures.
RestoreOne(d, op) ==
    LET mixed == MixedTextNode(d.para, op)
        el == RestoreElement(d.para, d.other, op)
    IN  IF mixed # 0 THEN [d EXCEPT !.para.nodes[mixed].text = op.old]
        ELSE IF ~CanRestore(d.para, d.other, op, el) THEN [d EXCEPT !.failures = @ + 1]
        ELSE IF el = -2 THEN [d EXCEPT !.other.text = op.old]
        ELSE IF el = 0 THEN [d EXCEPT !.para.nodes = <<Text(op.old)>>]
        ELSE [d EXCEPT !.para.nodes[el].text = op.old]

----------------------------------------------------------------------------
(* The editing session.                                                    *)

Documents ==
    {nodes \in BoundedSeq({Text(w) : w \in Words \cup {Blank}}
                            \cup {Elem(t, c, w) : t \in LeafTags, c \in Tokens, w \in Words}, MaxNodes) :
       nodes # <<>> /\ \A i \in 1..(Len(nodes) - 1) : ~(IsText(nodes[i]) /\ IsText(nodes[i + 1]))}

\* enableInlineEdit()
EnableEdit ==
    /\ texts.phase = "picked" /\ Rows(Wrap(para.nodes)) # {}
    /\ para' = [para EXCEPT !.nodes = Wrap(@)]
    /\ texts' = [texts EXCEPT !.phase = "editing", !.rows = Rows(para'.nodes)]
    /\ UNCHANGED other

\* onInlineInput(): a row is typed over; the words a save refuses are left out.
EditRow ==
    /\ texts.phase = "editing" /\ Cardinality(DOMAIN texts.drafts) < MaxEdits
    /\ \E i \in texts.rows \ DOMAIN texts.drafts, w \in Words :
         /\ w # RowText(para.nodes, i)
         /\ para' = IF i = 0 THEN [para EXCEPT !.nodes[1].text = w] ELSE [para EXCEPT !.nodes[i].text = w]
         /\ texts' = [texts EXCEPT !.drafts = [j \in {i} \cup DOMAIN @ |->
                                                 IF j = i THEN RowText(para.nodes, i) ELSE @[j]]]
    /\ UNCHANGED other

\* One edit of applyEditing().
EditOp(i) ==
    [old |-> texts.drafts[i], new |-> RowText(para.nodes, i), ref |-> DocumentRef(para.nodes, i),
     locator |-> Locator(para, i), hint |-> RestoreHint(para.nodes, i)]

\* applyEditing(), once the server has the edits: the markers are removed.
SaveOps ==
    /\ texts.phase = "editing" /\ DOMAIN texts.drafts # {}
    /\ texts' = [texts EXCEPT !.phase = "saved",
                    !.ops = LET rows == SetToSortSeq(DOMAIN texts.drafts, <)
                            IN  [k \in DOMAIN rows |-> EditOp(rows[k])]]
    /\ para' = [para EXCEPT !.nodes = Unwrap(@)]
    /\ UNCHANGED other

\* restoreDiscardedManualEdits()
Discard ==
    LET d == FoldLeft(RestoreOne, [para |-> para, other |-> other, failures |-> 0], texts.ops)
    IN  /\ texts.phase = "saved"
        /\ para' = d.para
        /\ other' = d.other
        /\ texts' = [texts EXCEPT !.phase = "discarded", !.failures = d.failures]

InitTexts ==
    /\ para \in [class : Tokens, nodes : Documents]
    /\ other \in [class : {"none", "dotted"}, text : Words]
    /\ texts = [phase |-> "picked", rows |-> {}, drafts |-> <<>>, ops |-> <<>>, failures |-> 0,
                before |-> [para |-> para, other |-> other]]

NextTexts == EnableEdit \/ EditRow \/ SaveOps \/ Discard

----------------------------------------------------------------------------

\* A reference of every row still means the row once the markers are gone: no class is cut when it is
\* parsed, and no span of the page is counted together with markers.
Addressable(p) ==
    /\ p.class # "dotted"
    /\ \A i \in DOMAIN p.nodes : p.nodes[i].class # "dotted"
    /\ Wrap(p.nodes) # p.nodes => \A i \in DOMAIN p.nodes : p.nodes[i].tag # "span"

\* Discarding copy edits gives back the page as it was: every edited text has its words again and
\* no other text is touched, though the texts were referred to in the tree with the markers; and while
\* the edits are only saved the page differs from the original in the edited texts alone.
TextsRestored ==
    /\ (texts.phase = "discarded" /\ Addressable(texts.before.para))
         => para = texts.before.para /\ other = texts.before.other /\ texts.failures = 0
    /\ texts.phase = "saved"
         => \A i \in DOMAIN para.nodes :
              para.nodes[i] = texts.before.para.nodes[i] \/ i \in DOMAIN texts.drafts \/ 0 \in DOMAIN texts.drafts
=============================================================================
