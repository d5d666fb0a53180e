--------------------------- MODULE ChatViewProofs ---------------------------
(***************************************************************************)
(* What a chat page shows of the runs of its project, for every number of  *)
(* runs, events, requests and faults and every size of the observer's      *)
(* queue: the proofs about ChatView.                                       *)
(***************************************************************************)
EXTENDS ChatView, FiniteSetTheorems, WellFoundedInduction, SequenceTheorems, TLAPS

----------------------------------------------------------------------------
(* Folding rows into a card.                                               *)

\* A set of numbers has a least one.
LEMMA LeastNumber ==
    ASSUME NEW T, T \subseteq Nat, T # {}
    PROVE  \E x \in T : \A y \in T : x <= y
<1> DEFINE Below == {1..n : n \in T}
<1>1. Below \subseteq FiniteSubsetsOf(Nat) /\ Below # {}
  <2>1. ASSUME NEW n \in T PROVE 1..n \in FiniteSubsetsOf(Nat)
    <3>1. IsFiniteSet(1..n)
      BY FS_Interval
    <3>2. QED
      BY <3>1 DEF FiniteSubsetsOf
  <2>2. QED
    BY <2>1
<1>2. PICK s \in Below : \A t \in Below : <<t, s>> \notin StrictSubsetOrdering(Nat)
  BY <1>1, FS_StrictSubsetOrderingWellFounded, WFMin
<1>3. PICK x \in T : s = 1..x
  OBVIOUS
<1>4. ASSUME NEW y \in T, y < x PROVE FALSE
  <2>1. (1..y) \subseteq s /\ x \in s /\ x \notin 1..y
    BY <1>3, <1>4
  <2>2. (1..y) \in SUBSET Nat /\ s \in SUBSET Nat
    BY <1>3
  <2>3. <<1..y, s>> \in StrictSubsetOrdering(Nat)
    BY <2>1, <2>2 DEF StrictSubsetOrdering
  <2>4. QED
    BY <1>2, <2>3
<1>5. QED
  BY <1>4

\* The cards of the first n rows, one after the other.
Folded(g, n, r, seen) ==
    g = [i \in 0..n |-> IF i = 0 THEN NoCard ELSE ApplyRunEvent(g[i - 1], log[r][i])]

\* There are such cards for any number of rows: the least number without would follow one with.
LEMMA FoldExists ==
    ASSUME NEW r, NEW seen, NEW n \in Nat
    PROVE  \E g : Folded(g, n, r, seen)
<1> DEFINE Lost == {m \in Nat : ~\E g : Folded(g, m, r, seen)}
           Next1(card, i) == ApplyRunEvent(card, log[r][i])
<1>1. SUFFICES ASSUME Lost # {} PROVE FALSE
  OBVIOUS
<1>2. PICK m \in Lost : \A k \in Lost : m <= k
  BY <1>1, LeastNumber
<1>3. CASE m = 0
  <2>1. Folded([i \in 0..0 |-> NoCard], 0, r, seen)
    BY DEF Folded
  <2>2. QED
    BY <1>3, <2>1
<1>4. CASE m # 0
  <2>1. m - 1 \in Nat /\ m - 1 \notin Lost
    BY <1>2, <1>4
  <2>2. PICK g : Folded(g, m - 1, r, seen)
    BY <2>1
  <2> DEFINE h == [i \in 0..m |-> IF i = m THEN Next1(g[m - 1], m) ELSE g[i]]
  <2>3. ASSUME NEW i \in 0..m PROVE h[i] = IF i = 0 THEN NoCard ELSE Next1(h[i - 1], i)
    <3> HIDE DEF Next1
    <3>1. CASE i = m
      BY <1>4, <3>1
    <3>2. CASE i # m
      <4>1. i \in 0..(m - 1) /\ h[i] = g[i]
        BY <3>2
      <4>2. g[i] = IF i = 0 THEN NoCard ELSE Next1(g[i - 1], i)
        BY <2>2, <4>1 DEF Folded, Next1
      <4>3. i # 0 => h[i - 1] = g[i - 1]
        BY <3>2
      <4>4. QED
        BY <4>1, <4>2, <4>3
    <3>3. QED
      BY <3>1, <3>2
  <2>4. Folded(h, m, r, seen)
    <3> HIDE DEF h
    <3>1. h = [i \in 0..m |-> h[i]]
      BY DEF h
    <3>2. QED
      BY <2>3, <3>1 DEF Folded
  <2>5. QED
    BY <1>2, <2>4
<1>5. QED
  BY <1>3, <1>4

\* What the recursion of restoreRuns() computes is such a sequence of cards.
LEMMA ToldFolds ==
    ASSUME NEW r, NEW seen, seen.rows \in Nat
    PROVE  Folded(Told(r, seen), seen.rows, r, seen)
<1>1. Told(r, seen) = CHOOSE g : Folded(g, seen.rows, r, seen)
  BY DEF Told, Folded
<1>2. \E g : Folded(g, seen.rows, r, seen)
  BY FoldExists
<1>3. QED
  BY <1>1, <1>2

\* One event: the card stays a card, and what it shows of the tool and of the end.
LEMMA ApplySays ==
    ASSUME NEW card \in Cards, NEW kind \in Kinds
    PROVE  LET new == ApplyRunEvent(card, kind)
           IN  /\ new \in Cards
               /\ new.tool = "success" <=> card.tool = "success" \/ kind = "tool_completed"
               /\ kind \in Outcomes => new.status = kind
               /\ kind \notin Outcomes =>
                    new.status = card.status \/ (card.status = "none" /\ new.status = "running")
<1> USE DEF Cards, Statuses, Ended, Outcomes, Kinds, Progress, ApplyRunEvent, Card, End
<1>1. CASE kind = "run_started"
  BY <1>1
<1>2. CASE kind = "tool_started"
  BY <1>2
<1>3. CASE kind = "tool_completed"
  BY <1>3
<1>4. CASE kind \in Outcomes
  BY <1>4
<1>5. QED
  BY <1>1, <1>2, <1>3, <1>4

\* The end of a run that has no row for it.
LEMMA EndSays ==
    ASSUME NEW card \in Cards, NEW outcome \in Statuses
    PROVE  /\ End(card, outcome) \in Cards /\ End(card, outcome).status = outcome
           /\ End(card, outcome).tool = "success" <=> card.tool = "success"
BY DEF Cards, End

\* A sight of a run that its log allows.
Truthful(r, seen) ==
    /\ seen \in [status : Statuses, rows : 0..(MaxEvents + 1)]
    /\ log[r] \in Seq(Kinds) /\ seen.rows <= Len(log[r])
    /\ \A i \in 1..Len(log[r]) : log[r][i] \in Outcomes => i = Len(log[r])

\* A row of some kind among the first n of a run.
Has(r, n, kinds) == \E k \in 1..n : log[r][k] \in kinds

\* Every prefix of the rows gives a card that shows the end and the tool's result if they
\* are among them.
LEMMA ToldSays ==
    ASSUME NEW r, NEW seen, Truthful(r, seen), NEW n \in 0..seen.rows
    PROVE  LET card == Told(r, seen)[n]
           IN  /\ card \in Cards
               /\ card.status \in Ended => Has(r, n, {card.status} \cap Outcomes)
               /\ Has(r, n, Outcomes) => card.status \in Ended
               /\ card.tool = "success" <=> Has(r, n, {"tool_completed"})
<1> USE ChatAssumption
<1> DEFINE g == Told(r, seen)
           Says(i) == /\ g[i] \in Cards
                      /\ g[i].status \in Ended => Has(r, i, {g[i].status} \cap Outcomes)
                      /\ Has(r, i, Outcomes) => g[i].status \in Ended
                      /\ g[i].tool = "success" <=> Has(r, i, {"tool_completed"})
           Lost == {i \in 0..seen.rows : ~Says(i)}
<1>1. seen.rows \in Nat /\ seen.rows <= Len(log[r]) /\ Len(log[r]) \in Nat
  BY DEF Truthful
<1>2. Folded(g, seen.rows, r, seen)
  BY <1>1, ToldFolds
<1> HIDE DEF g
<1>3. \A i \in 0..seen.rows :
        g[i] = IF i = 0 THEN NoCard ELSE ApplyRunEvent(g[i - 1], log[r][i])
  BY <1>2 DEF Folded
<1>4. SUFFICES ASSUME Lost # {} PROVE FALSE
  BY DEF g
<1> HIDE DEF Says
<1>5. PICK i \in Lost : \A k \in Lost : i <= k
  <2>1. Lost \subseteq Nat
    BY <1>1
  <2> HIDE DEF Lost
  <2>2. QED
    BY <1>4, <2>1, LeastNumber
<1>6. CASE i = 0
  <2>1. g[i] = NoCard
    BY <1>3, <1>6
  <2>2. Says(i)
    BY <1>6, <2>1 DEF Says, NoCard, Cards, Statuses, Ended, Outcomes, Has
  <2>3. QED
    BY <1>5, <2>2
<1>7. CASE i # 0
  <2>1. i - 1 \in 0..seen.rows /\ i - 1 \notin Lost /\ i \in 1..seen.rows /\ i \in 1..Len(log[r])
    <3>1. i \in Nat /\ i <= seen.rows /\ i # 0
      BY <1>1, <1>7
    <3>2. i - 1 \in Nat /\ ~(i <= i - 1) /\ i - 1 <= seen.rows /\ i <= Len(log[r])
      BY <1>1, <3>1
    <3>3. i - 1 \notin Lost
      <4> HIDE DEF Lost
      <4>1. QED
        BY <1>5, <3>2
    <3>4. QED
      BY <1>1, <3>1, <3>2, <3>3
  <2>2. Says(i - 1)
    BY <2>1
  <2>3. g[i] = ApplyRunEvent(g[i - 1], log[r][i])
    BY <1>3, <1>7
  <2>4. log[r][i] \in Kinds
    BY <1>1, <2>1 DEF Truthful
  <2> DEFINE kind == log[r][i]
             before == g[i - 1]
             new == g[i]
  <2>5. /\ new \in Cards
        /\ new.tool = "success" <=> before.tool = "success" \/ kind = "tool_completed"
        /\ kind \in Outcomes => new.status = kind
        /\ kind \notin Outcomes =>
             new.status = before.status \/ (before.status = "none" /\ new.status = "running")
    <3>1. before \in Cards
      BY <2>2 DEF Says
    <3>2. new = ApplyRunEvent(before, kind)
      BY <2>3
    <3> HIDE DEF new, before, kind
    <3>3. kind \in Kinds
      BY <2>4 DEF kind
    <3>4. QED
      BY ONLY <3>1, <3>2, <3>3, ApplySays
  <2>6. \A kinds : Has(r, i, kinds) <=> kind \in kinds \/ Has(r, i - 1, kinds)
    BY <2>1 DEF Has
  <2>7. /\ before.status \in Ended => Has(r, i - 1, {before.status} \cap Outcomes)
        /\ Has(r, i - 1, Outcomes) => before.status \in Ended
        /\ before.tool = "success" <=> Has(r, i - 1, {"tool_completed"})
    BY <2>2 DEF Says
  <2> HIDE DEF new, before, kind
  <2>8. new.tool = "success" <=> Has(r, i, {"tool_completed"})
    BY <2>5, <2>6, <2>7
  <2>9. new.status \in Ended => Has(r, i, {new.status} \cap Outcomes)
    <3>1. CASE kind \in Outcomes
      BY <2>5, <2>6, <3>1
    <3>2. CASE kind \notin Outcomes
      BY <2>5, <2>6, <2>7, <3>2 DEF Ended, Outcomes
    <3>3. QED
      BY <3>1, <3>2
  <2>10. Has(r, i, Outcomes) => new.status \in Ended
    <3>1. CASE kind \in Outcomes
      BY <2>5, <3>1 DEF Ended
    <3>2. CASE kind \notin Outcomes
      BY <2>5, <2>6, <2>7, <3>2 DEF Ended, Outcomes
    <3>3. QED
      BY <3>1, <3>2
  <2>11. Says(i)
    BY <2>5, <2>8, <2>9, <2>10 DEF Says, new
  <2>12. QED
    BY <1>5, <2>11
<1>8. QED
  BY <1>6, <1>7

\* What a history makes of a run: its terminal row if that was read, otherwise the status
\* if that is an end; its tool's result if that was read.
LEMMA RestoreSays ==
    ASSUME NEW r, NEW seen, Truthful(r, seen)
    PROVE  LET card == RestoreRun(r, seen)
           IN  /\ card \in Cards
               /\ Has(r, seen.rows, Outcomes) =>
                    seen.rows = Len(log[r]) /\ card.status = log[r][Len(log[r])]
               /\ ~Has(r, seen.rows, Outcomes) /\ seen.status \in Ended =>
                    card.status = seen.status
               /\ card.status \in Ended => seen.status \in Ended \/ Has(r, seen.rows, Outcomes)
               /\ Has(r, seen.rows, Outcomes) => card.status \in Ended
               /\ seen.status \notin Ended /\ seen.rows = 0 => card = NoCard
               /\ card.tool = "success" <=> Has(r, seen.rows, {"tool_completed"})
<1> DEFINE last == Told(r, seen)[seen.rows]
           ended == End(last, seen.status)
<1>1. seen.rows \in Nat /\ seen.status \in Statuses /\ Len(log[r]) \in Nat /\ seen.rows <= Len(log[r])
  BY DEF Truthful
<1>2. /\ last \in Cards
      /\ last.status \in Ended => Has(r, seen.rows, {last.status} \cap Outcomes)
      /\ Has(r, seen.rows, Outcomes) => last.status \in Ended
      /\ last.tool = "success" <=> Has(r, seen.rows, {"tool_completed"})
  <2>1. seen.rows \in 0..seen.rows
    BY <1>1
  <2>2. QED
    BY <2>1, ToldSays
<1>3. /\ ended \in Cards /\ ended.status = seen.status
      /\ ended.tool = "success" <=> last.tool = "success"
  BY <1>1, <1>2, EndSays
<1>4. seen.rows = 0 => last = NoCard
  BY <1>1, ToldFolds DEF Folded
<1>5. RestoreRun(r, seen) = IF seen.status \in Ended /\ last.status \notin Ended THEN ended ELSE last
  BY DEF RestoreRun
<1>6. \A kinds : Has(r, seen.rows, kinds \cap Outcomes) =>
        seen.rows = Len(log[r]) /\ log[r][Len(log[r])] \in kinds
  BY <1>1 DEF Has, Truthful
<1>7. Has(r, seen.rows, Outcomes) => seen.rows = Len(log[r])
  BY <1>1 DEF Has, Truthful
<1> HIDE DEF last, ended
<1>8. CASE last.status \in Ended
  <2>1. Has(r, seen.rows, Outcomes) /\ log[r][Len(log[r])] = last.status
    <3>1. log[r][Len(log[r])] \in {last.status}
      BY <1>2, <1>6, <1>8
    <3>2. Has(r, seen.rows, Outcomes)
      BY <1>2, <1>8 DEF Has
    <3>3. QED
      BY <3>1, <3>2
  <2>2. last # NoCard
    BY <1>8 DEF NoCard, Ended, Outcomes
  <2>3. QED
    BY <1>2, <1>4, <1>5, <1>7, <1>8, <2>1, <2>2
<1>9. CASE last.status \notin Ended
  <2>1. ~Has(r, seen.rows, Outcomes)
    BY <1>2, <1>9
  <2>2. QED
    BY <1>2, <1>3, <1>4, <1>5, <1>9, <2>1
<1>10. QED
  BY <1>8, <1>9

----------------------------------------------------------------------------
(* The server.                                                             *)

\* What every step leaves of a run's rows and of its end.
RunGrows(r) ==
    /\ Len(log[r]) <= Len(log'[r])
    /\ \A i \in 1..Len(log[r]) : log'[r][i] = log[r][i]
    /\ status[r] # "none" => status'[r] # "none"
    /\ Finished(r) => log'[r] = log[r]
    /\ status[r] \in Ended =>
         status'[r] \in Ended /\ (Finished(r)' => Finished(r)) /\ EndedAs(r)' = EndedAs(r)

Grows == \A r \in Runs : RunGrows(r)

ServerTyped == /\ log \in [Runs -> Seq(Kinds)]
               /\ status \in [Runs -> Statuses]
               /\ phase \in [Runs -> Phases] /\ cancelling \subseteq Runs
               /\ emitted \in [Runs -> 0..MaxEvents]

ServerSound == \A r \in Runs : RunSound(r) /\ RunEndsWell(r)
ServerInv == ServerTyped /\ ServerSound

\* What a step makes of a run, and of the server.
RunKept(r) == (RunSound(r) /\ RunEndsWell(r))' /\ RunGrows(r)
ServerKept == ServerInv' /\ Grows

Working == {"admitted", "live", "ending", "stopped"}

\* The row of an end is the last one, and the status an end only by it or by an interruption.
LEMMA EndSound ==
    ASSUME ServerInv, NEW r \in Runs
    PROVE  /\ Len(log[r]) \in Nat
           /\ Finished(r) => /\ log[r][Len(log[r])] \in Outcomes /\ EndedAs(r) = log[r][Len(log[r])]
                             /\ status[r] \in Ended /\ Len(log[r]) # 0
           /\ ~Finished(r) => EndedAs(r) = status[r]
           /\ status[r] \in Ended => Finished(r) \/ status[r] = "interrupted"
           /\ status[r] \in Ended => EndedAs(r) \in Ended
<1>1. log[r] \in Seq(Kinds) /\ status[r] \in Statuses /\ RunSound(r)
  BY DEF ServerInv, ServerTyped, ServerSound
<1>2. Len(log[r]) \in Nat /\ (log[r] = <<>> <=> Len(log[r]) = 0)
  BY <1>1
<1>3. CASE Finished(r)
  <2>1. PICK i \in 1..Len(log[r]) : log[r][i] \in Outcomes
    BY <1>3 DEF Finished
  <2>2. i = Len(log[r]) /\ status[r] \notin {"none", "running"}
    BY <1>1, <1>2, <1>3, <2>1 DEF RunSound
  <2>3. QED
    BY <1>1, <1>2, <1>3, <2>1, <2>2 DEF EndedAs, Statuses, Ended
<1>4. CASE ~Finished(r)
  BY <1>1, <1>2, <1>4 DEF EndedAs, RunSound, Ended
<1>5. QED
  BY <1>3, <1>4

\* Steps that write no row: the task moves on, or the run is interrupted.
LEMMA MovesOn ==
    ASSUME ServerInv, NEW r \in Runs, faults \in Nat, faults' \in Nat, faults <= faults',
           log'[r] = log[r], emitted'[r] <= Len(log[r]),
           status'[r] \in {status[r], "interrupted"}, phase[r] = "none" => status'[r] = status[r],
           phase'[r] = "none" <=> phase[r] = "none",
           phase'[r] \in Working => phase[r] \in Working,
           phase'[r] = "finished" => phase[r] = "finished",
           faults' = 0 /\ phase'[r] \in {"failed", "stuck"} => phase'[r] = phase[r],
           faults' = 0 /\ phase'[r] \in {"over", "silent"} =>
             phase'[r] = phase[r] \/ phase[r] = "finished" \/ status[r] # "running"
    PROVE  RunKept(r)
<1>1. /\ Finished(r)' <=> Finished(r)
      /\ EndedAs(r)' = IF Finished(r) THEN log[r][Len(log[r])] ELSE status'[r]
  BY DEF Finished, EndedAs
<1>2. RunSound(r) /\ RunEndsWell(r) /\ status[r] \in Statuses
  BY DEF ServerInv, ServerSound, ServerTyped
<1>3. /\ Finished(r) => EndedAs(r) = log[r][Len(log[r])]
      /\ ~Finished(r) => EndedAs(r) = status[r]
      /\ status[r] \in Ended => Finished(r) \/ status[r] = "interrupted"
  BY EndSound
<1>4. RunGrows(r)
  <2>1. status[r] \in Ended => status'[r] \in Ended /\ EndedAs(r)' = EndedAs(r)
    BY <1>1, <1>3 DEF Ended
  <2>2. QED
    BY <1>1, <2>1 DEF RunGrows
<1>5. RunSound(r)'
  <2>1. status'[r] \in Outcomes => Finished(r)' /\ status'[r] = EndedAs(r)'
    BY <1>1, <1>2 DEF RunSound, Outcomes, EndedAs
  <2>2. phase'[r] \in Working \/ status'[r] = "running" => ~Finished(r)'
    BY <1>1, <1>2 DEF RunSound, Working
  <2>3. /\ phase'[r] = "none" <=> status'[r] = "none"
        /\ status'[r] = "none" => log'[r] = <<>>
        /\ phase'[r] = "finished" => Finished(r)'
    BY <1>1, <1>2 DEF RunSound
  <2>4. /\ emitted'[r] <= Len(log'[r]) /\ Len(log'[r]) <= MaxEvents + 1
        /\ ~Finished(r)' => Len(log'[r]) <= MaxEvents
        /\ \A i \in 1..Len(log'[r]) : log'[r][i] \in Outcomes => i = Len(log'[r])
    BY <1>1, <1>2 DEF RunSound
  <2>5. QED
    BY <2>1, <2>2, <2>3, <2>4 DEF RunSound, Working
<1>6. RunEndsWell(r)'
  <2> SUFFICES ASSUME faults' = 0
               PROVE  /\ phase'[r] \notin {"failed", "stuck"}
                      /\ phase'[r] \in {"finished", "over", "silent"} =>
                           Finished(r)' \/ status'[r] = "interrupted"
    BY DEF RunEndsWell
  <2>1. faults = 0
    OBVIOUS
  <2>2. /\ phase[r] \notin {"failed", "stuck"}
        /\ phase[r] \in {"finished", "over", "silent"} => Finished(r) \/ status[r] = "interrupted"
    BY <1>2, <2>1 DEF RunEndsWell
  <2>3. phase'[r] \in {"over", "silent"} /\ status[r] # "running" =>
          Finished(r) \/ status[r] = "interrupted"
    BY <1>2, <1>3 DEF RunSound, Statuses
  <2>4. QED
    BY <1>1, <2>2, <2>3
<1>7. QED
  BY <1>4, <1>5, <1>6 DEF RunKept

\* A run that a step does not touch.
LEMMA RunSame ==
    ASSUME ServerInv, NEW r \in Runs, faults \in Nat, faults' \in Nat, faults <= faults',
           log'[r] = log[r], status'[r] = status[r], phase'[r] = phase[r], emitted'[r] = emitted[r]
    PROVE  RunKept(r)
<1>1. emitted'[r] <= Len(log[r])
  BY DEF ServerInv, ServerSound, RunSound
<1>2. QED
  BY <1>1, MovesOn

LEMMA SameServer ==
    ASSUME ServerInv, UNCHANGED serverVars, faults \in Nat, faults' \in Nat, faults <= faults'
    PROVE  ServerKept
<1>1. \A r \in Runs : RunKept(r)
  BY RunSame DEF serverVars
<1>2. QED
  BY <1>1 DEF ServerInv, ServerTyped, ServerSound, ServerKept, Grows, RunKept, serverVars

LEMMA AdmittedKeeps ==
    ASSUME ServerInv, NEW r \in Runs, Admitted(r), UNCHANGED faults, faults \in Nat
    PROVE  ServerKept
<1>1. /\ status[r] = "none" /\ status' = [status EXCEPT ![r] = "running"]
      /\ phase' = [phase EXCEPT ![r] = "admitted"] /\ UNCHANGED <<log, cancelling, emitted>>
  BY DEF Admitted
<1>2. ServerTyped'
  BY <1>1 DEF ServerInv, ServerTyped, Statuses, Phases
<1>3. RunKept(r)
  <2>1. RunSound(r) /\ log[r] = <<>>
    BY <1>1 DEF ServerInv, ServerSound, RunSound
  <2>2. Len(log[r]) = 0 /\ ~Finished(r) /\ ~Finished(r)'
    BY <1>1, <2>1 DEF Finished
  <2>3. status'[r] = "running" /\ phase'[r] = "admitted"
    BY <1>1 DEF ServerInv, ServerTyped
  <2>4. RunSound(r)' /\ RunEndsWell(r)'
    BY <1>1, <2>1, <2>2, <2>3 DEF RunSound, RunEndsWell, Outcomes
  <2>5. RunGrows(r)
    BY <1>1, <2>1, <2>2, <2>3 DEF RunGrows, Ended, Outcomes
  <2>6. QED
    BY <2>4, <2>5 DEF RunKept
<1>4. ASSUME NEW q \in Runs, q # r PROVE RunKept(q)
  BY <1>1, <1>4, RunSame
<1>5. QED
  BY <1>2, <1>3, <1>4 DEF ServerKept, ServerInv, ServerSound, Grows, RunKept

\* A row at the end of a log.
LEMMA RowAdded ==
    ASSUME NEW s \in Seq(Kinds), NEW k \in Kinds
    PROVE  /\ Append(s, k) \in Seq(Kinds) /\ Len(s) \in Nat /\ Len(Append(s, k)) = Len(s) + 1
           /\ \A i \in 1..Len(s) : Append(s, k)[i] = s[i]
           /\ Append(s, k)[Len(s) + 1] = k
OBVIOUS

LEMMA FinishCommitKeeps ==
    ASSUME ServerInv, NEW r \in Runs, FinishCommit(r), UNCHANGED <<cancelling, emitted>>,
           faults \in Nat, faults' \in Nat, faults <= faults', NEW p, phase' = [phase EXCEPT ![r] = p],
           p = "finished" \/ (p \in {"failed", "stuck"} /\ faults' # 0)
    PROVE  ServerKept
<1> USE ChatAssumption
<1>1. log[r] \in Seq(Kinds) /\ Outcome(r) \in Kinds /\ Outcome(r) \in Outcomes
  BY DEF Kinds, Outcomes, Outcome, ServerInv, ServerTyped
<1>2. /\ log' = [log EXCEPT ![r] = Append(log[r], Outcome(r))]
      /\ status' = [status EXCEPT ![r] = Outcome(r)]
      /\ status[r] = "running"
  BY DEF FinishCommit
<1> DEFINE k == Outcome(r)
<1> HIDE DEF k
<1>3. /\ log'[r] \in Seq(Kinds) /\ Len(log[r]) \in Nat /\ Len(log'[r]) = Len(log[r]) + 1
      /\ \A i \in 1..Len(log[r]) : log'[r][i] = log[r][i]
      /\ log'[r][Len(log[r]) + 1] = k
  BY <1>1, <1>2, RowAdded DEF k, ServerInv, ServerTyped
<1>4. ~Finished(r) /\ Len(log[r]) <= MaxEvents /\ emitted[r] <= Len(log[r])
  BY <1>2 DEF ServerInv, ServerSound, RunSound
<1>5. ServerTyped'
  BY <1>1, <1>2, <1>3 DEF ServerInv, ServerTyped, Statuses, Ended, Phases
<1>6. status'[r] = k /\ phase'[r] = p /\ k \in Outcomes
  BY <1>1, <1>2 DEF k, ServerInv, ServerTyped
<1>7. ASSUME NEW q \in Runs, q # r PROVE RunKept(q)
  <2>1. /\ log'[q] = log[q] /\ status'[q] = status[q] /\ phase'[q] = phase[q]
        /\ emitted'[q] = emitted[q]
    BY <1>2, <1>7 DEF ServerInv, ServerTyped
  <2>2. QED
    BY <2>1, RunSame
<1>8. Len(log'[r]) \in 1..Len(log'[r])
  <2>1. Len(log'[r]) \in Nat /\ Len(log'[r]) >= 1
    BY <1>3
  <2>2. QED
    BY <2>1
<1>9. Finished(r)' /\ EndedAs(r)' = k
  BY <1>3, <1>6, <1>8 DEF Finished, EndedAs
<1>10. RunSound(r)'
  <2>1. Len(log'[r]) \in Nat /\ log'[r] # <<>>
    BY <1>3
  <2>2. \A i \in 1..Len(log'[r]) : i \in 1..Len(log[r]) \/ i = Len(log[r]) + 1
    BY <1>3
  <2>3. \A i \in 1..Len(log[r]) : log[r][i] \notin Outcomes
    BY <1>4 DEF Finished
  <2>4. \A i \in 1..Len(log'[r]) : log'[r][i] \in Outcomes => i = Len(log'[r])
    BY <1>3, <2>2, <2>3
  <2>5. emitted'[r] <= Len(log'[r]) /\ Len(log'[r]) <= MaxEvents + 1
    <3>1. emitted'[r] = emitted[r] /\ emitted[r] \in Nat /\ MaxEvents \in Nat
      BY DEF ServerInv, ServerTyped
    <3>2. QED
      BY <1>3, <1>4, <3>1
  <2>6. phase'[r] \notin Working \cup {"none"} /\ status'[r] \notin {"none", "running"}
    BY <1>6 DEF Outcomes, Working
  <2>7. QED
    BY <1>6, <1>9, <2>4, <2>5, <2>6 DEF RunSound, Working
<1>11. RunEndsWell(r)'
  BY <1>6, <1>9 DEF RunEndsWell
<1>12. RunGrows(r)
  <2>1. Len(log[r]) <= Len(log'[r]) /\ status'[r] # "none" /\ status[r] \notin Ended
    BY <1>2, <1>3, <1>6 DEF Outcomes, Ended
  <2>2. QED
    BY <1>3, <1>4, <2>1 DEF RunGrows
<1>13. QED
  BY <1>5, <1>7, <1>10, <1>11, <1>12 DEF ServerKept, ServerInv, ServerSound, Grows, RunKept

LEMMA EmitCommitKeeps ==
    ASSUME ServerInv, NEW r \in Runs, NEW kind \in Progress, EmitCommit(r, kind), faults \in Nat
    PROVE  ServerKept
<1> USE ChatAssumption
<1>1. /\ log' = [log EXCEPT ![r] = Append(log[r], kind)]
      /\ UNCHANGED <<status, phase, cancelling, emitted, faults>>
      /\ phase[r] = "live" /\ emitted[r] = Len(log[r]) /\ emitted[r] < MaxEvents
  BY DEF EmitCommit
<1>2. /\ log'[r] \in Seq(Kinds) /\ Len(log[r]) \in Nat /\ Len(log'[r]) = Len(log[r]) + 1
      /\ \A i \in 1..Len(log[r]) : log'[r][i] = log[r][i]
      /\ log'[r][Len(log[r]) + 1] = kind
  BY <1>1, RowAdded DEF ServerInv, ServerTyped, Kinds
<1>3. ServerTyped'
  BY <1>1, <1>2 DEF ServerInv, ServerTyped
<1>4. ASSUME NEW q \in Runs, q # r PROVE RunKept(q)
  BY <1>1, <1>4, RunSame
<1>5. RunSound(r) /\ RunEndsWell(r) /\ ~Finished(r)
  BY <1>1 DEF ServerInv, ServerSound, RunSound
<1>6. \A i \in 1..Len(log'[r]) : log'[r][i] \notin Outcomes
  <2>1. \A i \in 1..Len(log'[r]) : i \in 1..Len(log[r]) \/ i = Len(log[r]) + 1
    BY <1>2
  <2>2. kind \notin Outcomes
    BY DEF Progress, Outcomes
  <2>3. \A i \in 1..Len(log[r]) : log[r][i] \notin Outcomes
    BY <1>5 DEF Finished
  <2>4. QED
    BY <1>2, <2>1, <2>2, <2>3
<1>7. ~Finished(r)'
  BY <1>6 DEF Finished
<1>8. EndedAs(r) = status[r] /\ EndedAs(r)' = status[r]
  BY <1>1, <1>5, <1>7 DEF EndedAs
<1>9. RunSound(r)'
  <2>1. phase'[r] = "live" /\ status'[r] = status[r] /\ emitted'[r] = emitted[r]
    BY <1>1
  <2>2. emitted'[r] <= Len(log'[r]) /\ Len(log'[r]) <= MaxEvents /\ Len(log'[r]) <= MaxEvents + 1
    BY <1>1, <1>2
  <2>3. status[r] \notin Outcomes /\ status[r] # "none"
    BY <1>1, <1>5 DEF RunSound
  <2>4. QED
    BY <1>6, <1>7, <2>1, <2>2, <2>3 DEF RunSound
<1>10. RunEndsWell(r)'
  BY <1>1, <1>5 DEF RunEndsWell
<1>11. RunGrows(r)
  <2>1. Len(log[r]) <= Len(log'[r])
    BY <1>2
  <2>2. QED
    BY <1>1, <1>2, <1>5, <1>7, <1>8, <2>1 DEF RunGrows
<1>12. QED
  BY <1>3, <1>4, <1>9, <1>10, <1>11 DEF ServerKept, ServerInv, ServerSound, Grows, RunKept

\* The task of one run moves on, without a row.
LEMMA TaskMoves ==
    ASSUME ServerInv, NEW r \in Runs, phase' \in [Runs -> Phases], UNCHANGED <<log, status>>,
           emitted' \in [Runs -> 0..MaxEvents], cancelling' \subseteq Runs,
           \A q \in Runs : q # r => phase'[q] = phase[q] /\ emitted'[q] = emitted[q],
           emitted'[r] <= Len(log[r]), faults \in Nat, faults' \in Nat, faults <= faults',
           phase[r] # "none", phase'[r] \notin {"none", "finished"},
           phase'[r] \in Working => phase[r] \in Working,
           faults' = 0 => phase'[r] \notin {"failed", "stuck"},
           faults' = 0 /\ phase'[r] \in {"over", "silent"} =>
             phase[r] = "finished" \/ status[r] # "running"
    PROVE  ServerKept
<1>1. ServerTyped'
  BY DEF ServerInv, ServerTyped
<1>2. RunKept(r)
  BY MovesOn
<1>3. ASSUME NEW q \in Runs, q # r PROVE RunKept(q)
  BY <1>3, RunSame
<1>4. QED
  BY <1>1, <1>2, <1>3 DEF ServerKept, ServerInv, ServerSound, Grows, RunKept

\* One entry of a function is replaced.
LEMMA PhaseSet ==
    ASSUME ServerInv, NEW r \in Runs, NEW p \in Phases, phase' = [phase EXCEPT ![r] = p]
    PROVE  /\ phase' \in [Runs -> Phases] /\ phase'[r] = p
           /\ \A q \in Runs : q # r => phase'[q] = phase[q]
BY DEF ServerInv, ServerTyped

\* A snapshot or a restart interrupts runs that have been admitted.
LEMMA InterruptedKeeps ==
    ASSUME ServerInv, faults \in Nat, faults' \in Nat, faults <= faults', UNCHANGED log,
           status' \in [Runs -> Statuses], phase' \in [Runs -> Phases], cancelling' \subseteq Runs,
           emitted' \in [Runs -> 0..MaxEvents],
           \A r \in Runs : /\ status'[r] \in {status[r], "interrupted"}
                           /\ phase[r] = "none" => status'[r] = status[r]
                           /\ \/ phase'[r] = phase[r]
                              \/ phase[r] # "none" /\ phase'[r] = "over" /\ faults' # 0
                           /\ emitted'[r] \in {emitted[r], 0}
    PROVE  ServerKept
<1>1. ServerTyped'
  BY DEF ServerInv, ServerTyped
<1>2. ASSUME NEW r \in Runs PROVE RunKept(r)
  <2>1. emitted'[r] <= Len(log[r])
    <3>1. emitted[r] <= Len(log[r]) /\ Len(log[r]) \in Nat
      BY DEF ServerInv, ServerTyped, ServerSound, RunSound
    <3>2. QED
      BY <3>1
  <2>2. QED
    BY <2>1, MovesOn DEF Working
<1>3. QED
  BY <1>1, <1>2 DEF ServerKept, ServerInv, ServerSound, Grows, RunKept

LEMMA EmitPublishKeeps ==
    ASSUME ServerInv, NEW r \in Runs, EmitPublish(r), faults \in Nat
    PROVE  ServerKept
<1>1. /\ emitted' = [emitted EXCEPT ![r] = Len(log[r])]
      /\ UNCHANGED <<log, status, phase, cancelling, faults>> /\ phase[r] = "live"
  BY DEF EmitPublish
<1>2. Len(log[r]) \in 0..MaxEvents
  <2>1. Len(log[r]) \in Nat /\ Len(log[r]) <= MaxEvents /\ MaxEvents \in Nat
    BY <1>1, ChatAssumption DEF ServerInv, ServerTyped, ServerSound, RunSound
  <2>2. QED
    BY <2>1
<1>3. emitted' \in [Runs -> 0..MaxEvents] /\ emitted'[r] = Len(log[r])
  BY <1>1, <1>2 DEF ServerInv, ServerTyped
<1>4. phase' \in [Runs -> Phases]
  BY <1>1 DEF ServerInv, ServerTyped
<1>5. emitted'[r] <= Len(log[r])
  BY <1>2, <1>3
<1>6. \A q \in Runs : q # r => emitted'[q] = emitted[q]
  BY <1>1
<1>7. cancelling' \subseteq Runs
  BY <1>1 DEF ServerInv, ServerTyped
<1>8. QED
  BY <1>1, <1>3, <1>4, <1>5, <1>6, <1>7, TaskMoves DEF Working

LEMMA CancelledKeeps ==
    ASSUME ServerInv, NEW r \in Runs, Cancelled(r), UNCHANGED faults, faults \in Nat
    PROVE  ServerKept
<1>1. /\ phase[r] \notin {"none", "admitted"} /\ cancelling' = cancelling \cup {r}
      /\ UNCHANGED <<log, status, emitted>>
      /\ \/ phase[r] \in Working /\ phase' = [phase EXCEPT ![r] = "stopped"]
         \/ phase' = [phase EXCEPT ![r] = "cancelled"]
  BY DEF Cancelled, Active, Working
<1>2. /\ emitted' \in [Runs -> 0..MaxEvents] /\ cancelling' \subseteq Runs
      /\ emitted'[r] <= Len(log[r])
  BY <1>1 DEF ServerInv, ServerTyped, ServerSound, RunSound
<1>3. "stopped" \in Phases /\ "cancelled" \in Phases
  BY DEF Phases
<1>4. /\ phase' \in [Runs -> Phases] /\ \A q \in Runs : q # r => phase'[q] = phase[q]
      /\ (phase[r] \in Working /\ phase'[r] = "stopped") \/ phase'[r] = "cancelled"
  BY <1>1, <1>3, PhaseSet
<1>5. QED
  BY <1>1, <1>2, <1>4, TaskMoves DEF Working

LEMMA FinishFailsKeeps ==
    ASSUME ServerInv, NEW r \in Runs, FinishFails(r), faults \in Nat
    PROVE  ServerKept
<1> DEFINE p == IF phase[r] = "cancelled" THEN "stuck" ELSE "failed"
<1>1. Len(log[r]) \in Nat
  BY DEF ServerInv, ServerTyped
<1>2. ~(TerminalSequence(r) <= Len(log[r]))
  BY <1>1 DEF TerminalSequence
<1>3. /\ Finishing(r) /\ faults' = faults + 1 /\ UNCHANGED <<cancelling, emitted>>
      /\ FinishCommit(r) \/ UNCHANGED <<log, status>>
      /\ phase' = [phase EXCEPT ![r] = p]
  BY <1>2 DEF FinishFails, ServerInv, ServerTyped
<1>4. faults' \in Nat /\ faults' # 0 /\ faults <= faults'
  BY <1>3
<1>5. p \in {"failed", "stuck"} /\ p \in Phases /\ phase[r] # "none"
  BY <1>3 DEF Phases, Finishing
<1> HIDE DEF p
<1>6. CASE FinishCommit(r)
  BY <1>3, <1>4, <1>5, <1>6, FinishCommitKeeps
<1>7. CASE UNCHANGED <<log, status>>
  <2>1. /\ emitted' \in [Runs -> 0..MaxEvents] /\ cancelling' \subseteq Runs
        /\ emitted'[r] <= Len(log[r])
    BY <1>3 DEF ServerInv, ServerTyped, ServerSound, RunSound
  <2>2. /\ phase' \in [Runs -> Phases] /\ phase'[r] \in {"failed", "stuck"}
        /\ \A q \in Runs : q # r => phase'[q] = phase[q]
    BY <1>3, <1>5, PhaseSet
  <2>3. QED
    BY <1>3, <1>4, <1>5, <1>7, <2>1, <2>2, TaskMoves DEF Working
<1>8. QED
  BY <1>3, <1>6, <1>7

\* A run leaves self.active.
LEMMA LeftKeeps ==
    ASSUME ServerInv, NEW r \in Runs, NEW p \in {"over", "silent"}, Left(r, p), phase[r] # "none",
           UNCHANGED <<log, status, faults>>, faults \in Nat,
           faults = 0 => phase[r] = "finished" \/ status[r] # "running"
    PROVE  ServerKept
<1>1. /\ phase' = [phase EXCEPT ![r] = p] /\ cancelling' = cancelling \ {r}
      /\ emitted' = [emitted EXCEPT ![r] = 0]
  BY DEF Left
<1>2. /\ emitted' \in [Runs -> 0..MaxEvents] /\ cancelling' \subseteq Runs
      /\ emitted'[r] = 0 /\ \A q \in Runs : q # r => emitted'[q] = emitted[q]
  BY <1>1, ChatAssumption DEF ServerInv, ServerTyped
<1>3. p \in Phases /\ 0 <= Len(log[r])
  BY DEF Phases, ServerInv, ServerTyped
<1>4. /\ phase' \in [Runs -> Phases] /\ phase'[r] \in {"over", "silent"}
      /\ \A q \in Runs : q # r => phase'[q] = phase[q]
  BY <1>1, <1>3, PhaseSet
<1>5. QED
  BY <1>1, <1>2, <1>3, <1>4, TaskMoves DEF Working

\* The task of a run and what others do to it.
LEMMA TaskKeeps ==
    ASSUME ServerInv, faults \in Nat, NEW r \in Runs, RunTask(r)
    PROVE  ServerKept
<1>1. /\ emitted \in [Runs -> 0..MaxEvents] /\ cancelling \subseteq Runs
      /\ emitted[r] <= Len(log[r]) /\ (faults = 0 => phase[r] # "failed")
  BY DEF ServerInv, ServerTyped, ServerSound, RunSound, RunEndsWell
<1>2. {"live", "silent", "ending", "stopped"} \subseteq Phases
  BY DEF Phases
<1>3. CASE Register(r) \/ Complete(r) \/ GiveUp(r)
  <2>1. /\ \E p \in {"live", "ending", "stopped"} : phase' = [phase EXCEPT ![r] = p]
        /\ phase[r] \in Working /\ UNCHANGED <<log, status, cancelling, emitted, faults>>
    BY <1>3 DEF Register, Complete, GiveUp, Working
  <2>2. PICK p \in {"live", "ending", "stopped"} : phase' = [phase EXCEPT ![r] = p]
    BY <2>1
  <2>3. phase[r] # "none" /\ p \in Phases
    BY <1>2, <2>1 DEF Working
  <2>4. /\ phase' \in [Runs -> Phases] /\ phase'[r] \in {"live", "ending", "stopped"}
        /\ \A q \in Runs : q # r => phase'[q] = phase[q]
    BY <2>2, <2>3, PhaseSet
  <2>5. QED
    BY <1>1, <2>1, <2>3, <2>4, TaskMoves
<1>4. CASE AdmitFails(r)
  <2>1. /\ phase' = [phase EXCEPT ![r] = "silent"] /\ phase[r] = "admitted"
        /\ UNCHANGED <<log, status, cancelling, emitted>> /\ faults' = faults + 1
    BY <1>4 DEF AdmitFails
  <2>2. faults' \in Nat /\ faults <= faults' /\ faults' # 0
    BY <2>1
  <2>3. /\ phase' \in [Runs -> Phases] /\ phase'[r] = "silent"
        /\ \A q \in Runs : q # r => phase'[q] = phase[q]
    BY <1>2, <2>1, PhaseSet
  <2>4. QED
    BY <1>1, <2>1, <2>2, <2>3, TaskMoves DEF Working
<1>5. CASE EmitPublish(r)
  BY <1>5, EmitPublishKeeps
<1>6. CASE Finish(r)
  <2>1. FinishCommit(r) /\ UNCHANGED <<cancelling, emitted, faults>>
        /\ phase' = [phase EXCEPT ![r] = "finished"]
    BY <1>6 DEF Finish
  <2>2. faults' \in Nat /\ faults <= faults'
    BY <2>1
  <2>3. QED
    BY <2>1, <2>2, FinishCommitKeeps
<1>7. CASE FinishReturns(r)
  BY <1>7, LeftKeeps DEF FinishReturns, Finishing
<1>8. CASE FinishFails(r)
  BY <1>8, FinishFailsKeeps
<1>9. CASE FinishPublish(r)
  BY <1>1, <1>9, LeftKeeps DEF FinishPublish
<1>10. QED
  BY <1>3, <1>4, <1>5, <1>6, <1>7, <1>8, <1>9 DEF RunTask

LEMMA OthersKeep ==
    ASSUME ServerInv, faults \in Nat, NEW r \in Runs, RunStep(r)
    PROVE  ServerKept
<1>1. CASE AdmitElsewhere(r)
  BY <1>1, AdmittedKeeps DEF AdmitElsewhere
<1>2. CASE CancelElsewhere(r)
  BY <1>2, CancelledKeeps DEF CancelElsewhere
<1>3. CASE SnapshotElsewhere(r)
  <2>1. /\ phase[r] # "none" /\ status' = [status EXCEPT ![r] = "interrupted"]
        /\ UNCHANGED <<log, phase, cancelling, emitted, faults>>
    BY <1>3 DEF SnapshotElsewhere
  <2>2. status' \in [Runs -> Statuses]
    BY <2>1 DEF ServerInv, ServerTyped, Statuses, Ended
  <2>3. \A q \in Runs : /\ status'[q] \in {status[q], "interrupted"}
                        /\ phase[q] = "none" => status'[q] = status[q]
    BY <2>1 DEF ServerInv, ServerTyped
  <2>4. QED
    BY <2>1, <2>2, <2>3, InterruptedKeeps DEF ServerInv, ServerTyped
<1>4. ASSUME NEW kind \in Progress, EmitCommit(r, kind) PROVE ServerKept
  BY <1>4, EmitCommitKeeps
<1>5. QED
  BY <1>1, <1>2, <1>3, <1>4 DEF RunStep

\* The history that is being read marks what it judged interrupted.
LEMMA WriteKeeps ==
    ASSUME TypeOK, ServerInv, MessagesSound, SnapshotWrite, faults \in Nat
    PROVE  ServerKept
<1>1. /\ status' = [r \in Runs |-> IF snap.runs[r] = "interrupted" THEN "interrupted"
                                   ELSE status[r]]
      /\ UNCHANGED <<log, phase, cancelling, emitted, faults>> /\ snap.msg = "judged"
  BY DEF SnapshotWrite
<1>2. ASSUME NEW r \in Runs, snap.runs[r] = "interrupted" PROVE phase[r] # "none"
  <2>1. snap \in InFlight
    BY <1>1 DEF InFlight
  <2>2. Tells(snap, r).status = "interrupted"
    BY <1>1, <1>2 DEF Tells
  <2>3. status[r] # "none"
    BY <2>1, <2>2 DEF MessagesSound
  <2>4. QED
    BY <2>3 DEF ServerInv, ServerSound, RunSound
<1>3. status' \in [Runs -> Statuses]
  BY <1>1 DEF ServerInv, ServerTyped, Statuses, Ended
<1>4. \A r \in Runs : /\ status'[r] \in {status[r], "interrupted"}
                      /\ phase[r] = "none" => status'[r] = status[r]
  BY <1>1, <1>2
<1>5. QED
  BY <1>1, <1>3, <1>4, InterruptedKeeps DEF ServerInv, ServerTyped

LEMMA RestartKeeps ==
    ASSUME ServerInv, Restart, faults \in Nat
    PROVE  ServerKept
<1>1. /\ faults' = faults + 1 /\ cancelling' = {} /\ emitted' = [r \in Runs |-> 0] /\ log' = log
      /\ phase' = [r \in Runs |-> IF phase[r] = "none" THEN "none" ELSE "over"]
      /\ status' = [r \in Runs |-> IF status[r] = "running" THEN "interrupted" ELSE status[r]]
  BY DEF Restart
<1>2. faults' \in Nat /\ faults' # 0 /\ faults <= faults'
  BY <1>1
<1>3. /\ status' \in [Runs -> Statuses] /\ phase' \in [Runs -> Phases]
      /\ emitted' \in [Runs -> 0..MaxEvents] /\ cancelling' \subseteq Runs
  BY <1>1, ChatAssumption DEF ServerInv, ServerTyped, Statuses, Ended, Phases
<1>4. ASSUME NEW r \in Runs
      PROVE  /\ status'[r] \in {status[r], "interrupted"}
             /\ phase[r] = "none" => status'[r] = status[r]
             /\ \/ phase'[r] = phase[r]
                \/ phase[r] # "none" /\ phase'[r] = "over" /\ faults' # 0
             /\ emitted'[r] \in {emitted[r], 0}
  BY <1>1, <1>2 DEF ServerInv, ServerSound, RunSound
<1>5. QED
  BY <1>1, <1>2, <1>3, <1>4, InterruptedKeeps

\* The steps of the page and of the wire that leave the server alone.
OffServer ==
    UNCHANGED serverVars /\ (UNCHANGED faults \/ faults' = faults + 1)

\* Every step keeps the server's part of the invariant, and the rows.
LEMMA ServerStep == TypeOK /\ ServerInv /\ MessagesSound /\ Next => ServerKept
<1> SUFFICES ASSUME TypeOK, ServerInv, MessagesSound, Next PROVE ServerKept
  OBVIOUS
<1>a. faults \in Nat
  BY ChatAssumption DEF TypeOK
<1>b. OffServer => ServerKept
  <2> SUFFICES ASSUME OffServer PROVE ServerKept
    OBVIOUS
  <2>1. faults' \in Nat /\ faults <= faults' /\ UNCHANGED serverVars
    BY <1>a DEF OffServer
  <2>2. QED
    BY <1>a, <2>1, SameServer
<1>1. ASSUME NEW r \in Runs, RunTask(r) \/ RunStep(r) PROVE ServerKept
  BY <1>a, <1>1, TaskKeeps, OthersKeep
<1>2. CASE SendTask \/ ReceiveResync \/ PageTask
  <2>1. CASE SnapshotWrite
    BY <1>a, <2>1, WriteKeeps
  <2>2. CASE ~SnapshotWrite
    <3>1. OffServer
      BY <1>2, <2>2 DEF OffServer, SendTask, PageTask, Authenticate, SnapshotRead, SnapshotJudge,
                        SnapshotSend, SendNext, ReceiveResync, OnMessage, Connect, AfterRefusal
    <3>2. QED
      BY <1>b, <3>1
  <2>3. QED
    BY <2>1, <2>2
<1>3. CASE SendMessage \/ StartRequest \/ CancelRun \/ CancelRequest
  <2>1. CASE StartArrives
    <3>1. (\E r \in Runs : Admitted(r) /\ UNCHANGED faults) \/ OffServer
      BY <2>1 DEF StartArrives, OffServer
    <3>2. QED
      BY <1>a, <1>b, <3>1, AdmittedKeeps
  <2>2. CASE CancelArrives
    <3>1. CASE Cancelled(stop.run)
      <4>1. stop.run \in Runs /\ UNCHANGED faults
        BY <2>2 DEF CancelArrives, TypeOK, NoStop
      <4>2. QED
        BY <1>a, <3>1, <4>1, CancelledKeeps
    <3>2. CASE ~Cancelled(stop.run)
      BY <1>b, <2>2, <3>2 DEF CancelArrives, OffServer
    <3>3. QED
      BY <3>1, <3>2
  <2>3. CASE ~StartArrives /\ ~CancelArrives
    <3>1. OffServer
      BY <1>3, <2>3 DEF OffServer, StartRequest, CancelRequest, SendMessage, StartAnswered,
                        StartFailed, CancelRun, CancelReturns, CancelAnswered, CancelFailed
    <3>2. QED
      BY <1>b, <3>1
  <2>4. QED
    BY <2>1, <2>2, <2>3
<1>4. CASE OnClose \/ OnRefused \/ Reopen
  <2>1. OffServer
    BY <1>4 DEF OffServer, OnClose, OnRefused, Reopen
  <2>2. QED
    BY <1>b, <2>1
<1>5. CASE Restart
  BY <1>a, <1>5, RestartKeeps
<1>6. QED
  BY <1>1, <1>2, <1>3, <1>4, <1>5 DEF Next

----------------------------------------------------------------------------
(* The wire: what is on its way.                                           *)

\* A message is added at the end, or taken from the front.
LEMMA AppendSays ==
    ASSUME NEW S, NEW s \in Seq(S), NEW e \in S
    PROVE  /\ Append(s, e) \in Seq(S) /\ Len(Append(s, e)) = Len(s) + 1
           /\ Range(Append(s, e)) = Range(s) \cup {e}
           /\ \A i \in 1..Len(s) : Append(s, e)[i] = s[i]
           /\ Append(s, e)[Len(s) + 1] = e
<1>1. /\ Append(s, e) \in Seq(S) /\ Len(Append(s, e)) = Len(s) + 1
      /\ \A i \in 1..Len(s) : Append(s, e)[i] = s[i]
      /\ Append(s, e)[Len(s) + 1] = e
  OBVIOUS
<1>2. DOMAIN s = 1..Len(s) /\ DOMAIN Append(s, e) = 1..(Len(s) + 1) /\ Len(s) \in Nat
  OBVIOUS
<1>3. Range(Append(s, e)) = Range(s) \cup {e}
  BY <1>1, <1>2 DEF Range
<1>4. QED
  BY <1>1, <1>3

LEMMA TailSays ==
    ASSUME NEW S, NEW s \in Seq(S), s # <<>>
    PROVE  /\ Tail(s) \in Seq(S) /\ Len(Tail(s)) = Len(s) - 1 /\ Len(s) \in Nat \ {0}
           /\ Head(s) \in S /\ Head(s) = s[1]
           /\ Range(s) = Range(Tail(s)) \cup {Head(s)}
           /\ \A i \in 1..Len(Tail(s)) : Tail(s)[i] = s[i + 1]
<1>1. /\ Tail(s) \in Seq(S) /\ Len(Tail(s)) = Len(s) - 1 /\ Len(s) \in Nat \ {0}
      /\ Head(s) \in S /\ Head(s) = s[1]
      /\ \A i \in 1..Len(Tail(s)) : Tail(s)[i] = s[i + 1]
  OBVIOUS
<1>2. DOMAIN s = 1..Len(s) /\ DOMAIN Tail(s) = 1..(Len(s) - 1)
  BY <1>1
<1>3. \A i \in 1..Len(s) : i = 1 \/ (i - 1 \in 1..(Len(s) - 1) /\ Tail(s)[i - 1] = s[i])
  BY <1>1
<1>4. Range(s) = Range(Tail(s)) \cup {Head(s)}
  <2>1. Range(s) = {s[i] : i \in 1..Len(s)} /\ Range(Tail(s)) = {Tail(s)[i] : i \in 1..(Len(s) - 1)}
    BY <1>2 DEF Range
  <2>2. ASSUME NEW m \in Range(s) PROVE m \in Range(Tail(s)) \cup {Head(s)}
    <3>1. PICK i \in 1..Len(s) : m = s[i]
      BY <2>1
    <3>2. QED
      BY <1>1, <1>3, <2>1, <3>1
  <2>3. ASSUME NEW m \in Range(Tail(s)) PROVE m \in Range(s)
    <3>1. PICK i \in 1..(Len(s) - 1) : m = Tail(s)[i]
      BY <2>1
    <3>2. i + 1 \in 1..Len(s) /\ m = s[i + 1]
      BY <1>1, <3>1
    <3>3. QED
      BY <2>1, <3>2
  <2>4. Head(s) \in Range(s)
    BY <1>1, <2>1
  <2>5. QED
    BY <2>2, <2>3, <2>4
<1>5. QED
  BY <1>1, <1>4

LEMMA RangeSays ==
    ASSUME NEW S, NEW s \in Seq(S)
    PROVE  Range(s) \subseteq S /\ Range(s) = {s[i] : i \in 1..Len(s)} /\ (Range(s) = {} <=> s = <<>>)
<1>1. Range(s) \subseteq S /\ Range(s) = {s[i] : i \in 1..Len(s)}
  BY RangeOfSeq, RangeEquality
<1>2. s # <<>> => s[1] \in Range(s)
  <2>1. s # <<>> => 1 \in 1..Len(s)
    OBVIOUS
  <2>2. QED
    BY <1>1, <2>1
<1>3. s = <<>> => 1..Len(s) = {}
  OBVIOUS
<1>4. QED
  BY <1>1, <1>2, <1>3

Messages == Events \cup Histories
Sights == Readings \cup Histories
WireTyped ==
    /\ queue \in Seq(Events \cup {Resync}) /\ Len(queue) <= QueueSize
    /\ snap \in {Idle, Due} \cup Sights
    /\ down \in Seq(Messages)

\* A message is an event or a history, never both, and no request for one.
LEMMA MessagesApart ==
    /\ \A m \in Events : m.msg = "event" /\ m.run \in Runs /\ m.index \in 1..(MaxEvents + 1) /\ m # Resync
    /\ \A h \in Histories : h.msg = "history" /\ h.runs \in Seen
    /\ \A h \in Readings : h.msg \in {"read", "judged"} /\ h.runs \in [Runs -> Statuses]
    /\ Resync.msg = "resync" /\ Idle.msg = "none" /\ Due.msg = "due"
    /\ Idle # Due
BY DEF Events, Histories, Readings, Resync, Idle, Due

LEMMA WireSays ==
    ASSUME WireTyped
    PROVE  /\ Waiting \subseteq Events \cup {Resync} /\ Sent \subseteq Messages
           /\ InFlight \subseteq Sights /\ Coming \subseteq Events
           /\ Coming = (Sent \cap Events) \cup (Waiting \cap Events)
           /\ InFlight = (Sent \cup {snap}) \cap Sights
           /\ Len(queue) \in Nat /\ Len(down) \in Nat
<1>1. Waiting \subseteq Events \cup {Resync} /\ Sent \subseteq Messages
  BY RangeSays DEF WireTyped, Waiting, Sent
<1>2. QED
  BY <1>1, MessagesApart DEF WireTyped, InFlight, Coming, Messages, Sights

\* What a history or a reading tells has the shape of a sight of the run.
LEMMA TellsTyped ==
    ASSUME ServerInv, NEW h \in Sights, NEW r \in Runs
    PROVE  /\ Tells(h, r) \in [status : Statuses, rows : 0..(MaxEvents + 1)]
           /\ Tells(h, r).rows \in Nat /\ Tells(h, r).status \in Statuses
<1>1. Len(log[r]) \in 0..(MaxEvents + 1) /\ MaxEvents \in Nat
  BY ChatAssumption DEF ServerInv, ServerTyped, ServerSound, RunSound
<1>2. CASE h \in Histories
  BY <1>1, <1>2, MessagesApart DEF Tells, Seen
<1>3. CASE h \in Readings
  BY <1>1, <1>3, MessagesApart DEF Tells
<1>4. QED
  BY <1>2, <1>3 DEF Sights

\* publish() to the observer's queue.
LEMMA PublishedSays ==
    ASSUME WireTyped, NEW e \in Events \cup {Resync}, Published(e)
    PROVE  /\ queue' \in Seq(Events \cup {Resync}) /\ Len(queue') <= QueueSize
           /\ Range(queue') \subseteq Range(queue) \cup {e, Resync}
           /\ sock = "live" => Resync \in Range(queue') \/ Range(queue') = Range(queue) \cup {e}
           /\ sock = "live" /\ e = Resync => Resync \in Range(queue')
           /\ sock = "live" /\ Resync \in Range(queue) => Resync \in Range(queue')
           /\ sock # "live" => queue' = queue
<1> USE ChatAssumption
<1>1. QueueSize \in Nat /\ QueueSize >= 1
  OBVIOUS
<1>2. /\ <<Resync>> \in Seq(Events \cup {Resync}) /\ Len(<<Resync>>) = 1
      /\ Range(<<Resync>>) = {Resync}
  BY DEF Range
<1>3. CASE sock # "live"
  BY <1>3 DEF Published, Observed, WireTyped
<1>4. CASE sock = "live" /\ Len(queue) = QueueSize
  BY <1>1, <1>2, <1>4 DEF Published, Observed
<1>5. CASE sock = "live" /\ Len(queue) # QueueSize
  <2>1. queue' = Append(queue, e)
    BY <1>5 DEF Published, Observed
  <2>2. /\ queue' \in Seq(Events \cup {Resync}) /\ Len(queue') = Len(queue) + 1
        /\ Range(queue') = Range(queue) \cup {e}
    BY <2>1, AppendSays DEF WireTyped
  <2>3. Len(queue) \in Nat
    BY DEF WireTyped
  <2>4. QED
    BY <1>1, <1>5, <2>2, <2>3 DEF WireTyped
<1>6. QED
  BY <1>3, <1>4, <1>5

\* A socket that is gone leaves nothing on its way.
LEMMA WireDownSays ==
    ASSUME NEW x, WireDown(x)
    PROVE  /\ WireTyped' /\ Len(down') = 0 /\ queue' = <<>> /\ down' = <<>> /\ snap' = Idle /\ up' = 0
           /\ sock' = x
BY ChatAssumption DEF WireDown, WireTyped

\* The steps that leave the wire alone.
LEMMA OffTheWire ==
    ASSUME Next
    PROVE  \/ UNCHANGED <<queue, snap, down>>
           \/ \E r \in Runs : EmitPublish(r) \/ FinishPublish(r)
           \/ SendTask \/ ReceiveResync \/ OnMessage
           \/ OnClose \/ OnRefused \/ Reopen \/ Restart \/ Authenticate
<1> USE DEF wireVars
<1>1. ASSUME NEW r \in Runs, RunTask(r) \/ RunStep(r)
      PROVE  EmitPublish(r) \/ FinishPublish(r) \/ UNCHANGED <<queue, snap, down>>
  BY <1>1 DEF RunTask, RunStep, Register, AdmitFails, AdmitElsewhere, EmitCommit, Complete, GiveUp,
              CancelElsewhere, SnapshotElsewhere, Finish, FinishReturns, FinishFails
<1>2. CASE PageTask
  BY <1>2 DEF PageTask, Connect, AfterRefusal
<1>3. CASE SendMessage \/ StartRequest \/ CancelRun \/ CancelRequest
  BY <1>3 DEF SendMessage, StartRequest, StartArrives, StartAnswered, StartFailed, CancelRun,
              CancelRequest, CancelArrives, CancelReturns, CancelAnswered, CancelFailed
<1>4. QED
  BY <1>1, <1>2, <1>3 DEF Next

\* An event that is published is one of the log.
LEMMA EventPublished ==
    ASSUME ServerInv, NEW r \in Runs, phase[r] = "finished" \/ emitted[r] < Len(log[r])
    PROVE  /\ Event(r, Len(log[r])) \in Events
           /\ Event(r, Len(log[r])).run = r /\ Event(r, Len(log[r])).index = Len(log[r])
<1>1. Len(log[r]) \in 1..(MaxEvents + 1)
  <2>1. Len(log[r]) \in Nat /\ Len(log[r]) <= MaxEvents + 1 /\ MaxEvents \in Nat
    BY ChatAssumption DEF ServerInv, ServerTyped, ServerSound, RunSound
  <2>2. CASE phase[r] = "finished"
    BY <2>1, <2>2, EndSound DEF ServerInv, ServerSound, RunSound
  <2>3. CASE emitted[r] < Len(log[r])
    BY <2>1, <2>3, ChatAssumption DEF ServerInv, ServerTyped
  <2>4. QED
    BY <2>2, <2>3
<1>2. QED
  BY <1>1 DEF Event, Events

\* A snapshot reads, judges and writes what it tells of each run.
LEMMA ReadTyped ==
    ASSUME ServerInv, SnapshotRead
    PROVE  /\ snap' \in Readings /\ snap'.msg = "read" /\ UNCHANGED <<sock, queue, down, up, serverVars>>
           /\ \A r \in Runs : snap'.runs[r] = IF Listed(r) THEN status[r] ELSE "none"
BY DEF SnapshotRead, Readings, ServerInv, ServerTyped, Statuses

LEMMA JudgeTyped ==
    ASSUME WireTyped, SnapshotJudge
    PROVE  /\ snap \in Readings /\ snap' \in Readings /\ snap.msg = "read" /\ snap'.msg = "judged"
           /\ UNCHANGED <<sock, queue, down, up, serverVars>>
           /\ \A r \in Runs : snap'.runs[r] = IF snap.runs[r] = "running" /\ ~Active(r)
                                              THEN "interrupted" ELSE snap.runs[r]
<1>1. snap \in Readings
  BY MessagesApart DEF SnapshotJudge, WireTyped, Sights
<1>2. QED
  BY <1>1 DEF SnapshotJudge, Readings, Statuses, Ended

LEMMA WriteTyped ==
    ASSUME WireTyped, ServerInv, SnapshotWrite
    PROVE  /\ snap \in Readings /\ snap' \in Histories /\ snap.msg = "judged" /\ snap'.msg = "history"
           /\ UNCHANGED <<sock, queue, down, up, log, phase>>
           /\ \A r \in Runs : /\ snap'.runs[r] = Tells(snap, r)
                              /\ snap.runs[r] = "interrupted" => status'[r] = "interrupted"
<1>1. snap \in Readings /\ snap.msg = "judged"
  BY MessagesApart DEF SnapshotWrite, WireTyped, Sights
<1>2. snap' = [msg |-> "history",
               runs |-> [r \in Runs |->
                   [status |-> snap.runs[r],
                    rows |-> IF snap.runs[r] = "none" THEN 0 ELSE Len(log[r])]]]
  BY DEF SnapshotWrite
<1>3. \A r \in Runs : Tells(snap, r) = [status |-> snap.runs[r],
                                        rows |-> IF snap.runs[r] = "none" THEN 0 ELSE Len(log[r])]
  BY <1>1 DEF Tells
<1>4. \A r \in Runs : snap'.runs[r] = Tells(snap, r)
  BY <1>2, <1>3
<1>5. \A r \in Runs : Tells(snap, r) \in [status : Statuses, rows : 0..(MaxEvents + 1)]
  BY <1>1, TellsTyped DEF Sights
<1>6. snap'.runs \in Seen
  BY <1>2, <1>3, <1>5 DEF Seen
<1>7. snap' \in Histories /\ snap'.msg = "history"
  BY <1>2, <1>6 DEF Histories
<1>8. QED
  BY <1>1, <1>4, <1>7 DEF SnapshotWrite

\* Every step puts messages on the wire, and no more than fit.
LEMMA WireTypedStep ==
    ASSUME TypeOK, ServerInv, Next
    PROVE  WireTyped' /\ Len(down') <= MaxFlight
<1> USE ChatAssumption
<1>a. WireTyped /\ Len(down) <= MaxFlight /\ MaxFlight \in Nat /\ QueueSize \in Nat
  BY DEF TypeOK, WireTyped, Messages, Sights
<1>1. CASE UNCHANGED <<queue, snap, down>>
  BY <1>a, <1>1 DEF WireTyped
<1>2. ASSUME NEW r \in Runs, EmitPublish(r) \/ FinishPublish(r) PROVE WireTyped' /\ Len(down') <= MaxFlight
  <2>1. PICK e \in Events \cup {Resync} : Published(e)
    BY <1>2, EventPublished DEF EmitPublish, FinishPublish
  <2>2. UNCHANGED <<snap, down>>
    BY <1>2 DEF EmitPublish, FinishPublish
  <2>3. QED
    BY <1>a, <2>1, <2>2, PublishedSays DEF WireTyped
<1>3. CASE SnapshotRead \/ SnapshotJudge \/ SnapshotWrite
  <2>1. UNCHANGED <<queue, down>> /\ snap' \in Sights
    BY <1>a, <1>3, ReadTyped, JudgeTyped, WriteTyped DEF Sights
  <2>2. QED
    BY <1>a, <2>1 DEF WireTyped
<1>4. CASE SnapshotSend
  <2>1. snap \in Messages /\ Len(down) < MaxFlight /\ down' = Append(down, snap) /\ snap' = Idle
        /\ queue' = queue
    BY <1>a, <1>4, MessagesApart DEF SnapshotSend, WireTyped, Messages, Sights
  <2>2. QED
    BY <1>a, <2>1, AppendSays DEF WireTyped
<1>5. CASE SendNext
  <2>1. /\ queue # <<>> /\ queue' = Tail(queue) /\ snap' \in {Idle, Due}
        /\ UNCHANGED down \/ (down' = Append(down, Head(queue)) /\ Head(queue) # Resync /\ Len(down) < MaxFlight)
    BY <1>5 DEF SendNext
  <2>2. /\ queue' \in Seq(Events \cup {Resync}) /\ Len(queue') = Len(queue) - 1 /\ Len(queue) \in Nat
        /\ Head(queue) \in Events \cup {Resync}
    BY <1>a, <2>1, TailSays DEF WireTyped
  <2>3. down' \in Seq(Messages) /\ Len(down') <= MaxFlight
    <3>1. CASE UNCHANGED down
      BY <1>a, <3>1 DEF WireTyped
    <3>2. CASE ~UNCHANGED down
      <4>1. Head(queue) \in Messages /\ down' = Append(down, Head(queue)) /\ Len(down) < MaxFlight
        BY <2>1, <2>2, <3>2 DEF Messages
      <4>2. QED
        BY <1>a, <4>1, AppendSays DEF WireTyped
    <3>3. QED
      BY <3>1, <3>2
  <2>4. QED
    BY <1>a, <2>1, <2>2, <2>3 DEF WireTyped
<1>6. CASE ReceiveResync
  <2>1. queue' = Append(queue, Resync) /\ Len(queue) < QueueSize /\ UNCHANGED <<snap, down>>
    BY <1>6 DEF ReceiveResync
  <2>2. QED
    BY <1>a, <2>1, AppendSays DEF WireTyped
<1>7. CASE OnMessage
  <2>1. down # <<>> /\ down' = Tail(down) /\ UNCHANGED <<snap, queue>>
    BY <1>7 DEF OnMessage
  <2>2. QED
    BY <1>a, <2>1, TailSays DEF WireTyped
<1>8. CASE OnClose \/ OnRefused \/ Reopen \/ Restart
  <2>1. \E x : WireDown(x)
    BY <1>8 DEF OnClose, OnRefused, Reopen, Restart
  <2>2. QED
    BY <1>a, <2>1, WireDownSays
<1>9. CASE Authenticate
  BY <1>a, <1>9 DEF Authenticate, WireTyped
<1>10. QED
  BY <1>1, <1>2, <1>3, <1>4, <1>5, <1>6, <1>7, <1>8, <1>9, OffTheWire DEF SendTask


----------------------------------------------------------------------------
(* The page.                                                               *)

\* The view has the shape the page gives it, and so have its requests.
ViewTyped == cards \in [Runs -> Cards] /\ terminal \subseteq Runs
             /\ runId \in Runs \cup {None} /\ isBuilding \in BOOLEAN

\* A message in flight tells of a run what can be folded.
LEMMA HistoryTruthful ==
    ASSUME TypeOK, ServerInv, MessagesSound, NEW h \in InFlight, NEW r \in Runs
    PROVE  Truthful(r, Tells(h, r))
<1>1. WireTyped
  BY DEF TypeOK, WireTyped, Messages, Sights
<1>2. h \in Sights
  BY <1>1, WireSays
<1>3. Tells(h, r) \in [status : Statuses, rows : 0..(MaxEvents + 1)]
  BY <1>2, TellsTyped
<1>4. Tells(h, r).rows <= Len(log[r])
  BY DEF MessagesSound
<1>5. log[r] \in Seq(Kinds) /\ RunSound(r)
  BY DEF ServerInv, ServerTyped, ServerSound
<1>6. QED
  BY <1>3, <1>4, <1>5 DEF Truthful, RunSound

\* What a history does to the view.
LEMMA TakeHistorySays ==
    ASSUME TypeOK, ServerInv, MessagesSound, NEW h \in InFlight, h.msg = "history",
           TakeHistory(h.runs)
    PROVE  /\ ViewTyped'
           /\ terminal' = terminal \cup {r \in Runs : Ends(h, r)}
           /\ runId' # None => runId' \in Runs /\ Tells(h, runId').status = "running"
           /\ isBuilding' => runId' # None
           /\ \A r \in Runs :
                /\ HasRow(h, r, Outcomes) => cards'[r].status \in Ended
                                             /\ cards'[r].status = log[r][Len(log[r])]
                /\ ~HasRow(h, r, Outcomes) /\ Ends(h, r) => cards'[r].status = Tells(h, r).status
                /\ cards'[r].status \in Ended => Ends(h, r) \/ HasRow(h, r, Outcomes)
                /\ Tells(h, r).status = "none" => cards'[r] = NoCard
                /\ cards'[r].tool = "success" <=> HasRow(h, r, {"tool_completed"})
<1> DEFINE running == {r \in Runs : h.runs[r].status = "running"}
<1>1. \A r \in Runs : Tells(h, r) = h.runs[r]
  BY DEF Tells
<1>2. ASSUME NEW r \in Runs
      PROVE  LET card == RestoreRun(r, h.runs[r])
             IN  /\ card \in Cards
                 /\ HasRow(h, r, Outcomes) => card.status \in Ended /\ card.status = log[r][Len(log[r])]
                 /\ ~HasRow(h, r, Outcomes) /\ Ends(h, r) => card.status = Tells(h, r).status
                 /\ card.status \in Ended => Ends(h, r) \/ HasRow(h, r, Outcomes)
                 /\ Tells(h, r).status = "none" => card = NoCard
                 /\ card.tool = "success" <=> HasRow(h, r, {"tool_completed"})
  <2> DEFINE seen == Tells(h, r)
  <2>1. Truthful(r, seen)
    BY HistoryTruthful
  <2>2. Ends(h, r) <=> seen.status \in Ended
    BY DEF Ends
  <2>3. seen.status = "none" => seen.status \notin Ended /\ seen.rows = 0
    BY DEF MessagesSound, Ended, Outcomes
  <2>4. \A kinds : HasRow(h, r, kinds) <=> Has(r, seen.rows, kinds)
    BY DEF HasRow, Has
  <2>5. RestoreRun(r, h.runs[r]) = RestoreRun(r, seen)
    BY <1>1
  <2> HIDE DEF seen
  <2>6. LET card == RestoreRun(r, seen)
        IN  /\ card \in Cards
            /\ Has(r, seen.rows, Outcomes) => card.status \in Ended /\ card.status = log[r][Len(log[r])]
            /\ ~Has(r, seen.rows, Outcomes) /\ seen.status \in Ended => card.status = seen.status
            /\ card.status \in Ended => seen.status \in Ended \/ Has(r, seen.rows, Outcomes)
            /\ seen.status \notin Ended /\ seen.rows = 0 => card = NoCard
            /\ card.tool = "success" <=> Has(r, seen.rows, {"tool_completed"})
    BY <2>1, RestoreSays
  <2>7. QED
    BY <2>2, <2>3, <2>4, <2>5, <2>6 DEF seen
<1>3. cards' = [r \in Runs |-> RestoreRun(r, h.runs[r])]
  BY DEF TakeHistory
<1>4. /\ terminal' = terminal \cup {r \in Runs : h.runs[r].status \in Ended}
      /\ isBuilding' = (running # {})
      /\ runId' = IF running = {} THEN None ELSE CHOOSE r \in running : TRUE
  BY DEF TakeHistory
<1>5. \A r \in Runs : Ends(h, r) <=> h.runs[r].status \in Ended
  BY <1>1 DEF Ends
<1>6. \A r \in Runs : r # None
  BY DEF Runs, None
<1>7. /\ runId' # None => runId' \in Runs /\ Tells(h, runId').status = "running"
      /\ isBuilding' => runId' # None
      /\ runId' \in Runs \cup {None} /\ isBuilding' \in BOOLEAN
  BY <1>1, <1>4, <1>6
<1>8. terminal' = terminal \cup {r \in Runs : Ends(h, r)}
  BY <1>4, <1>5
<1>9. ViewTyped'
  BY <1>2, <1>3, <1>4, <1>7 DEF ViewTyped, TypeOK
<1>10. \A r \in Runs : cards'[r] = RestoreRun(r, h.runs[r])
  BY <1>3
<1>11. QED
  BY <1>2, <1>7, <1>8, <1>9, <1>10

\* What an event does to the view.
LEMMA TakeEventSays ==
    ASSUME TypeOK, ServerInv, NEW r \in Runs, NEW i \in 1..Len(log[r]), TakeEvent(r, i)
    PROVE  /\ ViewTyped'
           /\ r \in terminal => UNCHANGED viewVars
           /\ \A q \in Runs : q # r => cards'[q] = cards[q] /\ (q \in terminal' <=> q \in terminal)
           /\ r \notin terminal =>
                /\ r \in terminal' <=> log[r][i] \in Outcomes
                /\ log[r][i] \in Outcomes =>
                     cards'[r].status = log[r][i] /\ runId' = None /\ ~isBuilding'
                /\ log[r][i] \notin Outcomes =>
                     /\ cards'[r].status = cards[r].status \/ cards'[r].status = "running"
                     /\ runId' = r \/ (runId' = runId /\ isBuilding' = isBuilding)
                     /\ cards[r].status \in Ended => cards'[r].status = cards[r].status
                /\ cards'[r].tool = "success" <=>
                     cards[r].tool = "success" \/ log[r][i] = "tool_completed"
<1> DEFINE kind == log[r][i]
           new == ApplyRunEvent(cards[r], kind)
<1>1. kind \in Kinds /\ cards[r] \in Cards
  BY DEF ServerInv, ServerTyped, TypeOK
<1>2. /\ new \in Cards
      /\ new.tool = "success" <=> cards[r].tool = "success" \/ kind = "tool_completed"
      /\ kind \in Outcomes => new.status = kind
      /\ kind \notin Outcomes =>
           new.status = cards[r].status \/ (cards[r].status = "none" /\ new.status = "running")
  BY <1>1, ApplySays
<1>3. CASE r \in terminal
  BY <1>3 DEF TakeEvent, Ignored, viewVars, ViewTyped, TypeOK
<1>4. CASE r \notin terminal
  <2>1. /\ cards' = [cards EXCEPT ![r] = new]
        /\ terminal' = IF kind \in Outcomes THEN terminal \cup {r} ELSE terminal
        /\ runId' = CASE kind \in {"run_started", "tool_started"} -> r
                      [] kind \in Outcomes -> None
                      [] OTHER -> runId
        /\ isBuilding' = CASE kind \in {"run_started", "tool_started"} -> TRUE
                           [] kind \in Outcomes -> FALSE
                           [] OTHER -> isBuilding
    BY <1>4 DEF TakeEvent, Ignored
  <2> HIDE DEF new, kind
  <2>2. /\ kind \in Outcomes => runId' = None /\ ~isBuilding'
        /\ kind \notin Outcomes => runId' = r \/ (runId' = runId /\ isBuilding' = isBuilding)
        /\ runId' \in Runs \cup {None} /\ isBuilding' \in BOOLEAN
    BY <1>1, <2>1 DEF Kinds, Progress, Outcomes, TypeOK
  <2>3. /\ cards' \in [Runs -> Cards] /\ cards'[r] = new /\ \A q \in Runs : q # r => cards'[q] = cards[q]
        /\ terminal' \subseteq Runs /\ (r \in terminal' <=> kind \in Outcomes)
        /\ \A q \in Runs : q # r => (q \in terminal' <=> q \in terminal)
    BY <1>2, <1>4, <2>1 DEF TypeOK
  <2>4. "none" \notin Ended
    BY DEF Ended, Outcomes
  <2>5. QED
    BY <1>2, <1>4, <2>2, <2>3, <2>4 DEF kind, ViewTyped
<1>5. QED
  BY <1>3, <1>4

\* The message at the head is a history or an event that is known.
LEMMA OnMessageTakes ==
    ASSUME TypeOK, MessagesSound, OnMessage
    PROVE  LET m == Head(down)
           IN  /\ m \in Sent
               /\ \/ m \in InFlight /\ m.msg = "history" /\ TakeHistory(m.runs)
                  \/ /\ m \in Coming /\ m.msg = "event" /\ TakeEvent(m.run, m.index)
                     /\ m.run \in Runs /\ m.index \in 1..Len(log[m.run])
<1> DEFINE m == Head(down)
<1>1. WireTyped /\ down # <<>>
  BY DEF TypeOK, WireTyped, Messages, Sights, OnMessage
<1>2. m \in Messages /\ m \in Sent
  BY <1>1, TailSays DEF WireTyped, Sent
<1> HIDE DEF m
<1>3. CASE m \in Histories
  <2>1. m.msg = "history"
    BY <1>3, MessagesApart
  <2>2. m \in InFlight
    BY <1>2, <2>1 DEF InFlight
  <2>3. TakeHistory(m.runs)
    BY <2>1 DEF OnMessage, m
  <2>4. QED
    BY <1>2, <2>1, <2>2, <2>3 DEF m
<1>4. CASE m \in Events
  <2>1. m.msg = "event" /\ m.run \in Runs /\ m.index \in 1..(MaxEvents + 1)
    BY <1>4, MessagesApart
  <2>2. m \in Coming
    BY <1>2, <2>1 DEF Coming
  <2>3. TakeEvent(m.run, m.index)
    BY <2>1 DEF OnMessage, m
  <2>4. m.index <= Len(log[m.run]) /\ Len(log[m.run]) \in Nat
    BY <2>1, <2>2 DEF MessagesSound, TypeOK
  <2>5. m.index \in 1..Len(log[m.run])
    BY <2>1, <2>4
  <2>6. QED
    BY <1>2, <2>1, <2>2, <2>3, <2>5 DEF m
<1>5. QED
  BY <1>2, <1>3, <1>4 DEF Messages

Posts == [run : Runs \cup {None}, at : {"no", "sent", "admitting", "refused", "admitted"}]
Stops == {NoStop} \cup [run : Runs, at : {"sent", "waiting", "done"}]
UserTyped ==
    /\ post \in Posts /\ stop \in Stops
    /\ posts \in 0..MaxPosts /\ faults \in 0..MaxFaults /\ up \in Nat

\* A sum is bounded with its parts, and stays so when a unit moves between them.
LEMMA PartBounded ==
    ASSUME NEW u \in Nat, NEW a \in Nat, NEW b \in Nat, NEW p \in Nat, u + a + b <= p
    PROVE  /\ u <= p
           /\ a = 1 => u + 0 + b <= p /\ u + 1 + 0 + b <= p
OBVIOUS

\* A request keeps its place in the count, or is over, or moves to the socket.
LEMMA StopsApart ==
    /\ NoPost \in Posts /\ NoStop \in Stops
    /\ \A s \in Stops : s # NoStop => s.run \in Runs /\ s.at \in {"sent", "waiting", "done"}
    /\ \A r \in Runs, a \in {"sent", "waiting", "done"} : [run |-> r, at |-> a] \in Stops \ {NoStop}
    /\ \A s \in Stops : s.at # "no" => s \in [run : Runs, at : {"sent", "waiting", "done"}]
BY DEF NoPost, NoStop, Posts, Stops

\* The task of a run answers a POST, at most.
LEMMA RunAnswers ==
    ASSUME TypeOK, NEW r \in Runs, RunTask(r) \/ RunStep(r)
    PROVE  /\ UNCHANGED <<sock, up, stop, posts>> /\ faults' \in 0..MaxFaults
           /\ post' \in Posts /\ (post' = NoPost <=> post = NoPost)
<1>1. post \in Posts /\ faults \in 0..MaxFaults /\ faults \in Nat /\ MaxFaults \in Nat
  BY ChatAssumption DEF TypeOK, Posts
<1>2. CASE Register(r) \/ AdmitFails(r)
  <2>1. PICK at \in {"admitted", "refused"} : Answers(r, at)
    BY <1>2 DEF Register, AdmitFails
  <2>2. UNCHANGED <<sock, up, stop, posts>> /\ faults' \in 0..MaxFaults
    BY <1>1, <1>2 DEF Register, AdmitFails, wireVars
  <2>3. r # None
    BY DEF Runs, None
  <2>4. post' \in Posts /\ (post' = NoPost <=> post = NoPost)
    BY <1>1, <2>1, <2>3 DEF Answers, Posts, NoPost
  <2>5. QED
    BY <2>2, <2>4
<1>3. CASE ~(Register(r) \/ AdmitFails(r))
  BY <1>1, <1>3 DEF RunTask, RunStep, AdmitElsewhere, EmitCommit, EmitPublish, Complete, GiveUp,
              CancelElsewhere, SnapshotElsewhere, Finish, FinishReturns, FinishFails, FinishPublish,
              userVars, wireVars
<1>4. QED
  BY <1>2, <1>3

\* Every step keeps the requests of the page as they are counted.
LEMMA UserTypedStep ==
    ASSUME TypeOK, AsksCounted, Next
    PROVE  (UserTyped /\ AsksCounted)'
<1> USE ChatAssumption
<1>a. UserTyped /\ runId \in Runs \cup {None} /\ MaxPosts \in Nat /\ MaxFaults \in Nat
  BY DEF TypeOK, UserTyped, Posts, Stops
<1>b. NoPost \in Posts /\ NoStop \in Stops
  BY StopsApart
<1> USE <1>a DEF UserTyped, AsksCounted
<1>1. CASE /\ UNCHANGED <<up, stop, posts>> /\ faults' \in 0..MaxFaults
           /\ post' \in Posts /\ (post' = NoPost <=> post = NoPost)
  BY <1>1
<1>2. ASSUME NEW r \in Runs, RunTask(r) \/ RunStep(r) PROVE (UserTyped /\ AsksCounted)'
  BY <1>1, <1>2, RunAnswers
<1>3. CASE SendTask \/ ReceiveResync \/ PageTask
  <2>1. CASE ReceiveResync
    BY <2>1 DEF ReceiveResync, userVars
  <2>2. CASE ~ReceiveResync
    BY <1>1, <1>3, <2>2 DEF SendTask, PageTask, Authenticate, SnapshotRead, SnapshotJudge, SnapshotWrite,
                            SnapshotSend, SendNext, OnMessage, Connect, AfterRefusal, userVars
  <2>3. QED
    BY <2>1, <2>2
<1>4. CASE SendMessage \/ StartRequest \/ CancelRun \/ CancelRequest
  <2>1. CASE SendMessage
    <3>1. /\ post = NoPost /\ posts < MaxPosts /\ posts' = posts + 1 /\ UNCHANGED <<up, stop, faults>>
          /\ post' = [NoPost EXCEPT !.at = "sent"]
      BY <2>1 DEF SendMessage, wireVars
    <3>2. post' \in Posts
      BY <3>1, <1>b DEF Posts
    <3>3. QED
      BY <3>1, <3>2
  <2>2. CASE StartArrives
    <3>1. /\ post # NoPost /\ UNCHANGED <<up, stop, posts, faults>>
          /\ post' \in Posts /\ post' # NoPost
      BY <2>2, <1>b DEF StartArrives, wireVars, NoPost, Posts
    <3>2. QED
      BY <3>1
  <2>3. CASE StartAnswered
    <3>1. post # NoPost /\ post' = NoPost /\ up' \in {up, up + 1} /\ UNCHANGED <<stop, posts, faults>>
      BY <2>3 DEF StartAnswered, AskResync, NoPost
    <3>2. UserTyped'
      BY <3>1, <1>b
    <3>3. AsksCounted'
      <4> DEFINE stopping == IF stop = NoStop THEN 0 ELSE 1
      <4>1. stopping \in Nat /\ stopping' = stopping
        BY <3>1
      <4>2. up + 1 + stopping <= posts
        BY <3>1
      <4> HIDE DEF stopping
      <4>3. up' + 0 + stopping <= posts
        <5>1. up \in Nat /\ posts \in Nat
          OBVIOUS
        <5>2. up + 0 + stopping <= posts /\ up + 1 + 0 + stopping <= posts
          BY ONLY <4>1, <4>2, <5>1, PartBounded
        <5>3. (up + 1) + 0 + stopping <= posts
          BY ONLY <5>2
        <5>4. up' = up \/ up' = up + 1
          BY <3>1
        <5>5. QED
          BY ONLY <5>2, <5>3, <5>4
      <4>4. QED
        BY <3>1, <4>1, <4>3 DEF stopping
    <3>4. QED
      BY <3>2, <3>3
  <2>4. CASE StartFailed
    BY <2>4, <1>b DEF StartFailed, wireVars
  <2>5. CASE CancelRun
    <3>1. /\ stop = NoStop /\ posts < MaxPosts /\ posts' = posts + 1 /\ UNCHANGED <<up, post, faults>>
          /\ stop' = [run |-> runId, at |-> "sent"] /\ runId \in Runs
      BY <2>5 DEF CancelRun, wireVars
    <3>2. stop' \in Stops /\ stop' # NoStop
      BY <3>1, StopsApart
    <3>3. QED
      BY <3>1, <3>2
  <2>6. CASE CancelArrives \/ CancelReturns
    <3>1. /\ stop \in [run : Runs, at : {"sent", "waiting", "done"}] /\ UNCHANGED <<up, post, posts, faults>>
          /\ stop' \in {[stop EXCEPT !.at = a] : a \in {"waiting", "done"}}
      BY <2>6, StopsApart DEF CancelArrives, CancelReturns, wireVars
    <3>2. stop # NoStop /\ stop' # NoStop /\ stop' \in Stops
      BY <3>1 DEF NoStop, Stops
    <3>3. QED
      BY <3>1, <3>2
  <2>7. CASE CancelAnswered
    <3>1. stop # NoStop /\ stop' = NoStop /\ up' \in {up, up + 1} /\ UNCHANGED <<post, posts, faults>>
      BY <2>7 DEF CancelAnswered, AskResync, NoStop
    <3>2. QED
      BY <3>1, <1>b
  <2>8. CASE CancelFailed
    BY <2>8, <1>b DEF CancelFailed, wireVars
  <2>9. QED
    BY <1>4, <2>1, <2>2, <2>3, <2>4, <2>5, <2>6, <2>7, <2>8 DEF StartRequest, CancelRequest
<1>5. CASE OnClose \/ OnRefused
  BY <1>5 DEF OnClose, OnRefused, WireDown
<1>6. CASE Reopen
  BY <1>6, <1>b DEF Reopen, WireDown
<1>7. CASE Restart
  <2>1. /\ faults < MaxFaults /\ faults' = faults + 1 /\ up' = 0 /\ UNCHANGED <<stop, posts>>
        /\ post' = IF post.at = "admitting" THEN [post EXCEPT !.at = "refused"] ELSE post
    BY <1>7 DEF Restart, WireDown
  <2>2. post' \in Posts /\ (post = NoPost => post' = NoPost)
    BY <2>1 DEF Posts, NoPost
  <2>3. QED
    BY <2>1, <2>2
<1>8. QED
  BY <1>2, <1>3, <1>4, <1>5, <1>6, <1>7 DEF Next

\* The steps that change what the page shows.
LEMMA OffThePage ==
    ASSUME Next
    PROVE  \/ UNCHANGED viewVars
           \/ UNCHANGED <<cards, terminal>>
              /\ (AfterRefusal \/ SendMessage \/ StartAnswered \/ StartFailed \/ CancelAnswered)
           \/ OnMessage \/ Reopen
<1>1. ASSUME NEW r \in Runs, RunTask(r) \/ RunStep(r) PROVE UNCHANGED viewVars
  BY <1>1 DEF RunTask, RunStep, Register, AdmitFails, AdmitElsewhere, EmitCommit, EmitPublish, Complete, GiveUp,
              CancelElsewhere, SnapshotElsewhere, Finish, FinishReturns, FinishFails, FinishPublish
<1>2. CASE SendTask \/ ReceiveResync \/ PageTask
  BY <1>2 DEF SendTask, PageTask, Authenticate, SnapshotRead, SnapshotJudge, SnapshotWrite, SnapshotSend, SendNext,
              ReceiveResync, Connect, AfterRefusal
<1>3. CASE SendMessage \/ StartRequest \/ CancelRun \/ CancelRequest
  BY <1>3 DEF StartRequest, CancelRequest, SendMessage, StartArrives, StartAnswered, StartFailed, CancelRun,
              CancelArrives, CancelReturns, CancelAnswered, CancelFailed
<1>4. CASE OnClose \/ OnRefused \/ Restart
  BY <1>4 DEF OnClose, OnRefused, Restart
<1>5. QED
  BY <1>1, <1>2, <1>3, <1>4 DEF Next

\* Every step keeps the shape of the view.
LEMMA ViewTypedStep ==
    ASSUME TypeOK, ServerInv, MessagesSound, Next
    PROVE  ViewTyped'
<1>1. ViewTyped
  BY DEF TypeOK, ViewTyped
<1>2. CASE UNCHANGED viewVars
  BY <1>1, <1>2 DEF ViewTyped, viewVars
<1>3. CASE UNCHANGED <<cards, terminal>>
           /\ (AfterRefusal \/ SendMessage \/ StartAnswered \/ StartFailed \/ CancelAnswered)
  <2>1. runId' \in {runId, None, post.run} /\ isBuilding' \in {isBuilding, TRUE, FALSE}
    BY <1>3 DEF AfterRefusal, SendMessage, StartAnswered, StartFailed, CancelAnswered
  <2>2. QED
    BY <1>1, <1>3, <2>1 DEF ViewTyped, TypeOK
<1>4. CASE OnMessage
  BY <1>4, OnMessageTakes, TakeHistorySays, TakeEventSays
<1>5. CASE Reopen
  BY <1>5 DEF Reopen, ViewTyped, NoCard, Cards, Statuses
<1>6. QED
  BY <1>2, <1>3, <1>4, <1>5, OffThePage

\* Every step keeps the state in its shape.
LEMMA TypeStep ==
    ASSUME TypeOK, AsksCounted, ServerInv, MessagesSound, Next
    PROVE  TypeOK' /\ AsksCounted'
<1>1. ServerTyped'
  BY ServerStep DEF ServerKept, ServerInv
<1>2. WireTyped' /\ Len(down') <= MaxFlight
  BY WireTypedStep
<1>3. ViewTyped'
  BY ViewTypedStep
<1>4. (UserTyped /\ AsksCounted)'
  BY UserTypedStep
<1>5. (up \in 0..MaxPosts)'
  <2>1. up' \in Nat /\ posts' \in Nat /\ posts' <= MaxPosts /\ MaxPosts \in Nat
    BY <1>4, ChatAssumption DEF UserTyped
  <2>2. up' <= posts'
    <3> DEFINE posting == IF post' = NoPost THEN 0 ELSE 1
               stopping == IF stop' = NoStop THEN 0 ELSE 1
    <3>1. posting \in Nat /\ stopping \in Nat
      OBVIOUS
    <3>2. up' + posting + stopping <= posts'
      BY <1>4 DEF AsksCounted
    <3> HIDE DEF posting, stopping
    <3>3. QED
      BY <2>1, <3>1, <3>2, PartBounded
  <2>3. QED
    BY <2>1, <2>2
<1>6. sock' \in {"off", "authenticating", "live", "closed", "refused"}
  <2>1. ASSUME NEW r \in Runs, RunTask(r) \/ RunStep(r) PROVE UNCHANGED sock
    BY <2>1, RunAnswers
  <2>2. CASE SendTask \/ ReceiveResync \/ PageTask
    BY <2>2 DEF SendTask, PageTask, Authenticate, SnapshotRead, SnapshotJudge, SnapshotWrite, SnapshotSend,
                SendNext, ReceiveResync, Connect, AfterRefusal, OnMessage, TypeOK
  <2>3. CASE SendMessage \/ StartRequest \/ CancelRun \/ CancelRequest
    BY <2>3 DEF StartRequest, CancelRequest, SendMessage, StartArrives, StartAnswered, StartFailed, CancelRun,
                CancelArrives, CancelReturns, CancelAnswered, CancelFailed, wireVars, TypeOK
  <2>4. CASE OnClose \/ OnRefused \/ Reopen \/ Restart
    BY <2>4, WireDownSays DEF OnClose, OnRefused, Reopen, Restart, TypeOK
  <2>5. QED
    BY <2>1, <2>2, <2>3, <2>4 DEF Next, TypeOK
<1>7. QED
  BY <1>1, <1>2, <1>3, <1>4, <1>5, <1>6
  DEF TypeOK, ServerTyped, WireTyped, ViewTyped, UserTyped, Messages, Sights, Posts, Stops

----------------------------------------------------------------------------
(* What is on its way, before and after a step.                            *)

ChatTyped == TypeOK /\ ServerInv /\ MessagesSound

LEMMA TypedWire ==
    ASSUME ChatTyped
    PROVE  /\ WireTyped /\ Waiting \subseteq Events \cup {Resync} /\ Sent \subseteq Coming \cup InFlight
           /\ InFlight \subseteq Sights /\ Coming \subseteq Events
           /\ \A m \in Coming : m.msg = "event" /\ m.run \in Runs /\ m.index \in 1..Len(log[m.run])
           /\ \A h \in InFlight : h.msg \in {"read", "judged", "history"}
           /\ \A h \in InFlight \cap Sent : h.msg = "history"
<1>1. WireTyped
  BY DEF ChatTyped, TypeOK, WireTyped, Messages, Sights
<1>2. /\ Waiting \subseteq Events \cup {Resync} /\ Sent \subseteq Messages
      /\ InFlight \subseteq Sights /\ Coming \subseteq Events
      /\ Coming = (Sent \cap Events) \cup (Waiting \cap Events)
      /\ InFlight = (Sent \cup {snap}) \cap Sights
  BY <1>1, WireSays
<1>3. \A m \in Coming : m.msg = "event" /\ m.run \in Runs /\ m.index \in Nat /\ m.index >= 1
  BY <1>2, MessagesApart, ChatAssumption
<1>4. \A m \in Coming : m.index \in 1..Len(log[m.run])
  BY <1>3 DEF ChatTyped, MessagesSound, ServerInv, ServerTyped
<1>5. \A h \in InFlight : h.msg \in {"read", "judged", "history"}
  BY <1>2, MessagesApart DEF Sights
<1>6. \A h \in InFlight \cap Sent : h.msg = "history"
  BY <1>2, <1>5, MessagesApart DEF Messages
<1>7. QED
  BY <1>1, <1>2, <1>3, <1>4, <1>5, <1>6 DEF Messages, Sights

LEMMA SameTransit ==
    ASSUME UNCHANGED <<queue, snap, down>>
    PROVE  Coming' = Coming /\ InFlight' = InFlight /\ Waiting' = Waiting /\ Sent' = Sent
BY DEF Coming, InFlight, Waiting, Sent

LEMMA PublishTransit ==
    ASSUME ChatTyped, NEW e \in Events \cup {Resync}, Published(e), UNCHANGED <<snap, down>>
    PROVE  /\ Coming' \subseteq Coming \cup ({e} \cap Events) /\ InFlight' = InFlight
           /\ sock = "live" => Resync \in Waiting' \/ Waiting' = Waiting \cup {e}
           /\ sock = "live" /\ (e = Resync \/ Resync \in Waiting) => Resync \in Waiting'
           /\ sock = "live" /\ Resync \notin Waiting' => Coming' = Coming \cup ({e} \cap Events)
<1>1. WireTyped
  BY TypedWire
<1>2. /\ Range(queue') \subseteq Range(queue) \cup {e, Resync}
      /\ sock = "live" => Resync \in Range(queue') \/ Range(queue') = Range(queue) \cup {e}
      /\ sock = "live" /\ e = Resync => Resync \in Range(queue')
      /\ sock = "live" /\ Resync \in Range(queue) => Resync \in Range(queue')
  BY <1>1, PublishedSays
<1>3. e \in Events <=> e.msg = "event"
  BY MessagesApart
<1>4. Resync.msg # "event"
  BY MessagesApart
<1>5. QED
  BY <1>2, <1>3, <1>4 DEF Coming, InFlight, Waiting, Sent

\* A snapshot is read, judged or written: nothing else moves.
LEMMA ReadingTransit ==
    ASSUME ChatTyped, SnapshotRead \/ SnapshotJudge \/ SnapshotWrite
    PROVE  /\ Coming' = Coming /\ Waiting' = Waiting /\ Sent' = Sent /\ UNCHANGED <<down, log, sock>>
           /\ snap' \in Sights /\ snap' \in InFlight' /\ snap' # Due /\ snap' # Idle
           /\ InFlight' \subseteq (InFlight \cap Sent) \cup {snap'}
           /\ InFlight \subseteq InFlight' \cup {snap}
<1>1. snap' \in Sights /\ UNCHANGED <<queue, down, log, sock>>
  BY TypedWire, ReadTyped, JudgeTyped, WriteTyped DEF ChatTyped, serverVars, Sights
<1>2. snap'.msg \in {"read", "judged", "history"} /\ snap' # Due /\ snap' # Idle
  BY <1>1, MessagesApart DEF Sights
<1>3. QED
  BY <1>1, <1>2 DEF Coming, InFlight, Waiting, Sent

LEMMA SendTransit ==
    ASSUME ChatTyped, SnapshotSend
    PROVE  /\ Coming' = Coming /\ InFlight' = InFlight /\ Waiting' = Waiting /\ Sent' = Sent \cup {snap}
           /\ snap.msg = "history" /\ snap' = Idle /\ down' = Append(down, snap) /\ snap \in Messages
<1>1. snap.msg = "history" /\ snap' = Idle /\ down' = Append(down, snap) /\ UNCHANGED queue
  BY DEF SnapshotSend
<1>2. WireTyped
  BY TypedWire
<1>3. snap \in Messages /\ down \in Seq(Messages)
  BY <1>1, <1>2, MessagesApart DEF WireTyped, Messages, Sights
<1>4. Sent' = Sent \cup {snap}
  BY <1>1, <1>3, AppendSays DEF Sent
<1>5. Idle.msg \notin {"read", "judged", "history"}
  BY MessagesApart
<1>6. QED
  BY <1>1, <1>3, <1>4, <1>5 DEF Coming, InFlight, Waiting

LEMMA NextTransit ==
    ASSUME ChatTyped, SendNext
    PROVE  /\ Coming' = Coming /\ InFlight' = InFlight /\ sock = "live"
           /\ Resync \in Waiting => Resync \in Waiting' \/ snap' = Due
           /\ snap = Idle /\ snap' \in {Idle, Due}
           /\ \/ UNCHANGED down
              \/ down' = Append(down, Head(queue)) /\ Head(queue) \in Messages /\ Head(queue).msg = "event"
<1>1. WireTyped
  BY TypedWire
<1>2. /\ queue # <<>> /\ queue' = Tail(queue) /\ snap = Idle /\ snap' \in {Idle, Due} /\ sock = "live"
      /\ \/ Head(queue) = Resync /\ snap' = Due /\ UNCHANGED down
         \/ Head(queue) # Resync /\ UNCHANGED snap /\ down' = Append(down, Head(queue))
  BY DEF SendNext, Observed
<1>3. /\ Waiting = Waiting' \cup {Head(queue)}
      /\ Head(queue) \in Events \cup {Resync}
  BY <1>1, <1>2, TailSays DEF WireTyped, Waiting
<1>4. /\ Resync.msg = "resync" /\ snap.msg = "none" /\ snap'.msg \in {"none", "due"}
      /\ \A m \in Events : m.msg = "event" /\ m \in Messages
  BY <1>2, MessagesApart DEF Messages
<1>5. CASE Head(queue) = Resync /\ snap' = Due /\ UNCHANGED down
  BY <1>2, <1>3, <1>4, <1>5 DEF Coming, InFlight, Sent
<1>6. CASE Head(queue) # Resync /\ UNCHANGED snap /\ down' = Append(down, Head(queue))
  <2>1. Head(queue) \in Messages /\ Head(queue).msg = "event"
    BY <1>3, <1>4, <1>6
  <2>2. Sent' = Sent \cup {Head(queue)}
    BY <1>1, <1>6, <2>1, AppendSays DEF Sent, WireTyped
  <2>3. Coming' = Coming /\ InFlight' = InFlight
    BY <1>2, <1>3, <1>4, <2>1, <2>2 DEF Coming, InFlight
  <2>4. QED
    BY <1>2, <1>3, <1>6, <2>1, <2>3
<1>7. QED
  BY <1>2, <1>5, <1>6

LEMMA ReceiveTransit ==
    ASSUME ChatTyped, ReceiveResync
    PROVE  Coming' = Coming /\ InFlight' = InFlight /\ Resync \in Waiting'
<1>1. queue' = Append(queue, Resync) /\ UNCHANGED <<snap, down>>
  BY DEF ReceiveResync
<1>2. Waiting' = Waiting \cup {Resync}
  BY <1>1, TypedWire, AppendSays DEF WireTyped, Waiting
<1>3. Resync.msg # "event"
  BY MessagesApart
<1>4. QED
  BY <1>1, <1>2, <1>3 DEF Coming, InFlight, Sent

LEMMA TakeTransit ==
    ASSUME ChatTyped, OnMessage
    PROVE  /\ down # <<>> /\ down' = Tail(down) /\ UNCHANGED <<snap, queue>> /\ Waiting' = Waiting
           /\ Coming' \subseteq Coming /\ InFlight' \subseteq InFlight
           /\ Coming \subseteq Coming' \cup {Head(down)} /\ InFlight \subseteq InFlight' \cup {Head(down)}
           /\ Sent = Sent' \cup {Head(down)}
<1>1. down # <<>> /\ down' = Tail(down) /\ UNCHANGED <<snap, queue>>
  BY DEF OnMessage
<1>2. Sent = Sent' \cup {Head(down)}
  BY <1>1, TypedWire, TailSays DEF WireTyped, Sent
<1>3. QED
  BY <1>1, <1>2 DEF Coming, InFlight, Waiting

LEMMA DownTransit ==
    ASSUME NEW x, WireDown(x)
    PROVE  Coming' = {} /\ InFlight' = {} /\ Waiting' = {} /\ Sent' = {}
<1>1. queue' = <<>> /\ down' = <<>> /\ snap' = Idle
  BY DEF WireDown
<1>2. Range(<<>>) = {}
  BY DEF Range
<1>3. Idle.msg \notin {"read", "judged", "history"}
  BY MessagesApart
<1>4. QED
  BY <1>1, <1>2, <1>3 DEF Coming, InFlight, Waiting, Sent

----------------------------------------------------------------------------
(* Messages in flight stay true.                                           *)

\* A history that is being read tells of every row that comes in the meantime.
LEMMA TellsKept ==
    ASSUME ChatTyped, Grows, ServerTyped', NEW h \in InFlight, NEW r \in Runs
    PROVE  /\ Tells(h, r)'.status = Tells(h, r).status
           /\ Tells(h, r).rows \in Nat /\ Tells(h, r)'.rows \in Nat
           /\ Tells(h, r).rows <= Tells(h, r)'.rows
           /\ h.msg = "history" => Tells(h, r)' = Tells(h, r)
           /\ \A kinds : HasRow(h, r, kinds) => HasRow(h, r, kinds)'
<1>1. Len(log[r]) \in Nat /\ Len(log'[r]) \in Nat /\ Len(log[r]) <= Len(log'[r])
      /\ \A i \in 1..Len(log[r]) : log'[r][i] = log[r][i]
  BY DEF ChatTyped, ServerInv, ServerTyped, Grows, RunGrows
<1>2. h \in Sights /\ Tells(h, r).rows \in Nat /\ Tells(h, r).rows <= Len(log[r])
  BY TypedWire, TellsTyped DEF ChatTyped, MessagesSound
<1>3. /\ Tells(h, r)'.status = Tells(h, r).status
      /\ Tells(h, r).rows <= Tells(h, r)'.rows /\ Tells(h, r)'.rows \in Nat
      /\ h.msg = "history" => Tells(h, r)' = Tells(h, r)
  <2>1. CASE h.msg = "history"
    <3>1. Tells(h, r)' = Tells(h, r)
      BY <2>1 DEF Tells
    <3>2. QED
      BY <1>2, <3>1
  <2>2. CASE h.msg # "history"
    BY <1>1, <1>2, <2>2 DEF Tells
  <2>3. QED
    BY <2>1, <2>2
<1>4. ASSUME NEW kinds, HasRow(h, r, kinds) PROVE HasRow(h, r, kinds)'
  <2>1. PICK i \in 1..Tells(h, r).rows : log[r][i] \in kinds
    BY <1>4 DEF HasRow
  <2>2. i \in 1..Tells(h, r)'.rows /\ log'[r][i] \in kinds
    BY <1>1, <1>2, <1>3, <2>1
  <2>3. QED
    BY <2>2 DEF HasRow
<1>5. QED
  BY <1>2, <1>3, <1>4

\* A message that is on its way tells the same after a step.
LEMMA EndsKept ==
    ASSUME ChatTyped, Grows, NEW m \in Coming \cup InFlight, NEW r \in Runs
    PROVE  Ends(m, r)' <=> Ends(m, r)
<1>1. CASE m.msg # "event"
  BY <1>1 DEF Ends, Tells
<1>2. CASE m.msg = "event"
  <2>1. m.run \in Runs /\ m.index \in 1..Len(log[m.run])
    BY <1>2, TypedWire
  <2>2. log'[m.run][m.index] = log[m.run][m.index]
    BY <2>1 DEF Grows, RunGrows
  <2>3. QED
    BY <1>2, <2>1, <2>2 DEF Ends
<1>3. QED
  BY <1>1, <1>2

\* What has been sent reaches as far after a step.
LEMMA ReachesKept ==
    ASSUME ChatTyped, Grows, NEW m \in Sent, NEW r \in Runs
    PROVE  Reaches(m, r)' = Reaches(m, r)
<1>1. m.msg \in {"event", "history"}
  BY TypedWire
<1>2. QED
  BY <1>1 DEF Reaches, Tells

\* A run that falls out of the histories does not come back.
LEMMA OmittedKept ==
    ASSUME Grows, NEW r \in Runs
    PROVE  /\ Listed(r)' => Listed(r)
           /\ \A h : Omits(h, r) => Omits(h, r)'
<1>1. Listed(r)' => Listed(r)
  BY DEF Listed, Grows, RunGrows
<1>2. \A h : Tells(h, r)'.status = Tells(h, r).status
  BY DEF Tells
<1>3. QED
  BY <1>1, <1>2 DEF Omits

LEMMA NewerKept ==
    ASSUME ChatTyped, Grows, ServerTyped', NEW h \in InFlight, NEW m \in Sent, Newer(h, m)
    PROVE  Newer(h, m)'
<1> SUFFICES ASSUME NEW r \in Runs, ~Omits(h, r)'
             PROVE  Reaches(m, r)' <= Tells(h, r)'.rows /\ (Ends(m, r)' => Ends(h, r)')
  BY DEF Newer
<1>1. ~Omits(h, r)
  BY OmittedKept
<1>2. Reaches(m, r) <= Tells(h, r).rows /\ (Ends(m, r) => Ends(h, r))
  BY <1>1 DEF Newer
<1>3. m \in Coming \cup InFlight
  BY TypedWire
<1>4. Ends(m, r)' => Ends(h, r)'
  BY <1>2, <1>3, EndsKept
<1>5. Reaches(m, r)' = Reaches(m, r) /\ Reaches(m, r) \in Nat
  <2>1. CASE m \in InFlight
    <3>1. Tells(m, r).rows \in Nat
      BY <2>1, TellsKept
    <3>2. QED
      BY <2>1, <3>1, ReachesKept, TypedWire DEF Reaches
  <2>2. CASE m \in Coming
    BY <2>2, ReachesKept, TypedWire DEF Reaches
  <2>3. QED
    BY <1>3, <2>1, <2>2
<1>6. Reaches(m, r)' <= Tells(h, r)'.rows
  BY <1>2, <1>5, TellsKept
<1>7. QED
  BY <1>4, <1>6

LEMMA KnownKept ==
    ASSUME ChatTyped, Grows, ServerTyped', UNCHANGED <<cards, terminal>>, NEW h \in InFlight, Known(h)
    PROVE  Known(h)'
<1> SUFFICES ASSUME NEW r \in Runs, ~Omits(h, r)'
             PROVE  /\ r \in terminal' => Ends(h, r)'
                    /\ cards'[r].status \in Ended => Ends(h, r)' \/ HasRow(h, r, Outcomes)'
                    /\ cards'[r].tool = "success" => HasRow(h, r, {"tool_completed"})'
  BY DEF Known
<1>1. ~Omits(h, r)
  BY OmittedKept
<1>2. /\ r \in terminal => Ends(h, r)
      /\ cards[r].status \in Ended => Ends(h, r) \/ HasRow(h, r, Outcomes)
      /\ cards[r].tool = "success" => HasRow(h, r, {"tool_completed"})
  BY <1>1 DEF Known
<1>3. Ends(h, r)' <=> Ends(h, r)
  BY EndsKept
<1>4. \A kinds : HasRow(h, r, kinds) => HasRow(h, r, kinds)'
  BY TellsKept
<1>5. QED
  BY <1>2, <1>3, <1>4

\* What a history tells is true.
HistorySound(h, r) ==
    LET seen == Tells(h, r)
    IN  /\ seen.rows <= Len(log[r]) /\ (seen.status = "none" => seen.rows = 0)
        /\ seen.status # "none" => status[r] # "none"
        /\ seen.status \in Outcomes => Finished(r) /\ seen.status = EndedAs(r)
        /\ h.msg = "history" /\ seen.status \in Ended =>
             status[r] \in Ended /\ (Finished(r) => seen.rows = Len(log[r]))

\* A history stays true.
LEMMA HistoryKept ==
    ASSUME ChatTyped, Grows, ServerTyped', NEW h \in InFlight, NEW r \in Runs
    PROVE  HistorySound(h, r)'
<1>1. HistorySound(h, r)
  BY DEF ChatTyped, MessagesSound, HistorySound
<1>2. Len(log[r]) \in Nat /\ Len(log'[r]) \in Nat /\ RunGrows(r) /\ (Finished(r) => status[r] \in Ended)
  BY EndSound DEF ChatTyped, ServerInv, ServerTyped, Grows
<1>3. Tells(h, r).rows \in Nat /\ (h.msg = "history" => Tells(h, r)' = Tells(h, r))
      /\ Tells(h, r)'.status = Tells(h, r).status
  BY TellsKept
<1>4. Finished(r) => Finished(r)' /\ log'[r] = log[r] /\ EndedAs(r)' = EndedAs(r)
  BY <1>2 DEF RunGrows, Finished
<1>5. Tells(h, r)'.rows <= Len(log'[r]) /\ (Tells(h, r).status = "none" => Tells(h, r)'.rows = 0)
  <2>1. CASE h.msg = "history"
    BY <1>1, <1>2, <1>3, <2>1 DEF HistorySound, RunGrows
  <2>2. CASE h.msg # "history"
    BY <1>2, <2>2 DEF Tells
  <2>3. QED
    BY <2>1, <2>2
<1>6. /\ Tells(h, r).status # "none" => status'[r] # "none"
      /\ Tells(h, r).status \in Outcomes => Finished(r)' /\ Tells(h, r).status = EndedAs(r)'
  BY <1>1, <1>2, <1>4 DEF HistorySound, RunGrows
<1>7. h.msg = "history" /\ Tells(h, r).status \in Ended =>
        status'[r] \in Ended /\ (Finished(r)' => Tells(h, r)'.rows = Len(log'[r]))
  BY <1>1, <1>2, <1>3, <1>4 DEF HistorySound, RunGrows
<1>8. QED
  BY <1>3, <1>5, <1>6, <1>7 DEF HistorySound

\* A history that is read, judged or written is true at that.
LEMMA ReadingSound ==
    ASSUME ChatTyped, Grows, ServerTyped', SnapshotRead \/ SnapshotJudge \/ SnapshotWrite, NEW r \in Runs
    PROVE  HistorySound(snap, r)'
<1>0. Len(log[r]) \in Nat /\ RunSound(r) /\ UNCHANGED log /\ status[r] \in Statuses
  BY ReadingTransit DEF ChatTyped, ServerInv, ServerTyped, ServerSound
<1>1. CASE SnapshotRead
  <2>1. /\ snap'.msg = "read" /\ UNCHANGED serverVars
        /\ snap'.runs[r] = IF Listed(r) THEN status[r] ELSE "none"
    BY <1>1, ReadTyped DEF ChatTyped
  <2>2. Tells(snap, r)' = [status |-> snap'.runs[r], rows |-> IF snap'.runs[r] = "none" THEN 0 ELSE Len(log[r])]
    BY <1>0, <2>1 DEF Tells
  <2>3. status[r] \in Outcomes => Finished(r)' /\ status[r] = EndedAs(r)'
    BY <1>0, <2>1 DEF RunSound, Finished, EndedAs, serverVars
  <2>4. "none" \notin Outcomes
    BY DEF Outcomes
  <2>5. QED
    BY <1>0, <2>1, <2>2, <2>3, <2>4 DEF HistorySound, serverVars
<1>2. CASE SnapshotJudge
  <2>1. /\ snap'.msg = "judged" /\ snap.msg = "read" /\ UNCHANGED serverVars
        /\ snap'.runs[r] = IF snap.runs[r] = "running" /\ ~Active(r) THEN "interrupted" ELSE snap.runs[r]
    BY <1>2, TypedWire, JudgeTyped
  <2>2. /\ Tells(snap, r)' = [status |-> snap'.runs[r], rows |-> IF snap'.runs[r] = "none" THEN 0 ELSE Len(log[r])]
        /\ Tells(snap, r) = [status |-> snap.runs[r], rows |-> IF snap.runs[r] = "none" THEN 0 ELSE Len(log[r])]
    BY <1>0, <2>1 DEF Tells
  <2>3. snap \in InFlight
    BY <2>1 DEF InFlight
  <2>4. /\ snap.runs[r] # "none" => status[r] # "none"
        /\ snap.runs[r] \in Outcomes => Finished(r) /\ snap.runs[r] = EndedAs(r)
    BY <2>2, <2>3 DEF ChatTyped, MessagesSound
  <2>5. Finished(r)' = Finished(r) /\ EndedAs(r)' = EndedAs(r)
    BY <2>1 DEF Finished, EndedAs, serverVars
  <2>6. "interrupted" \notin Outcomes \cup {"none"}
    BY DEF Outcomes
  <2>7. QED
    BY <1>0, <2>1, <2>2, <2>4, <2>5, <2>6 DEF HistorySound, serverVars
<1>3. CASE SnapshotWrite
  <2>1. /\ snap'.msg = "history" /\ snap.msg = "judged" /\ snap'.runs[r] = Tells(snap, r)
        /\ snap.runs[r] = "interrupted" => status'[r] = "interrupted"
    BY <1>3, TypedWire, WriteTyped DEF ChatTyped
  <2>2. /\ Tells(snap, r)' = Tells(snap, r)
        /\ Tells(snap, r) = [status |-> snap.runs[r], rows |-> IF snap.runs[r] = "none" THEN 0 ELSE Len(log[r])]
    BY <2>1 DEF Tells
  <2>3. snap \in InFlight
    BY <2>1 DEF InFlight
  <2>4. /\ snap.runs[r] # "none" => status[r] # "none"
        /\ snap.runs[r] \in Outcomes => Finished(r) /\ snap.runs[r] = EndedAs(r)
    BY <2>2, <2>3 DEF ChatTyped, MessagesSound
  <2>5. RunGrows(r) /\ (Finished(r) => status[r] \in Ended)
    BY EndSound DEF Grows, ChatTyped
  <2>6. Finished(r)' = Finished(r) /\ (Finished(r) => EndedAs(r)' = EndedAs(r) /\ status'[r] \in Ended)
    BY <1>0, <2>5 DEF Finished, EndedAs, RunGrows
  <2>7. snap.runs[r] \in Ended => status'[r] \in Ended
    BY <2>1, <2>4, <2>6 DEF Ended
  <2>8. snap.runs[r] # "none" => status'[r] # "none"
    BY <2>4, <2>5 DEF RunGrows
  <2>9. "none" \notin Ended
    BY DEF Ended, Outcomes
  <2>10. QED
    BY <1>0, <2>1, <2>2, <2>4, <2>6, <2>7, <2>8, <2>9 DEF HistorySound
<1>4. QED
  BY <1>1, <1>2, <1>3

\* What each step may put on its way.
LEMMA NewInTransit ==
    ASSUME ChatTyped, Next
    PROVE  /\ \A m \in Coming' : \/ m \in Coming
                                 \/ m.run \in Runs /\ m.index <= Len(log'[m.run])
           /\ \A h \in InFlight' : \/ h \in InFlight
                                   \/ (SnapshotRead \/ SnapshotJudge \/ SnapshotWrite) /\ h = snap'
<1>1. CASE UNCHANGED <<queue, snap, down>>
  BY <1>1, SameTransit
<1>2. ASSUME NEW r \in Runs, EmitPublish(r) \/ FinishPublish(r)
      PROVE  /\ \A m \in Coming' : m \in Coming \/ (m.run \in Runs /\ m.index <= Len(log'[m.run]))
             /\ InFlight' = InFlight
  <2>1. UNCHANGED <<snap, down, log>>
    BY <1>2 DEF EmitPublish, FinishPublish
  <2>2. \/ Published(Resync)
        \/ (phase[r] = "finished" \/ emitted[r] < Len(log[r])) /\ Published(Event(r, Len(log[r])))
    BY <1>2 DEF EmitPublish, FinishPublish
  <2>3. CASE Published(Resync)
    <3>1. Resync \notin Events
      BY MessagesApart
    <3>2. QED
      BY <2>1, <2>3, <3>1, PublishTransit
  <2>4. CASE (phase[r] = "finished" \/ emitted[r] < Len(log[r])) /\ Published(Event(r, Len(log[r])))
    <3> DEFINE e == Event(r, Len(log[r]))
    <3>1. e \in Events /\ e.run = r /\ e.index = Len(log[r])
      BY <2>4, EventPublished DEF ChatTyped
    <3>2. Len(log[r]) \in Nat
      BY DEF ChatTyped, ServerInv, ServerTyped
    <3>3. Coming' \subseteq Coming \cup {e} /\ InFlight' = InFlight
      <4>1. Published(e)
        BY <2>4
      <4> HIDE DEF e
      <4>2. QED
        BY <2>1, <3>1, <4>1, PublishTransit
    <3> HIDE DEF e
    <3>4. QED
      BY <2>1, <3>1, <3>2, <3>3
  <2>5. QED
    BY <2>2, <2>3, <2>4
<1>3. CASE SnapshotRead \/ SnapshotJudge \/ SnapshotWrite
  BY <1>3, ReadingTransit
<1>4. CASE SnapshotSend
  BY <1>4, SendTransit
<1>5. CASE SendNext
  BY <1>5, NextTransit
<1>6. CASE ReceiveResync
  BY <1>6, ReceiveTransit
<1>7. CASE OnMessage
  BY <1>7, TakeTransit
<1>8. CASE OnClose \/ OnRefused \/ Reopen \/ Restart
  BY <1>8, DownTransit DEF OnClose, OnRefused, Reopen, Restart
<1>9. CASE Authenticate
  <2>1. UNCHANGED <<queue, down>> /\ snap'.msg = "due"
    BY <1>9 DEF Authenticate, Due
  <2>2. QED
    BY <2>1 DEF Coming, InFlight, Sent, Waiting
<1>10. QED
  BY <1>1, <1>2, <1>3, <1>4, <1>5, <1>6, <1>7, <1>8, <1>9, OffTheWire DEF SendTask

\* Every step keeps what is in flight true.
LEMMA MessagesSoundStep ==
    ASSUME ChatTyped, Next
    PROVE  MessagesSound'
<1>1. Grows /\ ServerTyped'
  BY ServerStep DEF ChatTyped, ServerKept, ServerInv
<1>2. ASSUME NEW m \in Coming' PROVE m.index <= Len(log'[m.run])
  <2>1. CASE m \in Coming
    <3>1. m.run \in Runs /\ m.index \in Nat /\ m.index <= Len(log[m.run]) /\ Len(log[m.run]) \in Nat
      BY <2>1, TypedWire DEF ChatTyped, ServerInv, ServerTyped
    <3>2. Len(log[m.run]) <= Len(log'[m.run]) /\ Len(log'[m.run]) \in Nat
      BY <1>1, <3>1 DEF Grows, RunGrows, ServerTyped
    <3>3. QED
      BY <3>1, <3>2
  <2>2. QED
    BY <1>2, <2>1, NewInTransit
<1>3. ASSUME NEW h \in InFlight', NEW r \in Runs PROVE HistorySound(h, r)'
  <2>1. CASE h \in InFlight
    BY <1>1, <2>1, HistoryKept
  <2>2. CASE (SnapshotRead \/ SnapshotJudge \/ SnapshotWrite) /\ h = snap'
    <3>1. HistorySound(snap, r)'
      BY <1>1, <2>2, ReadingSound
    <3>2. QED
      BY <2>2, <3>1 DEF HistorySound, Tells, Finished, EndedAs
  <2>3. QED
    BY <1>3, <2>1, <2>2, NewInTransit
<1>4. QED
  BY <1>2, <1>3 DEF MessagesSound, HistorySound

----------------------------------------------------------------------------
(* The cards and the order of histories.                                   *)

CardsSound == \A r \in Runs : CardSound(r)

LEMMA CardsKept ==
    ASSUME ChatTyped, Grows, ServerTyped', CardsSound, UNCHANGED <<cards, terminal>>
    PROVE  CardsSound'
<1> SUFFICES ASSUME NEW r \in Runs PROVE CardSound(r)'
  BY DEF CardsSound
<1>1. CardSound(r) /\ RunGrows(r)
  BY DEF CardsSound, Grows
<1>2. Len(log[r]) \in Nat /\ Len(log'[r]) \in Nat /\ Len(log[r]) <= Len(log'[r])
  BY <1>1 DEF ChatTyped, ServerInv, ServerTyped, RunGrows
<1>3. \A i \in 1..Len(log[r]) : i \in 1..Len(log'[r]) /\ log'[r][i] = log[r][i]
  BY <1>1, <1>2 DEF RunGrows
<1>4. Listed(r)' => Listed(r)
  BY OmittedKept
<1>5. cards'[r].status \in Ended => status'[r] \in Ended /\ cards'[r].status = EndedAs(r)'
  BY <1>1 DEF CardSound, RunGrows
<1>6. r \in terminal' => status'[r] \in Ended /\ (Listed(r)' => cards'[r].status \in Ended)
  BY <1>1, <1>4 DEF CardSound, RunGrows
<1>7. cards'[r].tool = "success" => \E i \in 1..Len(log'[r]) : log'[r][i] = "tool_completed"
  BY <1>1, <1>3 DEF CardSound
<1>8. QED
  BY <1>5, <1>6, <1>7 DEF CardSound

\* A run with a row has been admitted, and a run with a terminal row has ended with it.
LEMMA RowSays ==
    ASSUME ServerInv, NEW r \in Runs, NEW i \in 1..Len(log[r])
    PROVE  /\ status[r] # "none"
           /\ log[r][i] \in Outcomes => status[r] \in Ended /\ EndedAs(r) = log[r][i] /\ Finished(r)
<1>1. log[r] # <<>> /\ RunSound(r)
  BY DEF ServerInv, ServerTyped, ServerSound
<1>2. log[r][i] \in Outcomes => Finished(r) /\ i = Len(log[r])
  BY <1>1 DEF Finished, RunSound
<1>3. QED
  BY <1>1, <1>2, EndSound DEF RunSound

\* A history shows a run ended, as it ended, if it tells of the end.
LEMMA RestoredRight ==
    ASSUME ChatTyped, NEW h \in InFlight, h.msg = "history", TakeHistory(h.runs), NEW r \in Runs
    PROVE  /\ cards'[r].status \in Ended => status[r] \in Ended /\ cards'[r].status = EndedAs(r)
           /\ Ends(h, r) \/ HasRow(h, r, Outcomes) => cards'[r].status \in Ended
<1>1. /\ HasRow(h, r, Outcomes) => cards'[r].status \in Ended /\ cards'[r].status = log[r][Len(log[r])]
      /\ ~HasRow(h, r, Outcomes) /\ Ends(h, r) => cards'[r].status = Tells(h, r).status
      /\ cards'[r].status \in Ended => Ends(h, r) \/ HasRow(h, r, Outcomes)
  BY TakeHistorySays DEF ChatTyped
<1>2. /\ Tells(h, r).rows <= Len(log[r]) /\ Tells(h, r).rows \in Nat /\ Len(log[r]) \in Nat
      /\ Ends(h, r) => Tells(h, r).status \in Ended
      /\ Tells(h, r).status \in Outcomes => Finished(r) /\ Tells(h, r).status = EndedAs(r)
      /\ Tells(h, r).status \in Ended => status[r] \in Ended /\ (Finished(r) => Tells(h, r).rows = Len(log[r]))
  BY TypedWire, TellsTyped DEF ChatTyped, MessagesSound, ServerInv, ServerTyped, Ends
<1>3. /\ Finished(r) => /\ log[r][Len(log[r])] \in Outcomes /\ EndedAs(r) = log[r][Len(log[r])]
                        /\ status[r] \in Ended /\ Len(log[r]) # 0
      /\ ~Finished(r) => EndedAs(r) = status[r]
      /\ status[r] \in Ended => Finished(r) \/ status[r] = "interrupted"
  BY EndSound DEF ChatTyped
<1>4. CASE HasRow(h, r, Outcomes)
  <2>1. Finished(r)
    BY <1>2, <1>4 DEF HasRow, Finished
  <2>2. QED
    BY <1>1, <1>3, <1>4, <2>1
<1>5. CASE ~HasRow(h, r, Outcomes)
  <2>1. Tells(h, r).status \in Ended => ~Finished(r)
    BY <1>2, <1>3, <1>5 DEF HasRow
  <2>2. Tells(h, r).status \in Ended => Tells(h, r).status = EndedAs(r)
    BY <1>2, <1>3, <2>1 DEF Ended
  <2>3. QED
    BY <1>1, <1>2, <1>5, <2>2
<1>6. QED
  BY <1>4, <1>5

\* What a card keeps: its end and its tool's result.
Keeps(r) == /\ cards[r].status \in Ended => cards'[r].status = cards[r].status
            /\ cards[r].tool = "success" => cards'[r].tool = "success"

\* What a message does to a card, given that histories know what the page shows.
LEMMA CardsTold ==
    ASSUME ChatTyped, CardsSound, HistoriesInOrder, OnMessage
    PROVE  CardsSound' /\ \A r \in Runs : (cards'[r] = NoCard /\ ~Listed(r)) \/ Keeps(r)
<1> DEFINE m == Head(down)
<1>0. UNCHANGED serverVars
  BY DEF OnMessage
<1>1. \/ m \in InFlight /\ m.msg = "history" /\ TakeHistory(m.runs)
      \/ /\ m \in Coming /\ m.msg = "event" /\ TakeEvent(m.run, m.index)
         /\ m.run \in Runs /\ m.index \in 1..Len(log[m.run])
  BY OnMessageTakes DEF ChatTyped
<1> HIDE DEF m
<1>2. SUFFICES ASSUME NEW r \in Runs
               PROVE  CardSound(r)' /\ ((cards'[r] = NoCard /\ ~Listed(r)) \/ Keeps(r))
  BY DEF CardsSound
<1>3. CardSound(r)
  BY DEF CardsSound
<1>a. EndedAs(r)' = EndedAs(r) /\ Listed(r)' = Listed(r) /\ UNCHANGED <<log, status>>
  BY <1>0 DEF serverVars, EndedAs, Finished, Listed
<1>4. CASE m \in InFlight /\ m.msg = "history" /\ TakeHistory(m.runs)
  <2>1. /\ r \in terminal' <=> r \in terminal \/ Ends(m, r)
        /\ Tells(m, r).status = "none" => cards'[r] = NoCard
        /\ cards'[r].tool = "success" <=> HasRow(m, r, {"tool_completed"})
    BY <1>4, TakeHistorySays DEF ChatTyped
  <2>2. /\ cards'[r].status \in Ended => status[r] \in Ended /\ cards'[r].status = EndedAs(r)
        /\ Ends(m, r) \/ HasRow(m, r, Outcomes) => cards'[r].status \in Ended
    BY <1>4, RestoredRight
  <2>3. Tells(m, r).rows <= Len(log[r]) /\ Tells(m, r).rows \in Nat /\ Len(log[r]) \in Nat
    BY <1>4, TypedWire, TellsTyped DEF ChatTyped, MessagesSound, ServerInv, ServerTyped
  <2>4. HasRow(m, r, {"tool_completed"}) => \E k \in 1..Len(log[r]) : log[r][k] = "tool_completed"
    BY <2>3 DEF HasRow
  <2>5. CASE Omits(m, r)
    <3>1. cards'[r] = NoCard /\ ~Listed(r) /\ ~Ends(m, r)
      BY <1>4, <2>1, <2>5 DEF Omits, Ends, Ended, Outcomes
    <3>2. cards'[r].status \notin Ended /\ cards'[r].tool # "success"
      BY <3>1 DEF NoCard, Ended, Outcomes
    <3>3. CardSound(r)'
      BY <1>3, <1>a, <2>1, <3>1, <3>2 DEF CardSound
    <3>4. QED
      BY <3>1, <3>3
  <2>6. CASE ~Omits(m, r)
    <3>1. /\ r \in terminal => Ends(m, r)
          /\ cards[r].status \in Ended => Ends(m, r) \/ HasRow(m, r, Outcomes)
          /\ cards[r].tool = "success" => HasRow(m, r, {"tool_completed"})
      BY <1>4, <2>6 DEF HistoriesInOrder, Known
    <3>2. CardSound(r)'
      BY <1>a, <2>1, <2>2, <2>4, <3>1 DEF CardSound
    <3>3. Keeps(r)
      BY <1>3, <2>1, <2>2, <3>1 DEF CardSound, Keeps
    <3>4. QED
      BY <3>2, <3>3
  <2>7. QED
    BY <2>5, <2>6
<1>5. CASE m \in Coming /\ m.msg = "event" /\ TakeEvent(m.run, m.index)
           /\ m.run \in Runs /\ m.index \in 1..Len(log[m.run])
  <2>1. CASE m.run # r \/ m.run \in terminal
    <3>1. cards'[r] = cards[r] /\ (r \in terminal' <=> r \in terminal)
      BY <1>5, <2>1, TakeEventSays DEF ChatTyped, viewVars
    <3>2. QED
      BY <1>3, <1>a, <3>1 DEF CardSound, Keeps
  <2>2. CASE m.run = r /\ m.run \notin terminal
    <3>1. /\ r \in terminal' <=> log[r][m.index] \in Outcomes
          /\ log[r][m.index] \in Outcomes => cards'[r].status = log[r][m.index]
          /\ log[r][m.index] \notin Outcomes =>
               /\ cards'[r].status = cards[r].status \/ cards'[r].status = "running"
               /\ cards[r].status \in Ended => cards'[r].status = cards[r].status
          /\ cards'[r].tool = "success" <=> cards[r].tool = "success" \/ log[r][m.index] = "tool_completed"
      BY <1>5, <2>2, TakeEventSays DEF ChatTyped
    <3>2. log[r][m.index] \in Outcomes => status[r] \in Ended /\ EndedAs(r) = log[r][m.index]
      BY <1>5, <2>2, RowSays DEF ChatTyped
    <3>3. "running" \notin Ended /\ Outcomes \subseteq Ended
      BY DEF Ended, Outcomes
    <3>4. cards'[r].status \in Ended => status[r] \in Ended /\ cards'[r].status = EndedAs(r)
      BY <1>3, <3>1, <3>2, <3>3 DEF CardSound
    <3>5. r \in terminal' => status[r] \in Ended /\ cards'[r].status \in Ended
      BY <3>1, <3>2, <3>3
    <3>6. cards'[r].tool = "success" => \E k \in 1..Len(log[r]) : log[r][k] = "tool_completed"
      BY <1>3, <1>5, <2>2, <3>1 DEF CardSound
    <3>7. Keeps(r)
      BY <1>3, <3>1, <3>2, <3>3 DEF CardSound, Keeps
    <3>8. QED
      BY <1>a, <3>4, <3>5, <3>6, <3>7 DEF CardSound
  <2>3. QED
    BY <2>1, <2>2
<1>6. QED
  BY <1>1, <1>4, <1>5

\* Every step keeps the cards true.
LEMMA CardsStep ==
    ASSUME ChatTyped, CardsSound, HistoriesInOrder, Next
    PROVE  CardsSound'
<1>1. Grows /\ ServerTyped'
  BY ServerStep DEF ChatTyped, ServerKept, ServerInv
<1>2. CASE UNCHANGED <<cards, terminal>>
  BY <1>1, <1>2, CardsKept
<1>3. CASE OnMessage
  BY <1>3, CardsTold
<1>4. CASE Reopen
  BY <1>4 DEF Reopen, CardsSound, CardSound, NoCard, Ended, Outcomes
<1>5. QED
  BY <1>2, <1>3, <1>4, OffThePage DEF viewVars

\* The page is told no more than a history sent later knows.
LEMMA KnownTold ==
    ASSUME ChatTyped, OnMessage, NEW h \in InFlight, Known(h), Newer(h, Head(down))
    PROVE  Known(h)'
<1> DEFINE m == Head(down)
<1>0. UNCHANGED serverVars
  BY DEF OnMessage
<1>1. \/ m \in InFlight /\ m.msg = "history" /\ TakeHistory(m.runs)
      \/ /\ m \in Coming /\ m.msg = "event" /\ TakeEvent(m.run, m.index)
         /\ m.run \in Runs /\ m.index \in 1..Len(log[m.run])
  BY OnMessageTakes DEF ChatTyped
<1>n. Newer(h, m)
  OBVIOUS
<1> HIDE DEF m
<1>a. \A r \in Runs : /\ Omits(h, r)' = Omits(h, r) /\ Ends(h, r)' = Ends(h, r)
                      /\ \A kinds : HasRow(h, r, kinds)' = HasRow(h, r, kinds)
  BY <1>0 DEF serverVars, Omits, Ends, HasRow, Tells, Listed
<1>2. SUFFICES ASSUME NEW r \in Runs, ~Omits(h, r)
               PROVE  /\ r \in terminal' => Ends(h, r)
                      /\ cards'[r].status \in Ended => Ends(h, r) \/ HasRow(h, r, Outcomes)
                      /\ cards'[r].tool = "success" => HasRow(h, r, {"tool_completed"})
  BY <1>a DEF Known
<1>3. /\ r \in terminal => Ends(h, r)
      /\ cards[r].status \in Ended => Ends(h, r) \/ HasRow(h, r, Outcomes)
      /\ cards[r].tool = "success" => HasRow(h, r, {"tool_completed"})
  BY <1>2 DEF Known
<1>4. Reaches(m, r) <= Tells(h, r).rows /\ (Ends(m, r) => Ends(h, r)) /\ Tells(h, r).rows \in Nat
  <2>1. Tells(h, r).rows \in Nat
    BY TypedWire, TellsTyped DEF ChatTyped
  <2>2. QED
    BY <1>n, <1>2, <2>1 DEF Newer
<1>5. CASE m \in InFlight /\ m.msg = "history" /\ TakeHistory(m.runs)
  <2>1. /\ r \in terminal' => r \in terminal \/ Ends(m, r)
        /\ cards'[r].status \in Ended => Ends(m, r) \/ HasRow(m, r, Outcomes)
        /\ cards'[r].tool = "success" => HasRow(m, r, {"tool_completed"})
    BY <1>5, TakeHistorySays DEF ChatTyped
  <2>2. Tells(m, r).rows <= Tells(h, r).rows /\ Tells(m, r).rows \in Nat
    BY <1>4, <1>5, TypedWire, TellsTyped DEF Reaches, ChatTyped
  <2>3. \A kinds : HasRow(m, r, kinds) => HasRow(h, r, kinds)
    BY <1>4, <2>2 DEF HasRow
  <2>4. QED
    BY <1>3, <1>4, <2>1, <2>3
<1>6. CASE m \in Coming /\ m.msg = "event" /\ TakeEvent(m.run, m.index)
           /\ m.run \in Runs /\ m.index \in 1..Len(log[m.run])
  <2>1. CASE m.run # r \/ m.run \in terminal
    <3>1. cards'[r] = cards[r] /\ (r \in terminal' <=> r \in terminal)
      BY <1>6, <2>1, TakeEventSays DEF ChatTyped, viewVars
    <3>2. QED
      BY <1>3, <3>1
  <2>2. CASE m.run = r /\ m.run \notin terminal
    <3>1. /\ r \in terminal' <=> log[r][m.index] \in Outcomes
          /\ log[r][m.index] \notin Outcomes =>
               cards'[r].status = cards[r].status \/ cards'[r].status = "running"
          /\ cards'[r].tool = "success" <=> cards[r].tool = "success" \/ log[r][m.index] = "tool_completed"
      BY <1>6, <2>2, TakeEventSays DEF ChatTyped
    <3>2. m.index <= Tells(h, r).rows /\ (log[r][m.index] \in Outcomes => Ends(h, r))
      BY <1>4, <1>6, <2>2 DEF Reaches, Ends
    <3>3. m.index \in 1..Tells(h, r).rows
      <4>1. m.index \in 1..Len(log[r]) /\ Len(log[r]) \in Nat
        BY <1>6, <2>2 DEF ChatTyped, ServerInv, ServerTyped
      <4>2. QED
        BY <1>4, <3>2, <4>1
    <3>4. "running" \notin Ended
      BY DEF Ended, Outcomes
    <3>5. QED
      BY <1>3, <3>1, <3>2, <3>3, <3>4 DEF HasRow
  <2>3. QED
    BY <2>1, <2>2
<1>7. QED
  BY <1>1, <1>5, <1>6

\* What is in front of the wire is older than every history in flight after it.
LEMMA NewerThanHead ==
    ASSUME ChatTyped, HistoriesInOrder, OnMessage, NEW h \in InFlight'
    PROVE  h \in InFlight /\ Known(h) /\ Newer(h, Head(down))
<1>1. h \in InFlight /\ Head(down) \in Sent /\ UNCHANGED snap /\ Sent' = Range(Tail(down)) /\ Sent' \subseteq Sent
  BY TakeTransit DEF InFlight, Sent
<1>2. down \in Seq(Messages) /\ down # <<>>
  BY TypedWire DEF WireTyped, OnMessage
<1>3. Head(down) = down[1] /\ Len(down) \in Nat \ {0} /\ Tail(down) \in Seq(Messages)
      /\ Len(Tail(down)) = Len(down) - 1 /\ \A i \in 1..Len(Tail(down)) : Tail(down)[i] = down[i + 1]
  BY <1>2, TailSays
<1>4. CASE h = snap
  BY <1>1, <1>4 DEF HistoriesInOrder
<1>5. CASE h # snap
  <2>1. h \in Sent'
    BY <1>1, <1>5 DEF InFlight
  <2>2. h.msg = "history"
    BY <1>1, <2>1, TypedWire
  <2>3. PICK i \in 1..Len(Tail(down)) : h = Tail(down)[i]
    <3>1. Range(Tail(down)) = {Tail(down)[i] : i \in 1..Len(Tail(down))}
      BY <1>3, RangeSays
    <3>2. QED
      BY <1>1, <2>1, <3>1
  <2>4. i + 1 \in 1..Len(down) /\ h = down[i + 1] /\ 1 \in 1..Len(down) /\ 1 < i + 1
    BY <1>3, <2>3
  <2>5. Newer(h, down[1])
    BY <2>2, <2>4 DEF HistoriesInOrder
  <2>6. QED
    BY <1>1, <1>3, <2>5 DEF HistoriesInOrder
<1>6. QED
  BY <1>4, <1>5

\* A history that is read now knows everything.
LEMMA ReadKnows ==
    ASSUME ChatTyped, CardsSound, SnapshotRead
    PROVE  Known(snap)' /\ \A m \in Sent : Newer(snap, m)'
<1>1. /\ snap'.msg = "read" /\ UNCHANGED <<log, status, cards, terminal>>
      /\ \A r \in Runs : snap'.runs[r] = IF Listed(r) THEN status[r] ELSE "none"
  BY ReadTyped DEF ChatTyped, SnapshotRead, viewVars, serverVars
<1>2. ASSUME NEW r \in Runs, ~Omits(snap, r)'
      PROVE  /\ Tells(snap, r)' = [status |-> status[r], rows |-> Len(log[r])]
             /\ Ends(snap, r)' <=> status[r] \in Ended
  <2>1. Tells(snap, r)' = [status |-> snap'.runs[r], rows |-> IF snap'.runs[r] = "none" THEN 0 ELSE Len(log[r])]
    BY <1>1 DEF Tells
  <2>2. Listed(r)' = Listed(r)
    BY <1>1 DEF Listed
  <2>3. Listed(r)
    BY <1>1, <1>2, <2>1, <2>2 DEF Omits
  <2>4. snap'.runs[r] = status[r]
    BY <1>1, <2>3
  <2>5. status[r] = "none" => Len(log[r]) = 0
    BY DEF ChatTyped, ServerInv, ServerSound, RunSound
  <2>6. Tells(snap, r)' = [status |-> status[r], rows |-> Len(log[r])]
    BY <2>1, <2>4, <2>5
  <2>7. Ends(snap, r)' <=> Tells(snap, r)'.status \in Ended
    BY <1>1 DEF Ends
  <2>8. QED
    BY <2>6, <2>7
<1>3. Known(snap)'
  <2> SUFFICES ASSUME NEW r \in Runs, ~Omits(snap, r)'
               PROVE  /\ r \in terminal' => Ends(snap, r)'
                      /\ cards'[r].status \in Ended => Ends(snap, r)' \/ HasRow(snap, r, Outcomes)'
                      /\ cards'[r].tool = "success" => HasRow(snap, r, {"tool_completed"})'
    BY DEF Known
  <2>1. CardSound(r)
    BY DEF CardsSound
  <2>2. cards[r].tool = "success" => HasRow(snap, r, {"tool_completed"})'
    BY <1>1, <1>2, <2>1 DEF CardSound, HasRow
  <2>3. QED
    BY <1>1, <1>2, <2>1, <2>2 DEF CardSound
<1>4. ASSUME NEW m \in Sent, NEW r \in Runs
      PROVE  Reaches(m, r) <= Len(log[r]) /\ (Ends(m, r) => status[r] \in Ended)
  <2>1. Len(log[r]) \in Nat
    BY DEF ChatTyped, ServerInv, ServerTyped
  <2>2. CASE m \in InFlight
    <3>1. m.msg = "history"
      BY <2>2, TypedWire
    <3>2. QED
      BY <2>2, <3>1 DEF Reaches, Ends, ChatTyped, MessagesSound
  <2>3. CASE m \in Coming
    <3>1. m.msg = "event" /\ m.run \in Runs /\ m.index \in 1..Len(log[m.run])
      BY <2>3, TypedWire
    <3>2. Reaches(m, r) <= Len(log[r])
      BY <2>1, <3>1 DEF Reaches
    <3>3. Ends(m, r) => status[r] \in Ended
      BY <3>1, RowSays DEF Ends, ChatTyped
    <3>4. QED
      BY <3>2, <3>3
  <2>4. QED
    BY <2>2, <2>3, TypedWire
<1>5. ASSUME NEW m \in Sent PROVE Newer(snap, m)'
  <2> SUFFICES ASSUME NEW r \in Runs, ~Omits(snap, r)'
               PROVE  Reaches(m, r)' <= Tells(snap, r)'.rows /\ (Ends(m, r)' => Ends(snap, r)')
    BY DEF Newer
  <2>1. Reaches(m, r)' = Reaches(m, r) /\ Ends(m, r)' = Ends(m, r)
    BY <1>1 DEF Reaches, Ends, Tells
  <2>2. QED
    BY <1>2, <1>4, <2>1
<1>6. QED
  BY <1>3, <1>5

\* Judging and writing it takes nothing away.
LEMMA ReadingKnows ==
    ASSUME ChatTyped, Grows, HistoriesInOrder, SnapshotJudge \/ SnapshotWrite
    PROVE  Known(snap)' /\ \A m \in Sent : Newer(snap, m)'
<1>1. snap \in InFlight /\ UNCHANGED <<log, cards, terminal>> /\ snap.msg # "event" /\ snap'.msg # "event"
  BY TypedWire, ReadingTransit, JudgeTyped, WriteTyped
     DEF ChatTyped, InFlight, SnapshotJudge, SnapshotWrite, viewVars, serverVars
<1>2. ASSUME NEW r \in Runs
      PROVE  /\ Tells(snap, r)'.rows = Tells(snap, r).rows
             /\ Tells(snap, r)'.status = "none" <=> Tells(snap, r).status = "none"
             /\ Tells(snap, r).status \in Ended => Tells(snap, r)'.status = Tells(snap, r).status
  <2>1. CASE SnapshotJudge
    <3>1. /\ snap'.msg = "judged" /\ snap.msg = "read"
          /\ snap'.runs[r] = IF snap.runs[r] = "running" /\ ~Active(r) THEN "interrupted" ELSE snap.runs[r]
      BY <2>1, TypedWire, JudgeTyped
    <3>2. /\ Tells(snap, r)' = [status |-> snap'.runs[r], rows |-> IF snap'.runs[r] = "none" THEN 0 ELSE Len(log[r])]
          /\ Tells(snap, r) = [status |-> snap.runs[r], rows |-> IF snap.runs[r] = "none" THEN 0 ELSE Len(log[r])]
      BY <1>1, <3>1 DEF Tells
    <3>3. "running" \notin Ended
      BY DEF Ended, Outcomes
    <3>4. QED
      BY <3>1, <3>2, <3>3
  <2>2. CASE SnapshotWrite
    <3>1. snap'.msg = "history" /\ snap'.runs[r] = Tells(snap, r)
      BY <2>2, TypedWire, WriteTyped DEF ChatTyped
    <3>2. Tells(snap, r)' = Tells(snap, r)
      BY <3>1 DEF Tells
    <3>3. QED
      BY <3>2
  <2>3. QED
    BY <2>1, <2>2
<1>3. ASSUME NEW r \in Runs
      PROVE  /\ Omits(snap, r) => Omits(snap, r)'
             /\ Ends(snap, r) => Ends(snap, r)'
             /\ \A kinds : HasRow(snap, r, kinds) => HasRow(snap, r, kinds)'
  BY <1>1, <1>2, OmittedKept DEF Omits, Ends, HasRow
<1>4. Known(snap) /\ \A m \in Sent : Newer(snap, m)
  BY <1>1 DEF HistoriesInOrder
<1>5. Known(snap)'
  <2> SUFFICES ASSUME NEW r \in Runs, ~Omits(snap, r)'
               PROVE  /\ r \in terminal' => Ends(snap, r)'
                      /\ cards'[r].status \in Ended => Ends(snap, r)' \/ HasRow(snap, r, Outcomes)'
                      /\ cards'[r].tool = "success" => HasRow(snap, r, {"tool_completed"})'
    BY DEF Known
  <2>1. /\ r \in terminal => Ends(snap, r)
        /\ cards[r].status \in Ended => Ends(snap, r) \/ HasRow(snap, r, Outcomes)
        /\ cards[r].tool = "success" => HasRow(snap, r, {"tool_completed"})
    BY <1>3, <1>4 DEF Known
  <2>2. QED
    BY <1>1, <1>3, <2>1
<1>6. ASSUME NEW m \in Sent PROVE Newer(snap, m)'
  <2> SUFFICES ASSUME NEW r \in Runs, ~Omits(snap, r)'
               PROVE  Reaches(m, r)' <= Tells(snap, r)'.rows /\ (Ends(m, r)' => Ends(snap, r)')
    BY DEF Newer
  <2>1. Reaches(m, r)' = Reaches(m, r) /\ Ends(m, r)' = Ends(m, r)
    BY <1>1 DEF Reaches, Ends, Tells
  <2>2. Reaches(m, r) <= Tells(snap, r).rows /\ (Ends(m, r) => Ends(snap, r))
    BY <1>3, <1>4 DEF Newer
  <2>3. QED
    BY <1>2, <1>3, <2>1, <2>2
<1>7. QED
  BY <1>5, <1>6

\* What is on the wire stays in order.
LEMMA DownKept ==
    ASSUME ChatTyped, Grows, ServerTyped', HistoriesInOrder,
           NEW i \in 1..Len(down), NEW j \in 1..Len(down), i < j, down[j].msg = "history"
    PROVE  \A h, m : h = down[j] /\ m = down[i] => Newer(h, m)'
<1>1. down \in Seq(Messages)
  BY TypedWire DEF WireTyped
<1>2. down[i] \in Sent /\ down[j] \in Sent
  BY <1>1, RangeSays DEF Sent
<1>3. down[j] \in InFlight /\ Newer(down[j], down[i])
  BY <1>2 DEF InFlight, HistoriesInOrder
<1> SUFFICES ASSUME NEW h, NEW m, h = down[j], m = down[i] PROVE Newer(h, m)'
  OBVIOUS
<1>4. h \in InFlight /\ m \in Sent /\ Newer(h, m)
  BY <1>2, <1>3
<1>5. QED
  BY <1>4, NewerKept

\* Nothing new behind a wire that is left alone.
LEMMA OrderKept ==
    ASSUME ChatTyped, HistoriesInOrder, Grows, ServerTyped', UNCHANGED <<down, cards, terminal>>,
           snap' = snap \/ snap' \in {Idle, Due}
    PROVE  HistoriesInOrder'
<1>1. Sent' = Sent /\ InFlight' \subseteq InFlight /\ (snap' \in InFlight' => snap' = snap)
  BY MessagesApart DEF Sent, InFlight
<1>2. \A h \in InFlight' : Known(h)'
  BY <1>1, KnownKept DEF HistoriesInOrder
<1>3. ASSUME NEW i \in 1..Len(down), NEW j \in 1..Len(down), i < j, down[j].msg = "history"
      PROVE  Newer(down[j], down[i])'
  <2>1. \A h, m : h = down[j] /\ m = down[i] => Newer(h, m)'
    BY <1>3, DownKept
  <2>2. QED
    BY <2>1 DEF Newer, Omits, Reaches, Ends, Tells
<1>4. snap' \in InFlight' => \A m \in Sent' : Newer(snap, m)'
  <2> SUFFICES ASSUME snap' \in InFlight', NEW m \in Sent' PROVE Newer(snap, m)'
    OBVIOUS
  <2>1. PICK h : h = snap
    OBVIOUS
  <2>2. snap' = h /\ h \in InFlight /\ m \in Sent /\ Newer(h, m)
    BY <1>1, <2>1 DEF HistoriesInOrder
  <2>3. Newer(h, m)'
    BY <2>2, NewerKept
  <2>4. QED
    BY <2>2, <2>3 DEF Newer, Omits, Reaches, Ends, Tells
<1>5. QED
  BY <1>2, <1>3, <1>4 DEF HistoriesInOrder

\* A message at the end of the wire: in order if it is an event, or a history newer than all.
LEMMA OrderExtended ==
    ASSUME ChatTyped, HistoriesInOrder, Grows, ServerTyped', UNCHANGED <<cards, terminal>>,
           NEW m \in Messages, down' = Append(down, m), m \in Coming \cup InFlight,
           m.msg = "history" => \A q \in Sent : Newer(m, q),
           InFlight' = InFlight, snap' \in {Idle, Due}
    PROVE  HistoriesInOrder'
<1>1. down \in Seq(Messages) /\ Len(down) \in Nat
  BY TypedWire DEF WireTyped
<1>2. /\ Len(down') = Len(down) + 1
      /\ \A i \in 1..Len(down) : down'[i] = down[i]
      /\ down'[Len(down) + 1] = m
  BY <1>1, AppendSays
<1>3. \A i \in 1..Len(down) : down[i] \in Sent
  BY <1>1, RangeSays DEF Sent
<1>4. \A h \in InFlight' : Known(h)'
  BY KnownKept DEF HistoriesInOrder
<1>5. ASSUME NEW i \in 1..Len(down'), NEW j \in 1..Len(down'), i < j, down'[j].msg = "history"
      PROVE  Newer(down[j], down[i])'
  <2>1. i \in 1..Len(down) /\ (j \in 1..Len(down) \/ j = Len(down) + 1)
    BY <1>1, <1>2, <1>5
  <2>2. PICK h, q : h = down'[j] /\ q = down'[i]
    OBVIOUS
  <2>3. q \in Sent /\ q = down[i]
    BY <1>2, <1>3, <2>1, <2>2
  <2>4. Newer(h, q)'
    <3>1. CASE j \in 1..Len(down)
      <4>1. h = down[j] /\ h.msg = "history"
        BY <1>2, <1>5, <2>2, <3>1
      <4>2. QED
        BY <1>5, <2>1, <2>3, <3>1, <4>1, DownKept
    <3>2. CASE j = Len(down) + 1
      <4>1. h = m /\ m.msg = "history"
        BY <1>2, <1>5, <2>2, <3>2
      <4>2. m \in InFlight /\ Newer(m, q)
        BY <2>3, <4>1 DEF InFlight, Coming
      <4>3. Newer(m, q)'
        BY <2>3, <4>2, NewerKept
      <4>4. QED
        BY <4>1, <4>3 DEF Newer, Omits, Reaches, Ends, Tells
    <3>3. QED
      BY <2>1, <3>1, <3>2
  <2>5. QED
    BY <2>2, <2>4 DEF Newer, Omits, Reaches, Ends, Tells
<1>6. snap' \notin InFlight'
  BY MessagesApart DEF InFlight
<1>7. QED
  BY <1>4, <1>5, <1>6 DEF HistoriesInOrder

\* The message in front is taken.
LEMMA OrderTaken ==
    ASSUME ChatTyped, HistoriesInOrder, OnMessage
    PROVE  HistoriesInOrder'
<1>0. UNCHANGED <<log, status, snap>> /\ Sent' \subseteq Sent /\ down' = Tail(down) /\ down # <<>>
      /\ InFlight' \subseteq InFlight
  BY TakeTransit DEF OnMessage, serverVars
<1>1. down \in Seq(Messages)
  BY TypedWire DEF WireTyped
<1>2. /\ Len(down) \in Nat \ {0} /\ Len(down') = Len(down) - 1
      /\ \A i \in 1..Len(down') : down'[i] = down[i + 1]
  BY <1>0, <1>1, TailSays
<1>3. \A h \in InFlight' : Known(h)'
  BY NewerThanHead, KnownTold
<1>4. ASSUME NEW i \in 1..Len(down'), NEW j \in 1..Len(down'), i < j, down'[j].msg = "history"
      PROVE  Newer(down[j], down[i])'
  <2>1. /\ i + 1 \in 1..Len(down) /\ j + 1 \in 1..Len(down) /\ i + 1 < j + 1
        /\ down'[i] = down[i + 1] /\ down'[j] = down[j + 1]
    BY <1>2, <1>4
  <2>2. Newer(down[j + 1], down[i + 1])
    BY <1>4, <2>1 DEF HistoriesInOrder
  <2>3. QED
    BY <1>0, <2>1, <2>2 DEF Newer, Omits, Reaches, Ends, Tells, Listed
<1>5. snap' \in InFlight' => \A m \in Sent' : Newer(snap, m)'
  BY <1>0 DEF HistoriesInOrder, Newer, Omits, Reaches, Ends, Tells, Listed
<1>6. QED
  BY <1>3, <1>4, <1>5 DEF HistoriesInOrder

\* A history is read, judged or written behind all that has been sent.
LEMMA OrderRead ==
    ASSUME ChatTyped, CardsSound, HistoriesInOrder, Grows, ServerTyped',
           SnapshotRead \/ SnapshotJudge \/ SnapshotWrite
    PROVE  HistoriesInOrder'
<1>1. UNCHANGED <<down, cards, terminal>>
  BY DEF SnapshotRead, SnapshotJudge, SnapshotWrite, viewVars
<1>2. Sent' = Sent /\ InFlight' \subseteq (InFlight \cap Sent) \cup {snap'}
  BY ReadingTransit
<1>3. Known(snap)' /\ \A m \in Sent : Newer(snap, m)'
  BY ReadKnows, ReadingKnows
<1>4. ASSUME NEW h \in InFlight' PROVE Known(h)'
  <2>1. CASE h \in InFlight
    BY <1>1, <2>1, KnownKept DEF HistoriesInOrder
  <2>2. CASE h = snap'
    BY <1>3, <2>2 DEF Known, Omits, HasRow, Ends, Tells
  <2>3. QED
    BY <1>2, <2>1, <2>2
<1>5. ASSUME NEW i \in 1..Len(down), NEW j \in 1..Len(down), i < j, down[j].msg = "history"
      PROVE  Newer(down[j], down[i])'
  <2>1. \A h, m : h = down[j] /\ m = down[i] => Newer(h, m)'
    BY <1>5, DownKept
  <2>2. QED
    BY <1>1, <2>1 DEF Newer, Omits, Reaches, Ends, Tells
<1>6. QED
  BY <1>1, <1>2, <1>3, <1>4, <1>5 DEF HistoriesInOrder

\* Every step keeps the histories in order.
LEMMA OrderStep ==
    ASSUME ChatTyped, CardsSound, HistoriesInOrder, Next
    PROVE  HistoriesInOrder'
<1>1. Grows /\ ServerTyped'
  BY ServerStep DEF ChatTyped, ServerKept, ServerInv
<1>2. CASE OnMessage
  BY <1>2, OrderTaken
<1>3. CASE SnapshotRead \/ SnapshotJudge \/ SnapshotWrite
  BY <1>1, <1>3, OrderRead
<1>4. CASE SnapshotSend
  <2>1. UNCHANGED <<cards, terminal>>
    BY <1>4 DEF SnapshotSend, viewVars
  <2>2. snap \in Messages /\ down' = Append(down, snap) /\ snap.msg = "history" /\ InFlight' = InFlight
        /\ snap' = Idle
    BY <1>4, SendTransit
  <2>3. snap \in InFlight /\ \A q \in Sent : Newer(snap, q)
    BY <2>2 DEF InFlight, HistoriesInOrder
  <2>4. QED
    BY <1>1, <2>1, <2>2, <2>3, OrderExtended
<1>5. CASE SendNext
  <2>1. UNCHANGED <<cards, terminal>>
    BY <1>5 DEF SendNext, viewVars
  <2>2. /\ InFlight' = InFlight /\ snap' \in {Idle, Due}
        /\ \/ UNCHANGED down
           \/ down' = Append(down, Head(queue)) /\ Head(queue) \in Messages /\ Head(queue).msg = "event"
    BY <1>5, NextTransit
  <2>3. CASE UNCHANGED down
    BY <1>1, <2>1, <2>2, <2>3, OrderKept
  <2>4. CASE down' = Append(down, Head(queue)) /\ Head(queue) \in Messages /\ Head(queue).msg = "event"
    <3>1. queue # <<>> /\ queue \in Seq(Events \cup {Resync})
      BY <1>5, TypedWire DEF SendNext, WireTyped
    <3>2. Head(queue) \in Waiting
      BY <3>1, TailSays DEF Waiting
    <3>3. Head(queue) \in Coming
      BY <2>4, <3>2 DEF Coming
    <3> DEFINE e == Head(queue)
    <3>4. e \in Messages /\ down' = Append(down, e) /\ e \in Coming /\ e.msg # "history"
      BY <2>4, <3>3
    <3> HIDE DEF e
    <3>5. QED
      BY <1>1, <2>1, <2>2, <3>4, OrderExtended
  <2>5. QED
    BY <2>2, <2>3, <2>4
<1>6. CASE OnClose \/ OnRefused \/ Reopen \/ Restart
  <2>1. PICK x : WireDown(x)
    BY <1>6 DEF OnClose, OnRefused, Reopen, Restart
  <2>2. InFlight' = {} /\ Len(down') = 0
    BY <2>1, DownTransit, WireDownSays
  <2>3. 1..Len(down') = {}
    BY <2>2
  <2>4. QED
    BY <2>2, <2>3 DEF HistoriesInOrder
<1>7. CASE /\ ~OnMessage /\ ~SendTask /\ ~(OnClose \/ OnRefused \/ Reopen \/ Restart)
  <2>1. UNCHANGED <<cards, terminal>>
    BY <1>7, OffThePage DEF viewVars
  <2>2. UNCHANGED down /\ (snap' = snap \/ snap' = Due)
    BY <1>7, OffTheWire DEF EmitPublish, FinishPublish, ReceiveResync, Authenticate
  <2>3. QED
    BY <1>1, <2>1, <2>2, OrderKept
<1>8. QED
  BY <1>2, <1>3, <1>4, <1>5, <1>6, <1>7 DEF SendTask

\* Every step leaves a socket that is not open empty.
LEMMA DisconnectedStep ==
    ASSUME TypeOK, Disconnected, Next
    PROVE  Disconnected'
<1> USE DEF Disconnected, Observed, wsConnected
<1>1. ASSUME NEW r \in Runs, RunTask(r) \/ RunStep(r) PROVE Disconnected'
  <2>1. UNCHANGED sock
    BY <1>1, RunAnswers
  <2>2. UNCHANGED <<queue, snap, down>> \/ (UNCHANGED <<snap, down>> /\ \E e : Published(e))
    BY <1>1 DEF RunTask, RunStep, Register, AdmitFails, AdmitElsewhere, EmitCommit, EmitPublish, Complete,
                GiveUp, CancelElsewhere, SnapshotElsewhere, Finish, FinishReturns, FinishFails,
                FinishPublish, wireVars
  <2>3. sock # "live" => UNCHANGED <<queue, snap, down>>
    BY <2>2 DEF Published
  <2>4. QED
    BY <2>1, <2>3
<1>2. CASE SendTask \/ ReceiveResync \/ PageTask
  BY <1>2 DEF SendTask, PageTask, Authenticate, SnapshotRead, SnapshotJudge, SnapshotWrite, SnapshotSend,
              SendNext, ReceiveResync, OnMessage, Connect, AfterRefusal, Due, Idle
<1>3. CASE SendMessage \/ StartRequest \/ CancelRun \/ CancelRequest
  BY <1>3 DEF StartRequest, CancelRequest, SendMessage, StartArrives, StartAnswered, StartFailed, CancelRun,
              CancelArrives, CancelReturns, CancelAnswered, CancelFailed, wireVars
<1>4. CASE OnClose \/ OnRefused \/ Reopen \/ Restart
  BY <1>4 DEF OnClose, OnRefused, Reopen, Restart, WireDown
<1>5. QED
  BY <1>1, <1>2, <1>3, <1>4 DEF Next

----------------------------------------------------------------------------
(* A page that is owed nothing is up to date, or will be.                  *)

\* A page owed no history after a step was owed none before, unless the step reads one.
LEMMA OwedBefore ==
    ASSUME ChatTyped, Disconnected, Next, sock' = "live", ~HistoryOwed'
    PROVE  \/ SnapshotRead
           \/ /\ sock = "live" /\ ~HistoryOwed
              /\ ~(OnClose \/ OnRefused \/ Reopen \/ Restart \/ Authenticate \/ ReceiveResync
                     \/ AfterRefusal \/ StartAnswered \/ CancelAnswered)
<1>a. up \in Nat
  BY ChatAssumption DEF ChatTyped, TypeOK
<1>b. up' = 0 \/ ~(up' > 0)
  BY DEF HistoryOwed
<1>1. ~(OnClose \/ OnRefused \/ Reopen \/ Restart)
  BY WireDownSays DEF OnClose, OnRefused, Reopen, Restart, wsConnected
<1>2. ~Authenticate
  BY DEF Authenticate, HistoryOwed
<1>3. ~ReceiveResync
  BY ReceiveTransit DEF HistoryOwed
<1>4. ~StartAnswered /\ ~CancelAnswered
  <2>1. StartAnswered \/ CancelAnswered => up' = up + 1
    BY DEF StartAnswered, CancelAnswered, AskResync, wsConnected
  <2>2. up + 1 > 0
    BY <1>a
  <2>3. QED
    BY <2>1, <2>2 DEF HistoryOwed
<1>5. ~AfterRefusal /\ ~Connect
  BY DEF AfterRefusal, Connect
<1>6. CASE \E r \in Runs : RunTask(r) \/ RunStep(r)
  <2>1. PICK r \in Runs : RunTask(r) \/ RunStep(r)
    BY <1>6
  <2>2. UNCHANGED <<sock, up>>
    BY <2>1, RunAnswers DEF ChatTyped
  <2>3. \/ UNCHANGED <<queue, snap>>
        \/ \E e \in Events \cup {Resync} : Published(e) /\ UNCHANGED <<snap, down>>
    <3>1. CASE EmitPublish(r) \/ FinishPublish(r)
      BY <3>1, EventPublished DEF EmitPublish, FinishPublish, ChatTyped
    <3>2. CASE ~(EmitPublish(r) \/ FinishPublish(r))
      BY <2>1, <3>2 DEF RunTask, RunStep, Register, AdmitFails, AdmitElsewhere, EmitCommit, Complete,
                GiveUp, CancelElsewhere, SnapshotElsewhere, Finish, FinishReturns, FinishFails, wireVars
    <3>3. QED
      BY <3>1, <3>2
  <2>4. sock = "live" /\ ~HistoryOwed
    <3>1. CASE UNCHANGED <<queue, snap>>
      BY <2>2, <3>1 DEF Waiting, HistoryOwed
    <3>2. CASE \E e \in Events \cup {Resync} : Published(e) /\ UNCHANGED <<snap, down>>
      BY <2>2, <3>2, PublishTransit DEF HistoryOwed
    <3>3. QED
      BY <2>3, <3>1, <3>2
  <2>5. QED
    BY <1>1, <1>2, <1>3, <1>4, <1>5, <2>4
<1>7. CASE SnapshotSend \/ OnMessage \/ SnapshotJudge \/ SnapshotWrite
  <2>1. snap # Due /\ UNCHANGED <<sock, queue, up>>
    BY <1>7 DEF SnapshotSend, SnapshotJudge, SnapshotWrite, OnMessage, HistoryOwed, Due
  <2>2. QED
    BY <1>1, <1>2, <1>3, <1>4, <1>5, <2>1 DEF HistoryOwed, Waiting
<1>8. CASE SendNext
  <2>1. UNCHANGED <<sock, up>> /\ snap = Idle /\ (Resync \in Waiting => Resync \in Waiting' \/ snap' = Due)
    BY <1>8, NextTransit DEF SendNext
  <2>2. snap # Due
    BY <2>1, MessagesApart
  <2>3. QED
    BY <1>1, <1>2, <1>3, <1>4, <1>5, <2>1, <2>2 DEF HistoryOwed
<1>9. CASE (SendMessage \/ StartRequest \/ CancelRun \/ CancelRequest) /\ ~StartAnswered /\ ~CancelAnswered
  <2>1. UNCHANGED <<sock, queue, snap, up>>
    BY <1>9 DEF StartRequest, CancelRequest, SendMessage, StartArrives, StartFailed, CancelRun,
                CancelArrives, CancelReturns, CancelFailed, wireVars
  <2>2. QED
    BY <1>1, <1>2, <1>3, <1>4, <1>5, <2>1 DEF HistoryOwed, Waiting
<1>10. QED
  BY <1>1, <1>2, <1>3, <1>4, <1>5, <1>6, <1>7, <1>8, <1>9 DEF Next, SendTask, PageTask

\* A message tells the end of a run, or will when it has been judged.
WillTell(m, r) == Ends(m, r) \/ (m.msg = "read" /\ m.runs[r] = "running")

\* A history that is read tells every announced end, or has its run judged.
LEMMA ReadTells ==
    ASSUME ChatTyped, SnapshotRead
    PROVE  InFlight' # {} /\ \A r \in Runs : EndComes(r)'
<1>1. /\ snap' \in InFlight' /\ snap'.msg = "read" /\ UNCHANGED <<phase, status>>
      /\ \A r \in Runs : snap'.runs[r] = IF Listed(r) THEN status[r] ELSE "none"
  BY ReadingTransit, ReadTyped DEF ChatTyped, serverVars
<1>2. ASSUME NEW r \in Runs, phase[r] = "over", Listed(r)'
      PROVE  snap'.runs[r] \in Ended \cup {"running"}
  <2>1. status[r] # "none" /\ status[r] \in Statuses
    BY <1>2 DEF ChatTyped, ServerInv, ServerTyped, ServerSound, RunSound
  <2>2. Listed(r)
    BY <1>1, <1>2 DEF Listed
  <2>3. QED
    BY <1>1, <2>1, <2>2 DEF Statuses
<1>3. ASSUME NEW r \in Runs, phase[r] = "over", Listed(r)'
      PROVE  \E m \in Coming' \cup InFlight' : WillTell(m, r)'
  <2>1. PICK m : m = snap'
    OBVIOUS
  <2>2. m.msg = "read" /\ m.runs[r] \in Ended \cup {"running"} /\ m \in InFlight'
    BY <1>1, <1>2, <1>3, <2>1
  <2>3. WillTell(m, r)'
    BY <2>2 DEF WillTell, Ends, Tells
  <2>4. QED
    BY <2>2, <2>3
<1>4. QED
  BY <1>1, <1>3 DEF EndComes, WillTell

\* Judging and writing a history keeps the ends it tells, and adds those it was to judge.
LEMMA ReadingTells ==
    ASSUME ChatTyped, SnapshotJudge \/ SnapshotWrite, NEW r \in Runs, ~Active(r), WillTell(snap, r)
    PROVE  \E m \in InFlight' : WillTell(m, r)'
<1>1. PICK m : m = snap'
  OBVIOUS
<1>2. m \in InFlight'
  BY <1>1, ReadingTransit
<1>3. CASE SnapshotJudge
  <2>1. /\ snap'.msg = "judged" /\ snap.msg = "read"
        /\ snap'.runs[r] = IF snap.runs[r] = "running" /\ ~Active(r) THEN "interrupted" ELSE snap.runs[r]
    BY <1>3, TypedWire, JudgeTyped
  <2>2. snap.runs[r] \in Ended \cup {"running"}
    BY <2>1 DEF WillTell, Ends, Tells
  <2>3. m.msg = "judged" /\ m.runs[r] \in Ended
    BY <1>1, <2>1, <2>2 DEF Ended
  <2>4. WillTell(m, r)'
    BY <2>3 DEF WillTell, Ends, Tells
  <2>5. QED
    BY <1>2, <2>4
<1>4. CASE SnapshotWrite
  <2>1. snap'.msg = "history" /\ snap.msg = "judged" /\ snap'.runs[r] = Tells(snap, r)
    BY <1>4, TypedWire, WriteTyped DEF ChatTyped
  <2>2. Tells(snap, r).status \in Ended
    BY <2>1 DEF WillTell, Ends
  <2>3. m.msg = "history" /\ m.runs[r].status \in Ended
    BY <1>1, <2>1, <2>2
  <2>4. WillTell(m, r)'
    BY <2>3 DEF WillTell, Ends, Tells
  <2>5. QED
    BY <1>2, <2>4
<1>5. QED
  BY <1>3, <1>4

\* A run is over when its last message is published.
LEMMA OverPublishes ==
    ASSUME TypeOK, Next, ~Restart, NEW r \in Runs, phase[r] # "over", phase'[r] = "over"
    PROVE  FinishPublish(r)
<1> USE DEF TypeOK
<1>1. ASSUME NEW q \in Runs, RunTask(q) PROVE FinishPublish(r)
  <2>1. CASE Register(q) \/ AdmitFails(q) \/ Complete(q) \/ GiveUp(q) \/ Finish(q) \/ FinishFails(q)
    BY <2>1 DEF Register, AdmitFails, Complete, GiveUp, Finish, FinishFails
  <2>2. CASE EmitPublish(q)
    BY <2>2 DEF EmitPublish
  <2>3. CASE FinishReturns(q) \/ FinishPublish(q)
    BY <2>3 DEF FinishReturns, FinishPublish, Left
  <2>4. QED
    BY <1>1, <2>1, <2>2, <2>3 DEF RunTask
<1>2. ASSUME NEW q \in Runs PROVE ~RunStep(q)
  BY DEF RunStep, AdmitElsewhere, Admitted, CancelElsewhere, Cancelled, SnapshotElsewhere, EmitCommit
<1>3. ~(SendTask \/ ReceiveResync \/ PageTask)
  BY DEF SendTask, PageTask, Authenticate, SnapshotRead, SnapshotJudge, SnapshotWrite, SnapshotSend, SendNext,
         ReceiveResync, OnMessage, Connect, AfterRefusal, serverVars
<1>4. ~(SendMessage \/ StartRequest \/ CancelRun \/ CancelRequest)
  BY DEF StartRequest, CancelRequest, SendMessage, StartArrives, Admitted, StartAnswered, StartFailed, CancelRun,
         CancelArrives, Cancelled, CancelReturns, CancelAnswered, CancelFailed, serverVars
<1>5. ~(OnClose \/ OnRefused \/ Reopen)
  BY DEF OnClose, OnRefused, Reopen, serverVars
<1>6. QED
  BY <1>1, <1>2, <1>3, <1>4, <1>5 DEF Next

\* Until the page takes one, no message is lost that is not made up for.
LEMMA MessagesRemain ==
    ASSUME ChatTyped, Next, sock = "live", ~HistoryOwed', ~OnMessage, ~Authenticate, ~ReceiveResync,
           ~(SnapshotRead \/ SnapshotJudge \/ SnapshotWrite),
           ~(OnClose \/ OnRefused \/ Reopen \/ Restart)
    PROVE  Coming \subseteq Coming' /\ InFlight' = InFlight
<1>1. CASE UNCHANGED <<queue, snap, down>>
  BY <1>1, SameTransit
<1>2. CASE SnapshotSend \/ SendNext
  BY <1>2, SendTransit, NextTransit
<1>3. ASSUME NEW r \in Runs, EmitPublish(r) \/ FinishPublish(r) PROVE Coming \subseteq Coming' /\ InFlight' = InFlight
  <2>1. PICK e \in Events \cup {Resync} : Published(e)
    BY <1>3, EventPublished DEF EmitPublish, FinishPublish, ChatTyped
  <2>2. UNCHANGED <<snap, down>> /\ Resync \notin Waiting'
    BY <1>3 DEF EmitPublish, FinishPublish, HistoryOwed
  <2>3. QED
    BY <2>1, <2>2, PublishTransit
<1>4. QED
  BY <1>1, <1>2, <1>3, OffTheWire DEF SendTask

\* The last message of a run tells its end, or a history is owed.
LEMMA EndPublished ==
    ASSUME ChatTyped, NEW r \in Runs, FinishPublish(r), sock = "live", ~HistoryOwed'
    PROVE  \E m \in Coming' : Ends(m, r)'
<1>1. UNCHANGED <<log, status, snap, down, terminal>> /\ Resync \notin Waiting'
  BY DEF FinishPublish, HistoryOwed, viewVars
<1>2. ~Published(Resync)
  BY <1>1, PublishTransit
<1>3. phase[r] = "finished" /\ Published(Event(r, Len(log[r])))
  BY <1>2 DEF FinishPublish
<1>4. PICK e : e = Event(r, Len(log[r]))
  OBVIOUS
<1>5. e \in Events /\ e.msg = "event" /\ e.run = r /\ e.index = Len(log[r])
  BY <1>3, <1>4, EventPublished, MessagesApart DEF ChatTyped
<1>6. log[r][Len(log[r])] \in Outcomes
  <2>1. Finished(r)
    BY <1>3 DEF ChatTyped, ServerInv, ServerSound, RunSound
  <2>2. QED
    BY <2>1, EndSound DEF ChatTyped
<1>7. e \in Coming'
  BY <1>1, <1>3, <1>4, <1>5, PublishTransit
<1>8. Ends(e, r)'
  BY <1>1, <1>5, <1>6 DEF Ends
<1>9. QED
  BY <1>7, <1>8

\* A step of a page that is owed nothing keeps every announced end known or coming.
LEMMA EndComesStep ==
    ASSUME ChatTyped, Next, sock = "live", ~HistoryOwed',
           ~SnapshotRead, ~Authenticate, ~ReceiveResync, ~(OnClose \/ OnRefused \/ Reopen \/ Restart),
           NEW r \in Runs, EndComes(r)
    PROVE  EndComes(r)'
<1>1. SUFFICES ASSUME phase'[r] = "over", Listed(r)'
               PROVE  r \in terminal' \/ \E m \in Coming' \cup InFlight' : WillTell(m, r)'
  BY DEF EndComes, WillTell
<1>g. Grows
  BY ServerStep DEF ChatTyped, ServerKept
<1>2. CASE phase[r] # "over"
  <2>1. FinishPublish(r)
    BY <1>1, <1>2, OverPublishes DEF ChatTyped
  <2>2. PICK m \in Coming' : Ends(m, r)'
    BY <2>1, EndPublished
  <2>3. QED
    BY <2>2 DEF WillTell
<1>3. CASE phase[r] = "over" /\ r \in terminal
  <2>1. CASE UNCHANGED terminal
    BY <1>3, <2>1
  <2>2. CASE OnMessage
    BY <1>3, <2>2, OnMessageTakes, TakeHistorySays, TakeEventSays DEF ChatTyped, viewVars
  <2>3. QED
    BY <2>1, <2>2, OffThePage DEF viewVars
<1>4. CASE phase[r] = "over" /\ r \notin terminal
  <2>1. PICK m \in Coming \cup InFlight : WillTell(m, r)
    BY <1>1, <1>4, <1>g, OmittedKept DEF EndComes, WillTell
  <2>2. WillTell(m, r)'
    <3>1. Ends(m, r)' <=> Ends(m, r)
      BY <1>g, EndsKept
    <3>2. QED
      BY <2>1, <3>1 DEF WillTell
  <2>3. CASE OnMessage /\ m # Head(down)
    <3>1. m \in Coming' \cup InFlight'
      BY <2>1, <2>3, TakeTransit
    <3>2. QED
      BY <2>2, <3>1
  <2>4. CASE OnMessage /\ m = Head(down)
    <3>1. CASE m \in InFlight /\ m.msg = "history" /\ TakeHistory(m.runs)
      <4>1. Ends(m, r)
        BY <2>1, <3>1 DEF WillTell
      <4>2. r \in terminal'
        BY <3>1, <4>1, TakeHistorySays DEF ChatTyped
      <4>3. QED
        BY <4>2
    <3>2. CASE m \in Coming /\ m.msg = "event" /\ TakeEvent(m.run, m.index)
               /\ m.run \in Runs /\ m.index \in 1..Len(log[m.run])
      <4>1. m.run = r /\ log[r][m.index] \in Outcomes
        BY <2>1, <3>2 DEF WillTell, Ends
      <4>2. r \in terminal'
        BY <1>4, <3>2, <4>1, TakeEventSays DEF ChatTyped
      <4>3. QED
        BY <4>2
    <3>3. QED
      BY <2>4, <3>1, <3>2, OnMessageTakes DEF ChatTyped
  <2>5. CASE SnapshotJudge \/ SnapshotWrite
    <3>1. CASE m = snap
      <4>1. ~Active(r)
        BY <1>4 DEF Active
      <4>2. QED
        BY <2>1, <2>5, <3>1, <4>1, ReadingTells
    <3>2. CASE m # snap
      BY <2>1, <2>2, <2>5, <3>2, ReadingTransit
    <3>3. QED
      BY <3>1, <3>2
  <2>6. CASE ~OnMessage /\ ~SnapshotJudge /\ ~SnapshotWrite
    BY <2>1, <2>2, <2>6, MessagesRemain
  <2>7. QED
    BY <2>3, <2>4, <2>5, <2>6
<1>5. QED
  BY <1>2, <1>3, <1>4

\* A request of the page is over when it is answered, or the page is left.
LEMMA PostOver ==
    ASSUME TypeOK, Next, ~Reopen, ~StartAnswered, ~StartFailed, post' = NoPost
    PROVE  post = NoPost
<1>1. ASSUME NEW r \in Runs, RunTask(r) \/ RunStep(r) PROVE post' = NoPost <=> post = NoPost
  BY <1>1, RunAnswers
<1>2. SendTask \/ ReceiveResync \/ PageTask => UNCHANGED post
  BY DEF SendTask, PageTask, Authenticate, SnapshotRead, SnapshotJudge, SnapshotWrite, SnapshotSend, SendNext,
         ReceiveResync, OnMessage, Connect, AfterRefusal, userVars
<1>3. ~SendMessage /\ ~StartArrives
  BY DEF SendMessage, StartArrives, NoPost
<1>4. CancelRun \/ CancelRequest => UNCHANGED post
  BY DEF CancelRun, CancelRequest, CancelArrives, CancelReturns, CancelAnswered, CancelFailed
<1>5. OnClose \/ OnRefused => UNCHANGED post
  BY DEF OnClose, OnRefused
<1>6. Restart => post = NoPost
  BY DEF Restart, NoPost, TypeOK
<1>7. QED
  BY <1>1, <1>2, <1>3, <1>4, <1>5, <1>6 DEF Next, StartRequest

\* A step of a page that is owed nothing keeps its composer right, or a history on its way.
LEMMA ComposerStep ==
    ASSUME ChatTyped, HistoriesInOrder, Next, sock = "live", ~HistoryOwed', ComposerFollows,
           ~SnapshotRead,
           ~(OnClose \/ OnRefused \/ Reopen \/ Restart \/ Authenticate \/ ReceiveResync
               \/ AfterRefusal \/ StartAnswered \/ CancelAnswered)
    PROVE  ComposerFollows'
<1>0. SUFFICES ASSUME InFlight' = {}
               PROVE  /\ isBuilding' /\ post' = NoPost => runId' # None
                      /\ runId' \notin terminal'
  BY DEF ComposerFollows
<1>a. ~SnapshotJudge /\ ~SnapshotWrite
  BY <1>0, ReadingTransit
<1>b. runId \in Runs \cup {None} /\ None \notin Runs
  BY DEF ChatTyped, TypeOK, Runs, None
<1>c. terminal' \subseteq Runs
  BY ViewTypedStep DEF ChatTyped, ViewTyped
<1>1. CASE OnMessage
  <2> DEFINE m == Head(down)
  <2>1. \/ m \in InFlight /\ m.msg = "history" /\ TakeHistory(m.runs)
        \/ /\ m \in Coming /\ m.msg = "event" /\ TakeEvent(m.run, m.index)
           /\ m.run \in Runs /\ m.index \in 1..Len(log[m.run])
    BY <1>1, OnMessageTakes DEF ChatTyped
  <2>2. UNCHANGED post /\ InFlight \subseteq {m}
    BY <1>0, <1>1, TakeTransit DEF OnMessage, userVars
  <2> HIDE DEF m
  <2>3. CASE m \in InFlight /\ m.msg = "history" /\ TakeHistory(m.runs)
    <3>1. /\ terminal' = terminal \cup {r \in Runs : Ends(m, r)}
          /\ runId' # None => runId' \in Runs /\ Tells(m, runId').status = "running"
          /\ isBuilding' => runId' # None
      BY <2>3, TakeHistorySays DEF ChatTyped
    <3>2. \A r \in Runs : Tells(m, r).status = "running" => ~Ends(m, r) /\ ~Omits(m, r)
      BY <2>3 DEF Ends, Omits, Ended, Outcomes
    <3>3. \A r \in Runs : r \in terminal /\ ~Omits(m, r) => Ends(m, r)
      BY <2>3 DEF HistoriesInOrder, Known
    <3>4. runId' # None => runId' \notin terminal'
      BY <3>1, <3>2, <3>3
    <3>5. QED
      BY <1>b, <1>c, <3>1, <3>4
  <2>4. CASE m \in Coming /\ m.msg = "event" /\ TakeEvent(m.run, m.index)
             /\ m.run \in Runs /\ m.index \in 1..Len(log[m.run])
    <3>1. m \notin InFlight
      BY <2>4 DEF InFlight
    <3>2. /\ isBuilding /\ post = NoPost => runId # None
          /\ runId \notin terminal
      BY <2>2, <3>1 DEF ComposerFollows
    <3>3. CASE m.run \in terminal
      <4>1. UNCHANGED viewVars
        BY <2>4, <3>3, TakeEventSays DEF ChatTyped
      <4>2. QED
        BY <2>2, <3>2, <4>1 DEF viewVars
    <3>4. CASE m.run \notin terminal
      <4>1. /\ m.run \in terminal' <=> log[m.run][m.index] \in Outcomes
            /\ log[m.run][m.index] \in Outcomes => runId' = None /\ ~isBuilding'
            /\ log[m.run][m.index] \notin Outcomes =>
                 runId' = m.run \/ (runId' = runId /\ isBuilding' = isBuilding)
            /\ \A q \in Runs : q # m.run => (q \in terminal' <=> q \in terminal)
        BY <2>4, <3>4, TakeEventSays DEF ChatTyped
      <4>2. m.run # None
        BY <1>b, <2>4
      <4>3. QED
        BY <1>b, <1>c, <2>2, <2>4, <3>2, <4>1, <4>2
    <3>5. QED
      BY <3>3, <3>4
  <2>5. QED
    BY <2>1, <2>3, <2>4
<1>2. CASE ~OnMessage
  <2>1. InFlight = {}
    BY <1>0, <1>2, <1>a, MessagesRemain
  <2>2. /\ isBuilding /\ post = NoPost => runId # None
        /\ runId \notin terminal
    BY <2>1 DEF ComposerFollows
  <2>3. UNCHANGED <<terminal, runId>>
    BY <1>2, OffThePage DEF viewVars, SendMessage, StartFailed
  <2>4. isBuilding' /\ post' = NoPost => isBuilding /\ post = NoPost
    <3>1. CASE UNCHANGED viewVars
      <4>1. CASE StartFailed
        BY <3>1, <4>1 DEF StartFailed, viewVars
      <4>2. CASE ~StartFailed
        BY <3>1, <4>2, PostOver DEF viewVars, ChatTyped
      <4>3. QED
        BY <4>1, <4>2
    <3>2. CASE SendMessage \/ StartFailed
      BY <3>2 DEF SendMessage, StartFailed, NoPost
    <3>3. QED
      BY <1>2, <3>1, <3>2, OffThePage
  <2>5. QED
    BY <2>2, <2>3, <2>4
<1>3. QED
  BY <1>1, <1>2

\* Every step keeps an open page up to date, or owes it a history.
LEMMA LiveStep ==
    ASSUME ChatTyped, HistoriesInOrder, Disconnected, LiveFollows, Next
    PROVE  LiveFollows'
<1>1. SUFFICES ASSUME sock' = "live", ~HistoryOwed'
               PROVE  ComposerFollows' /\ \A r \in Runs : EndComes(r)'
  BY DEF LiveFollows
<1>2. CASE SnapshotRead
  BY <1>2, ReadTells DEF ComposerFollows
<1>3. CASE ~SnapshotRead
  <2>1. /\ sock = "live" /\ ~HistoryOwed
        /\ ~(OnClose \/ OnRefused \/ Reopen \/ Restart \/ Authenticate \/ ReceiveResync
               \/ AfterRefusal \/ StartAnswered \/ CancelAnswered)
    BY <1>1, <1>3, OwedBefore
  <2>2. ComposerFollows /\ \A r \in Runs : EndComes(r)
    BY <2>1 DEF LiveFollows
  <2>3. ComposerFollows'
    BY <1>1, <1>3, <2>1, <2>2, ComposerStep
  <2>4. \A r \in Runs : EndComes(r)'
    BY <1>1, <1>3, <2>1, <2>2, EndComesStep
  <2>5. QED
    BY <2>3, <2>4
<1>4. QED
  BY <1>2, <1>3

----------------------------------------------------------------------------
(* The theorems.                                                           *)

\* The parts of the invariant, as the steps above use them.
LEMMA InvParts ==
    ChatInv <=> /\ ChatTyped /\ AsksCounted /\ CardsSound /\ HistoriesInOrder /\ Disconnected /\ LiveFollows
<1>1. TypeOK => ServerTyped
  BY DEF TypeOK, ServerTyped
<1>2. QED
  BY <1>1 DEF ChatInv, ChatTyped, ServerInv, ServerSound, CardsSound

\* A server without runs and a page that is not connected.
LEMMA InitInv == Init => ChatInv
<1> SUFFICES ASSUME Init PROVE ChatInv
  OBVIOUS
<1> USE ChatAssumption
<1>1. /\ Coming = {} /\ InFlight = {} /\ Waiting = {} /\ Sent = {}
      /\ sock # "live" /\ Len(down) = 0
  <2>1. Range(<<>>) = {}
    BY DEF Range
  <2>2. Idle.msg \notin {"read", "judged", "history"}
    BY MessagesApart
  <2>3. QED
    BY <2>1, <2>2 DEF Init, Coming, InFlight, Waiting, Sent
<1>2. TypeOK
  <2>1. NoCard \in Cards
    BY DEF NoCard, Cards, Statuses
  <2>2. NoPost \in Posts /\ NoStop \in Stops
    BY StopsApart
  <2>3. Len(queue) <= QueueSize /\ Len(down) <= MaxFlight
        /\ up \in 0..MaxPosts /\ posts \in 0..MaxPosts /\ faults \in 0..MaxFaults
    BY DEF Init
  <2>4. queue \in Seq(Events \cup {Resync}) /\ down \in Seq(Events \cup Histories)
    BY DEF Init
  <2>5. /\ emitted \in [Runs -> 0..MaxEvents] /\ log \in [Runs -> Seq(Kinds)]
        /\ status \in [Runs -> Statuses] /\ phase \in [Runs -> Phases] /\ cancelling \subseteq Runs
    BY DEF Init, Statuses, Phases
  <2>6. QED
    BY <2>1, <2>2, <2>3, <2>4, <2>5 DEF Init, TypeOK, Posts, Stops
<1>3. AsksCounted
  BY DEF Init, AsksCounted
<1>4. \A r \in Runs : RunSound(r) /\ RunEndsWell(r)
  <2> SUFFICES ASSUME NEW r \in Runs PROVE RunSound(r) /\ RunEndsWell(r)
    OBVIOUS
  <2>1. log[r] = <<>> /\ status[r] = "none" /\ phase[r] = "none" /\ emitted[r] = 0
    BY DEF Init
  <2>2. Len(log[r]) = 0 /\ 1..Len(log[r]) = {} /\ ~Finished(r)
    BY <2>1 DEF Finished
  <2>3. QED
    BY <2>1, <2>2 DEF RunSound, RunEndsWell, Outcomes
<1>5. \A r \in Runs : CardSound(r)
  BY DEF Init, CardSound, NoCard, Ended, Outcomes
<1>6. MessagesSound /\ HistoriesInOrder
  <2>1. 1..Len(down) = {}
    BY <1>1
  <2>2. QED
    BY <1>1, <2>1 DEF MessagesSound, HistoriesInOrder
<1>7. Disconnected /\ LiveFollows
  BY <1>1 DEF Init, Disconnected, LiveFollows
<1>8. QED
  BY <1>2, <1>3, <1>4, <1>5, <1>6, <1>7 DEF ChatInv

\* A step that changes nothing keeps everything.
LEMMA Stutter == ChatInv /\ UNCHANGED vars => ChatInv'
<1> SUFFICES ASSUME ChatInv, UNCHANGED vars PROVE ChatInv'
  OBVIOUS
<1> USE DEF vars, serverVars, wireVars, viewVars, userVars
<1>1. TypeOK' /\ AsksCounted' /\ Disconnected'
  BY DEF ChatInv, TypeOK, AsksCounted, Disconnected
<1>2. \A r \in Runs : (RunSound(r) /\ RunEndsWell(r) /\ CardSound(r))'
  BY DEF ChatInv, RunSound, RunEndsWell, CardSound, EndedAs, Finished, Listed
<1>3. Coming' = Coming /\ InFlight' = InFlight /\ Sent' = Sent /\ Waiting' = Waiting
  BY SameTransit
<1>4. MessagesSound'
  BY <1>3 DEF ChatInv, MessagesSound, Tells, EndedAs, Finished
<1>5. HistoriesInOrder'
  BY <1>3 DEF ChatInv, HistoriesInOrder, Known, Newer, Reaches, Ends, Tells, Omits, Listed, HasRow
<1>6. LiveFollows'
  BY <1>3 DEF ChatInv, LiveFollows, HistoryOwed, ComposerFollows, EndComes, Ends, Tells, Listed
<1>7. QED
  BY <1>1, <1>2, <1>4, <1>5, <1>6 DEF ChatInv

\* Every step keeps the invariant: its parts, one lemma each.
LEMMA NextKeepsInv == ChatInv /\ Next => ChatInv'
<1> SUFFICES ASSUME ChatInv, Next PROVE ChatInv'
  OBVIOUS
<1>1. ChatTyped /\ AsksCounted /\ CardsSound /\ HistoriesInOrder /\ Disconnected /\ LiveFollows
  BY InvParts
<1>2. TypeOK' /\ AsksCounted'
  BY <1>1, TypeStep DEF ChatTyped
<1>3. ServerSound'
  BY <1>1, ServerStep DEF ChatTyped, ServerKept, ServerInv
<1>4. MessagesSound'
  BY <1>1, MessagesSoundStep
<1>5. HistoriesInOrder'
  BY <1>1, OrderStep
<1>6. CardsSound'
  BY <1>1, CardsStep
<1>7. Disconnected'
  BY <1>1, DisconnectedStep DEF ChatTyped
<1>8. LiveFollows'
  BY <1>1, LiveStep
<1>9. QED
  BY <1>2, <1>3, <1>4, <1>5, <1>6, <1>7, <1>8 DEF ChatInv, ServerSound, CardsSound

\* What the server, the wire and the page know of each other in every state, however the
\* steps of admit(), cancel(), finish() and snapshot() fall between each other.
THEOREM ChatViewInvariant == Spec => []ChatInv
<1>1. ChatInv /\ [Next]_vars => ChatInv'
  BY NextKeepsInv, Stutter
<1>2. QED
  BY InitInv, <1>1, PTL DEF Spec

\* Without a fault no run leaves self.active (src/agent/service.py) without its terminal
\* row, its last, but one that a snapshot() interrupted: whatever emit() was cut off from
\* remembering, and wherever cancel() meets finish().
THEOREM CutOutcomeKept == Spec => []CutKeepsOutcome
<1>1. ChatInv => CutKeepsOutcome
  <2> SUFFICES ASSUME ChatInv PROVE CutKeepsOutcome
    OBVIOUS
  <2>1. ServerInv
    BY InvParts DEF ChatTyped
  <2>2. ASSUME NEW r \in Runs, Finished(r)
        PROVE  status[r] \in {log[r][Len(log[r])], "interrupted"}
    <3>1. status[r] \in Ended /\ EndedAs(r) = log[r][Len(log[r])]
      BY <2>1, <2>2, EndSound
    <3>2. status[r] \in Outcomes => status[r] = EndedAs(r)
      BY DEF ChatInv, RunSound
    <3>3. QED
      BY <3>1, <3>2 DEF Ended
  <2>3. TypeOK /\ \A r \in Runs : RunSound(r) /\ RunEndsWell(r)
    BY DEF ChatInv
  <2>4. QED
    BY <2>2, <2>3 DEF RunEndsWell, RunSound, CutKeepsOutcome
<1>2. QED
  BY ChatViewInvariant, <1>1, PTL

\* When nothing is on its way between the server and the page, an end the page shows is the
\* one on record, a run whose end was announced is shown ended, and the composer waits
\* only for one that ended unannounced, whatever publish() dropped and applyRunEvent() saw twice.
THEOREM QuietViewRight == Spec => []QuietViewAgrees
<1>1. ChatInv => QuietViewAgrees
  <2> SUFFICES ASSUME ChatInv, Quiet
               PROVE  /\ \A r \in Runs : /\ cards[r].status \in Ended => cards[r].status = EndedAs(r)
                                         /\ phase[r] = "over" /\ Listed(r) => cards[r].status \in Ended
                      /\ isBuilding => runId # None /\ (phase[runId] = "over" => ~Listed(runId))
    BY DEF QuietViewAgrees
  <2>1. /\ sock = "live" /\ ~HistoryOwed /\ Coming = {} /\ InFlight = {} /\ post = NoPost
    <3>1. Range(<<>>) = {}
      BY DEF Range
    <3>2. QED
      BY <3>1, MessagesApart DEF Quiet, HistoryOwed, Coming, InFlight, Sent, Waiting
  <2>2. ComposerFollows /\ \A r \in Runs : EndComes(r)
    BY <2>1 DEF ChatInv, LiveFollows
  <2>3. ASSUME NEW r \in Runs, phase[r] = "over", Listed(r) PROVE r \in terminal
    BY <2>1, <2>2, <2>3 DEF EndComes
  <2>4. ASSUME NEW r \in Runs
        PROVE  /\ cards[r].status \in Ended => cards[r].status = EndedAs(r)
               /\ phase[r] = "over" /\ Listed(r) => cards[r].status \in Ended
    BY <2>3 DEF ChatInv, CardSound
  <2>5. ASSUME isBuilding PROVE runId # None /\ (phase[runId] = "over" => ~Listed(runId))
    <3>1. runId # None /\ runId \notin terminal
      BY <2>1, <2>2, <2>5 DEF ComposerFollows
    <3>2. runId \in Runs
      BY <3>1 DEF ChatInv, TypeOK
    <3>3. QED
      BY <2>3, <3>1, <3>2
  <2>6. QED
    BY <2>4, <2>5
<1>2. QED
  BY ChatViewInvariant, <1>1, PTL

\* What handleWebSocketMessage() has shown of an end or of a tool's result stays shown,
\* through replayed events and histories, until the page is left or a history of ten runs
\* no longer lists the run.
THEOREM ShownStaysTold == Spec => NeverUntold
<1> DEFINE Stays == \A r \in Runs :
              \/ cards'[r] = NoCard /\ (faults' > faults \/ ~Listed(r))
              \/ /\ cards[r].status \in Ended => cards'[r].status = cards[r].status
                 /\ cards[r].tool = "success" => cards'[r].tool = "success"
<1>1. ChatInv /\ [Next]_vars => [Stays]_vars
  <2> SUFFICES ASSUME ChatInv, Next PROVE Stays
    OBVIOUS
  <2>1. ChatTyped /\ CardsSound /\ HistoriesInOrder
    BY InvParts
  <2>2. CASE UNCHANGED cards
    BY <2>2
  <2>3. CASE OnMessage
    <3>1. \A r \in Runs : (cards'[r] = NoCard /\ ~Listed(r)) \/ Keeps(r)
      BY <2>1, <2>3, CardsTold
    <3>2. QED
      BY <3>1 DEF Keeps
  <2>4. CASE Reopen
    <3>1. faults' = faults + 1 /\ faults \in Nat
      BY <2>4, ChatAssumption DEF Reopen, ChatInv, TypeOK
    <3>2. faults' > faults
      BY <3>1
    <3>3. QED
      BY <2>4, <3>2 DEF Reopen
  <2>5. QED
    BY <2>2, <2>3, <2>4, OffThePage DEF viewVars
<1>2. QED
  BY ChatViewInvariant, <1>1, PTL DEF Spec, NeverUntold
=============================================================================
