-------------------------- MODULE RunServiceProofs --------------------------
(***************************************************************************)
(* Theorems about RunService for every set of projects, runs, previews and *)
(* operations and every limit: its state keeps its shape, and no sandbox   *)
(* is ever orphaned as long as remove() is not cut in two.                 *)
(***************************************************************************)
EXTENDS RunService, TLAPS

----------------------------------------------------------------------------
(* The single steps of SandboxRuntimes: each keeps the types, and each     *)
(* keeps RowsOwn under the condition its callers have to establish.        *)

\* What no step ever undoes: a terminated sandbox stays terminated, a used
\* operation id stays used, and a row only ever takes up an unused one.
Progress ==
    /\ \A o \in Ops : /\ sb[o] = "gone" => sb'[o] = "gone"
                      /\ sb[o] # "unused" => sb'[o] # "unused"
    /\ \A c \in Chats : row'[c].op \in {None, row[c].op} \/ sb[row'[c].op] = "unused"

\* A sandbox stays what it is, is terminated, or was alive and still is.
SandboxMoves ==
    /\ UNCHANGED <<row, handles>>
    /\ \A o \in Ops : sb'[o] \in {sb[o], "gone"} \/ (Alive(o) /\ sb'[o] \in {"running", "paused"})

\* What the steps do to the rows and the sandboxes, InsertRow apart: a row is
\* kept, with its operation, or dropped; nothing comes back from the dead.
RowsMove ==
    /\ \A d \in Chats :
         \/ row'[d] = NoRow
         \/ /\ row'[d].op = row[d].op
            /\ row'[d].sid \in {row[d].sid, row[d].op}
            /\ row'[d].state = "absent" <=> row[d].state = "absent"
    /\ \A o \in Ops : \/ sb'[o] \in {sb[o], "gone"}
                      \/ sb[o] \in {"requested", "running", "paused"} /\ sb'[o] \in {"running", "paused"}

----------------------------------------------------------------------------
(* Types.                                                                  *)

\* The absence of a row is a row of the model.
LEMMA NoRowTyped == NoRow \in RowType
BY RuntimesAssumption DEF NoRow, RowType, RowStates, Revs

\* Every update of the table writes a record of its columns.
LEMMA RowUpdateTyped ==
    ASSUME NEW x \in RowType, NEW o \in Ops \cup {None}, NEW r \in Revs
    PROVE  /\ [x EXCEPT !.state = "running"] \in RowType
           /\ [x EXCEPT !.state = "paused"] \in RowType
           /\ [x EXCEPT !.sid = o, !.state = "running"] \in RowType
           /\ [x EXCEPT !.reusable = FALSE] \in RowType
           /\ [x EXCEPT !.state = "retiring", !.reusable = FALSE] \in RowType
           /\ [x EXCEPT !.reusable = TRUE, !.rev = r] \in RowType
BY DEF RowType, RowStates

\* The writes of sandbox_runtime.py that take an operation or a revision keep
\* the types, whatever project they are called for.
LEMMA RowStepsTyped ==
    ASSUME RuntimesTypeOK, NEW c, NEW o \in Ops \cup {None}, NEW r \in Revs,
           \/ Remove(c, o) \/ RemoveCut(c, o) \/ RetireRemove(c, o)
           \/ CreateReturns(c, o) \/ CreateRejected(o) \/ RegisterSandbox(c, o)
           \/ StateMissing(c, o) \/ StateRunning(c, o) \/ StatePaused(c, o)
           \/ ReserveResume(c, o) \/ ConnectReturns(c, o) \/ ConnectLost(o)
           \/ InvalidateRow(c) \/ MarkReusable(c, r) \/ PauseSandbox(c, o) \/ PauseFails(o)
           \/ MarkRetiring(c)
    PROVE  RuntimesTypeOK'
<1> USE DEF RuntimesTypeOK, SandboxStates, Change, DeleteRow, ForgetHandle
<1>1. CASE Remove(c, o) \/ RemoveCut(c, o) \/ RetireRemove(c, o) \/ StateMissing(c, o)
  BY <1>1, NoRowTyped DEF Remove, RemoveCut, RetireRemove, StateMissing
<1>2. CASE CreateReturns(c, o) \/ CreateRejected(o) \/ ConnectReturns(c, o) \/ ConnectLost(o)
  BY <1>2 DEF CreateReturns, CreateRejected, ConnectReturns, ConnectLost
<1>3. CASE c \in Chats /\ row'[c] # row[c]
  <2>1. row[c] \in RowType
    BY <1>3
  <2>2. /\ [row[c] EXCEPT !.state = "running"] \in RowType
        /\ [row[c] EXCEPT !.state = "paused"] \in RowType
        /\ [row[c] EXCEPT !.sid = o, !.state = "running"] \in RowType
    BY <2>1, RowUpdateTyped
  <2>3. /\ [row[c] EXCEPT !.reusable = FALSE] \in RowType
        /\ [row[c] EXCEPT !.state = "retiring", !.reusable = FALSE] \in RowType
        /\ [row[c] EXCEPT !.reusable = TRUE, !.rev = r] \in RowType
    BY <2>1, RowUpdateTyped
  <2>4. CASE RegisterSandbox(c, o) \/ StateRunning(c, o) \/ StatePaused(c, o) \/ ReserveResume(c, o)
    BY <1>3, <2>2, <2>4 DEF RegisterSandbox, StateRunning, StatePaused, ReserveResume
  <2>5. CASE InvalidateRow(c) \/ MarkReusable(c, r) \/ MarkRetiring(c)
    BY <1>3, <2>3, <2>5 DEF InvalidateRow, MarkReusable, MarkRetiring
  <2>6. CASE PauseSandbox(c, o) \/ PauseFails(o)
    BY <1>3, <2>2, <2>6 DEF PauseSandbox, PauseFails
  <2>7. QED
    BY <1>1, <1>2, <2>4, <2>5, <2>6
<1>4. CASE ~(c \in Chats /\ row'[c] # row[c])
  <2>1. CASE \/ RegisterSandbox(c, o) \/ StateRunning(c, o) \/ StatePaused(c, o)
             \/ ReserveResume(c, o) \/ PauseSandbox(c, o) \/ PauseFails(o)
    BY <1>4, <2>1 DEF RegisterSandbox, StateRunning, StatePaused, ReserveResume, PauseSandbox, PauseFails
  <2>2. CASE InvalidateRow(c) \/ MarkReusable(c, r) \/ MarkRetiring(c)
    BY <1>4, <2>2 DEF InvalidateRow, MarkReusable, MarkRetiring
  <2>3. QED
    BY <1>1, <1>2, <2>1, <2>2
<1>5. QED
  BY <1>3, <1>4

\* The same for the kills ...
LEMMA KillTyped ==
    ASSUME RuntimesTypeOK, NEW ids \in SUBSET Ops, Kill(ids)
    PROVE  RuntimesTypeOK'
BY RuntimesAssumption DEF RuntimesTypeOK, SandboxStates, Kill, Revs

\* ... the inserted row and the provider's own steps.
LEMMA ProviderStepsTyped ==
    ASSUME RuntimesTypeOK, NEW c, NEW o \in Ops,
           InsertRow(c, o) \/ Provision(o) \/ AutoPause(o) \/ Vanish(o)
    PROVE  RuntimesTypeOK'
<1> USE RuntimesAssumption DEF RuntimesTypeOK, SandboxStates
<1>1. CASE InsertRow(c, o)
  <2>1. [NoRow EXCEPT !.state = "creating", !.op = o] \in RowType
    BY NoRowTyped DEF RowType, RowStates
  <2>2. QED
    BY <1>1, <2>1 DEF InsertRow
<1>2. CASE Provision(o) \/ AutoPause(o) \/ Vanish(o)
  BY <1>2 DEF Provision, AutoPause, Vanish, Revs
<1>3. QED
  BY <1>1, <1>2

----------------------------------------------------------------------------
(* Ownership.                                                              *)

\* remove(), as every caller uses it: the row may go once its sandbox is gone.
LEMMA RemoveOwns ==
    ASSUME RuntimesTypeOK, RowsOwn, NEW c, NEW o \in Ops \cup {None},
           o # None => sb[o] = "gone",
           Remove(c, o) \/ StateMissing(c, o) \/ RetireRemove(c, o)
    PROVE  RowsOwn' /\ Progress
<1> USE RuntimesAssumption
    DEF RuntimesTypeOK, RowType, DeleteRow, ForgetHandle, Remove, StateMissing, RetireRemove, NoRow
<1>1. \A d \in Chats : row'[d] = row[d] \/ (d = c /\ row[d].op = o /\ row'[d] = NoRow)
  OBVIOUS
<1>2. \A d \in Chats : handles'[d] = IF d = c THEN None ELSE handles[d]
  OBVIOUS
<1>3. UNCHANGED <<sb, content>>
  OBVIOUS
<1>4. RowShape' /\ UniqueOp' /\ HandleMatchesRow'
  BY <1>1, <1>2, <1>3 DEF RowsOwn, RowShape, UniqueOp, HandleMatchesRow
<1>5. NoOrphan'
  BY <1>1, <1>3 DEF RowsOwn, RowShape, NoOrphan, Alive
<1>6. Progress
  BY <1>1, <1>3 DEF Progress
<1>7. QED
  BY <1>4, <1>5, <1>6 DEF RowsOwn

\* The ownership intent takes an operation nobody has used.
LEMMA InsertOwns ==
    ASSUME RuntimesTypeOK, RowsOwn, NEW c \in Chats, NEW o \in Ops, InsertRow(c, o)
    PROVE  /\ RowsOwn' /\ Progress
           /\ sb'[o] # "unused"
           /\ \A d \in Chats : row'[d].op = o <=> d = c
<1> USE RuntimesAssumption DEF RuntimesTypeOK, RowType, InsertRow, HasRow
<1>1. /\ row'[c] = [NoRow EXCEPT !.state = "creating", !.op = o]
      /\ \A d \in Chats \ {c} : row'[d] = row[d]
  OBVIOUS
<1>2. row'[c].op = o /\ row'[c].state = "creating" /\ row'[c].sid = None
  BY <1>1 DEF NoRow
<1>3. /\ sb[o] = "unused" /\ sb'[o] = "requested"
      /\ \A p \in Ops \ {o} : sb'[p] = sb[p]
      /\ UNCHANGED handles
  OBVIOUS
<1>4. row[c].op = None /\ handles[c] = None
  BY DEF RowsOwn, RowShape, HandleMatchesRow
<1>5. \A d \in Chats : row[d].op # o
  BY <1>3 DEF RowsOwn, RowShape
<1>6. RowShape' /\ UniqueOp' /\ HandleMatchesRow'
  BY <1>1, <1>2, <1>3, <1>4, <1>5 DEF RowsOwn, RowShape, UniqueOp, HandleMatchesRow
<1>7. NoOrphan'
  BY <1>1, <1>2, <1>3, <1>4 DEF RowsOwn, NoOrphan, Alive
<1>8. Progress
  BY <1>1, <1>2, <1>3 DEF Progress
<1>9. QED
  BY <1>1, <1>2, <1>3, <1>5, <1>6, <1>7, <1>8 DEF RowsOwn

\* The row updates never change whose row it is.
LEMMA UpdateOwns ==
    ASSUME RuntimesTypeOK, RowsOwn, NEW c \in Chats, NEW o \in Ops \cup {None}, NEW r,
           \/ RegisterSandbox(c, o) \/ StateRunning(c, o) \/ StatePaused(c, o)
           \/ ReserveResume(c, o) \/ PauseSandbox(c, o)
           \/ InvalidateRow(c) \/ MarkReusable(c, r) \/ MarkRetiring(c)
    PROVE  RowsOwn' /\ Progress
<1> USE RuntimesAssumption DEF RuntimesTypeOK, RowType, Change, ForgetHandle, HasRow
<1>1. \A d \in Chats : /\ row'[d].op = row[d].op
                       /\ row'[d].sid \in {row[d].sid, row[d].op}
                       /\ row'[d].state = "absent" <=> row[d].state = "absent"
  <2>1. CASE StateRunning(c, o) \/ ReserveResume(c, o)
    BY <2>1 DEF StateRunning, ReserveResume
  <2>2. CASE StatePaused(c, o) \/ PauseSandbox(c, o)
    BY <2>2 DEF StatePaused, PauseSandbox
  <2>3. CASE RegisterSandbox(c, o)
    BY <2>3 DEF RegisterSandbox
  <2>4. CASE InvalidateRow(c)
    BY <2>4 DEF InvalidateRow
  <2>5. CASE MarkReusable(c, r)
    BY <2>5 DEF MarkReusable
  <2>6. CASE MarkRetiring(c)
    BY <2>6 DEF MarkRetiring
  <2>7. QED
    BY <2>1, <2>2, <2>3, <2>4, <2>5, <2>6
<1>2. \A d \in Chats : handles'[d] \in {handles[d], None}
  BY DEF RegisterSandbox, StateRunning, StatePaused, ReserveResume, PauseSandbox,
         InvalidateRow, MarkReusable, MarkRetiring
<1>3. \A p \in Ops : sb'[p] = sb[p] \/ (sb[p] = "running" /\ sb'[p] = "paused")
  BY DEF RegisterSandbox, StateRunning, StatePaused, ReserveResume, PauseSandbox,
         InvalidateRow, MarkReusable, MarkRetiring
<1>4. RowShape' /\ UniqueOp' /\ HandleMatchesRow'
  BY <1>1, <1>2, <1>3 DEF RowsOwn, RowShape, UniqueOp, HandleMatchesRow
<1>5. NoOrphan'
  <2>1. \A p \in Ops : Alive(p)' => Alive(p)
    BY <1>3 DEF Alive
  <2>2. QED
    BY <1>1, <2>1 DEF RowsOwn, NoOrphan
<1>6. Progress
  BY <1>1, <1>3 DEF Progress
<1>7. QED
  BY <1>4, <1>5, <1>6 DEF RowsOwn

\* A handle is kept only for a sandbox that exists, hence for the row's own.
LEMMA HandleOwns ==
    ASSUME RuntimesTypeOK, RowsOwn, NEW c \in Chats, NEW o \in Ops,
           \A d \in Chats : row[d].op = o => d = c,
           CreateReturns(c, o) \/ ConnectReturns(c, o)
    PROVE  RowsOwn' /\ Progress
<1> USE DEF RuntimesTypeOK, CreateReturns, ConnectReturns
<1>1. row[c].op = o
  BY DEF RowsOwn, NoOrphan, Alive
<1>2. handles' = [handles EXCEPT ![c] = o] /\ UNCHANGED row
  OBVIOUS
<1>3. \A p \in Ops : sb'[p] = sb[p] \/ (sb[p] = "paused" /\ sb'[p] = "running")
  OBVIOUS
<1>4. RowShape' /\ UniqueOp' /\ HandleMatchesRow'
  BY <1>1, <1>2, <1>3 DEF RowsOwn, RowShape, UniqueOp, HandleMatchesRow, RowType
<1>5. NoOrphan'
  BY <1>2, <1>3 DEF RowsOwn, NoOrphan, Alive
<1>6. Progress
  BY <1>2, <1>3 DEF Progress
<1>7. QED
  BY <1>4, <1>5, <1>6 DEF RowsOwn

\* What only the provider sees: no sandbox comes to life without a request ...
LEMMA SandboxOwns ==
    ASSUME RuntimesTypeOK, RowsOwn, SandboxMoves
    PROVE  RowsOwn' /\ Progress
<1> USE DEF SandboxMoves
<1>1. RowShape' /\ UniqueOp' /\ HandleMatchesRow'
  BY DEF RowsOwn, RowShape, UniqueOp, HandleMatchesRow, RuntimesTypeOK, RowType, Alive
<1>2. NoOrphan'
  BY DEF RowsOwn, NoOrphan, Alive
<1>3. Progress
  BY DEF Progress, Alive
<1>4. QED
  BY <1>1, <1>2, <1>3 DEF RowsOwn

\* ... in the calls that name one operation ...
LEMMA ProviderOwns ==
    ASSUME RuntimesTypeOK, RowsOwn, NEW o \in Ops \cup {None},
           \/ CreateRejected(o) \/ ConnectLost(o) \/ PauseFails(o)
           \/ Provision(o) \/ AutoPause(o) \/ Vanish(o)
    PROVE  RowsOwn' /\ Progress
<1>1. SandboxMoves
  BY DEF SandboxMoves, CreateRejected, ConnectLost, PauseFails, Provision, AutoPause, Vanish,
         Alive, RuntimesTypeOK
<1>2. QED
  BY <1>1, SandboxOwns

\* ... and in those that kill several.
LEMMA KillOwns ==
    ASSUME RuntimesTypeOK, RowsOwn, NEW ids \in SUBSET Ops, Kill(ids)
    PROVE  RowsOwn' /\ Progress
<1>1. SandboxMoves
  BY DEF SandboxMoves, Kill
<1>2. QED
  BY <1>1, SandboxOwns

\* The content of a sandbox, a lost handle or a step elsewhere change nothing.
LEMMA QuietOwns ==
    ASSUME RuntimesTypeOK, RowsOwn, UNCHANGED <<row, sb>>,
           UNCHANGED handles \/ handles' = [c \in Chats |-> None]
    PROVE  RowsOwn' /\ Progress
<1>1. RowShape' /\ UniqueOp' /\ HandleMatchesRow'
  BY DEF RowsOwn, RowShape, UniqueOp, HandleMatchesRow
<1>2. NoOrphan'
  BY DEF RowsOwn, NoOrphan, Alive
<1>3. Progress
  BY DEF Progress
<1>4. QED
  BY <1>1, <1>2, <1>3 DEF RowsOwn

----------------------------------------------------------------------------
(* Rows.  Unlike ownership, this survives a remove() that is cut in two.   *)

\* A row that is kept keeps its operation, so the rows stay apart ...
LEMMA MovesApart ==
    ASSUME RuntimesTypeOK, RowsApart, RowsMove
    PROVE  RowsApart' /\ Progress
<1> USE RuntimesAssumption DEF RuntimesTypeOK, RowType, RowsMove, NoRow
<1>1. RowShape'
  BY DEF RowsApart, RowShape
<1>2. UniqueOp'
  BY DEF RowsApart, UniqueOp
<1>3. Progress
  BY DEF Progress
<1>4. QED
  BY <1>1, <1>2, <1>3 DEF RowsApart

\* ... and so does a new one, which takes an operation nobody has used.
LEMMA InsertApart ==
    ASSUME RuntimesTypeOK, RowsApart, NEW c \in Chats, NEW o \in Ops, InsertRow(c, o)
    PROVE  /\ RowsApart' /\ Progress
           /\ sb'[o] # "unused"
           /\ \A d \in Chats : row'[d].op = o <=> d = c
<1> USE RuntimesAssumption DEF RuntimesTypeOK, RowType, InsertRow, HasRow
<1>1. /\ row'[c].op = o /\ row'[c].state = "creating" /\ row'[c].sid = None
      /\ \A d \in Chats \ {c} : row'[d] = row[d]
  BY DEF NoRow
<1>2. /\ sb[o] = "unused" /\ sb'[o] = "requested"
      /\ \A p \in Ops \ {o} : sb'[p] = sb[p]
  OBVIOUS
<1>3. \A d \in Chats : row[d].op # o
  BY <1>2 DEF RowsApart, RowShape
<1>4. RowShape' /\ UniqueOp'
  BY <1>1, <1>2, <1>3 DEF RowsApart, RowShape, UniqueOp
<1>5. Progress
  BY <1>1, <1>2 DEF Progress
<1>6. QED
  BY <1>1, <1>2, <1>3, <1>4, <1>5 DEF RowsApart

\* The calls that write one row or name one sandbox ...
LEMMA WritesMove ==
    ASSUME RuntimesTypeOK, NEW c, NEW o, NEW r,
           \/ Remove(c, o) \/ RemoveCut(c, o) \/ RetireRemove(c, o)
           \/ CreateReturns(c, o) \/ CreateRejected(o) \/ RegisterSandbox(c, o)
           \/ StateMissing(c, o) \/ StateRunning(c, o) \/ StatePaused(c, o)
           \/ ReserveResume(c, o) \/ ConnectReturns(c, o) \/ ConnectLost(o)
           \/ InvalidateRow(c) \/ MarkReusable(c, r) \/ PauseSandbox(c, o) \/ PauseFails(o)
           \/ MarkRetiring(c)
    PROVE  RowsMove
<1> USE DEF RuntimesTypeOK, RowType, RowsMove, Change, HasRow, DeleteRow
<1>1. CASE Remove(c, o) \/ RemoveCut(c, o) \/ RetireRemove(c, o) \/ StateMissing(c, o)
  BY <1>1 DEF Remove, RemoveCut, RetireRemove, StateMissing
<1>2. CASE CreateReturns(c, o) \/ CreateRejected(o) \/ ConnectReturns(c, o) \/ ConnectLost(o) \/ PauseFails(o)
  BY <1>2 DEF CreateReturns, CreateRejected, ConnectReturns, ConnectLost, PauseFails
<1>3. CASE RegisterSandbox(c, o)
  <2>1. \A d \in Chats : row'[d] = IF d = c THEN [row[c] EXCEPT !.sid = o, !.state = "running"] ELSE row[d]
    BY <1>3 DEF RegisterSandbox
  <2>2. QED
    BY <1>3, <2>1 DEF RegisterSandbox
<1>4. CASE StateRunning(c, o) \/ ReserveResume(c, o)
  <2>1. \A d \in Chats : row'[d] = IF d = c THEN [row[c] EXCEPT !.state = "running"] ELSE row[d]
    BY <1>4 DEF StateRunning, ReserveResume
  <2>2. QED
    BY <1>4, <2>1 DEF StateRunning, ReserveResume
<1>5. CASE StatePaused(c, o) \/ PauseSandbox(c, o)
  <2>1. \A d \in Chats : row'[d] = IF d = c THEN [row[c] EXCEPT !.state = "paused"] ELSE row[d]
    BY <1>5 DEF StatePaused, PauseSandbox
  <2>2. QED
    BY <1>5, <2>1 DEF StatePaused, PauseSandbox
<1>6. CASE InvalidateRow(c)
  BY <1>6 DEF InvalidateRow
<1>7. CASE MarkReusable(c, r)
  <2>1. \A d \in Chats : row'[d] = IF d = c THEN [row[c] EXCEPT !.reusable = TRUE, !.rev = r] ELSE row[d]
    BY <1>7 DEF MarkReusable
  <2>2. QED
    BY <1>7, <2>1 DEF MarkReusable
<1>8. CASE MarkRetiring(c)
  BY <1>8 DEF MarkRetiring
<1>9. QED
  BY <1>1, <1>2, <1>3, <1>4, <1>5, <1>6, <1>7, <1>8

\* ... the kills ...
LEMMA KillMoves ==
    ASSUME RuntimesTypeOK, NEW ids \in SUBSET Ops, Kill(ids)
    PROVE  RowsMove
BY DEF RuntimesTypeOK, RowType, RowsMove, Kill

\* ... the provider's own steps ...
LEMMA ProviderMoves ==
    ASSUME RuntimesTypeOK, NEW o \in Ops, Provision(o) \/ AutoPause(o) \/ Vanish(o)
    PROVE  RowsMove
BY DEF RuntimesTypeOK, RowType, RowsMove, Provision, AutoPause, Vanish

\* ... and those that touch neither rows nor sandboxes.
LEMMA SameMoves ==
    ASSUME RuntimesTypeOK, UNCHANGED <<row, sb>>
    PROVE  RowsMove
BY DEF RuntimesTypeOK, RowType, RowsMove

----------------------------------------------------------------------------
(* The tasks.                                                              *)

JobsInv == JobsTypeOK /\ ProjectKnown

----------------------------------------------------------------------------
(* Types: what the tasks remember.                                         *)

\* retire() starts with the ids of its row and handle, and looks the operation
\* up only when there is one.
LEMMA RetireBeginTyped ==
    ASSUME TypeInv, NEW p \in Procs, NEW c \in Chats, RetireBegin(p, c)
    PROVE  /\ ret' \in [Procs -> [pc : RetPCs, op : Ops \cup {None}, ids : SUBSET Ops]]
           /\ \A q \in Procs : ret'[q].pc = "list" => ret'[q].op # None
<1> DEFINE o == row[c].op
           ids == KnownIds(c)
<1>1. ids \in SUBSET Ops /\ o \in Ops \cup {None}
  BY DEF TypeInv, TypeOK, RuntimesTypeOK, RowType, KnownIds
<1> HIDE DEF o, ids
<1>2. \E l \in RetPCs, q \in Ops \cup {None}, s \in SUBSET Ops :
         /\ l = "list" => q # None
         /\ RetireAt(p, l, q, s)
  <2>1. CASE RetireAt(p, IF ids # {} THEN "kill" ELSE IF o # None THEN "list" ELSE "remove", o, ids)
    BY <1>1, <2>1 DEF RetPCs
  <2>2. CASE Returns(p, "failed")
    BY <2>2 DEF Returns, RetPCs
  <2>3. QED
    BY <2>1, <2>2 DEF RetireBegin, o, ids
<1>3. QED
  BY <1>2 DEF RetireAt, TypeInv, TypeOK, JobsTypeOK, ProjectKnown

\* A task that moves on and keeps its locals, but for its outcome and its
\* retire() call.
LEMMA GotoTyped ==
    ASSUME TypeInv, NEW p \in Procs \ {Reaper}, NEW l \in PCs, Goto(p, l),
           p \in Jobs => l = "none" \/ pc[p] # "none",
           UNCHANGED <<chat, op, rev, base>>,
           fin' \in [Jobs -> Statuses],
           ret' \in [Procs -> [pc : RetPCs, op : Ops \cup {None}, ids : SUBSET Ops]],
           \A q \in Procs : ret'[q].pc = "list" => ret'[q].op # None
    PROVE  JobsInv'
BY ServiceAssumption DEF TypeInv, TypeOK, JobsTypeOK, ProjectKnown, Goto, Procs, Jobs, JobsInv

\* In particular a step of acquire().
LEMMA AcquireTyped ==
    ASSUME TypeInv, NEW j \in Jobs,
           AcquireInspect(j) \/ AcquireConnect(j) \/ AcquireCreate(j) \/ Replace(j) \/ Replaced(j)
    PROVE  JobsInv'
<1> j \in Procs \ {Reaper}
  BY ServiceAssumption DEF Procs
<1> USE DEF PCs, Body, Acquiring, Finally
<1>1. CASE AcquireInspect(j)
  <2>1. \E l \in PCs : Goto(j, l)
    BY <1>1 DEF AcquireInspect, Step
  <2>2. pc[j] = "inspect" /\ Quiet
    BY <1>1 DEF AcquireInspect, Step
  <2>3. QED
    BY <2>1, <2>2, GotoTyped DEF Quiet, locVars, TypeInv, TypeOK, JobsTypeOK, ProjectKnown
<1>2. CASE AcquireCreate(j)
  <2>1. \E l \in PCs : Goto(j, l)
    BY <1>2 DEF AcquireCreate, Step
  <2>2. pc[j] = "create" /\ Quiet
    BY <1>2 DEF AcquireCreate, Step
  <2>3. QED
    BY <2>1, <2>2, GotoTyped DEF Quiet, locVars, TypeInv, TypeOK, JobsTypeOK, ProjectKnown
<1>3. CASE AcquireConnect(j)
  <2>1. pc[j] = "connect" /\ \E l \in PCs : Goto(j, l)
    BY <1>3 DEF AcquireConnect, Step, Fail, AfterAcquire
  <2>2. UNCHANGED <<chat, op, rev, base, ret>>
    BY <1>3 DEF AcquireConnect, Quiet, locVars
  <2>3. fin' = fin \/ fin' = [fin EXCEPT ![j] = "failed"]
    BY <1>3 DEF AcquireConnect, Quiet, locVars, Fail
  <2>4. fin' \in [Jobs -> Statuses]
    BY <2>3 DEF TypeInv, TypeOK, JobsTypeOK, Statuses
  <2>5. QED
    BY <2>1, <2>2, <2>4, GotoTyped DEF TypeInv, TypeOK, JobsTypeOK, ProjectKnown
<1>4. CASE Replace(j)
  <2>1. chat[j] \in Chats /\ RetireBegin(j, chat[j])
    BY <1>4 DEF Replace, TypeInv, ProjectKnown
  <2>2. UNCHANGED <<pc, locVars>>
    BY <1>4 DEF Replace
  <2>3. QED
    BY <2>1, <2>2, RetireBeginTyped DEF JobsInv, TypeInv, TypeOK, JobsTypeOK, ProjectKnown, locVars
<1>5. CASE Replaced(j)
  <2>1. pc[j] = "replace" /\ \E l \in PCs : Goto(j, l)
    BY <1>5 DEF Replaced, Step, Fail
  <2>2. UNCHANGED <<chat, op, rev, base>> /\ ret' = [ret EXCEPT ![j] = IdleRet]
    BY <1>5 DEF Replaced, Answered
  <2>3. fin' = fin \/ fin' = [fin EXCEPT ![j] = "failed"]
    BY <1>5 DEF Replaced, Fail
  <2>4. fin' \in [Jobs -> Statuses]
    BY <2>3 DEF TypeInv, TypeOK, JobsTypeOK, Statuses
  <2>5. QED
    BY <2>1, <2>2, <2>4, GotoTyped DEF TypeInv, TypeOK, JobsTypeOK, ProjectKnown, IdleRet, RetPCs
<1>6. QED
  BY <1>1, <1>2, <1>3, <1>4, <1>5

\* retire_sandbox() takes the lock and starts ...
LEMMA RetireSandboxTyped ==
    ASSUME TypeInv, NEW p \in Procs, RetireSandbox(p)
    PROVE  JobsInv'
<1>1. pc[p] \in {"unwind", "unwind2"} /\ \E l \in PCs : Goto(p, l)
  BY DEF RetireSandbox, Step, PCs, Finally
<1>2. p # Reaper /\ chat[p] \in Chats
  BY <1>1 DEF TypeInv, ProjectKnown, Procs
<1>3. RetireBegin(p, chat[p]) /\ UNCHANGED locVars
  BY DEF RetireSandbox
<1>4. QED
  BY <1>1, <1>2, <1>3, RetireBeginTyped, GotoTyped DEF locVars, TypeInv, TypeOK, JobsTypeOK

\* ... and execute() goes on after it, or is cancelled.
LEMMA UnwindTyped ==
    ASSUME TypeInv, NEW r \in Runs, RunRetired(r) \/ Cancel(r)
    PROVE  JobsInv'
<1>1. r \in Jobs /\ r \in Procs \ {Reaper}
  BY ServiceAssumption DEF Procs, Jobs
<1>2. ret' = [ret EXCEPT ![r] = IdleRet] /\ UNCHANGED <<chat, op, rev, base>>
  BY DEF RunRetired, Answered, Cancel, Abandon, locVars
<1>3. fin' = fin \/ fin' = [fin EXCEPT ![r] = "cancelled"]
  BY DEF RunRetired, Cancel, locVars, Fail
<1>4. pc[r] # "none" /\ \E l \in PCs : Goto(r, l)
  <2> USE DEF PCs, Body, Acquiring, Finally
  <2>1. CASE RunRetired(r)
    BY <2>1 DEF RunRetired, Step
  <2>2. CASE Cancel(r)
    BY <2>2 DEF Cancel, Fail
  <2>3. QED
    BY <2>1, <2>2
<1>5. fin' \in [Jobs -> Statuses]
  BY <1>1, <1>3 DEF TypeInv, TypeOK, JobsTypeOK, Statuses
<1>6. /\ ret' \in [Procs -> [pc : RetPCs, op : Ops \cup {None}, ids : SUBSET Ops]]
      /\ \A q \in Procs : ret'[q].pc = "list" => ret'[q].op # None
  BY <1>1, <1>2 DEF TypeInv, TypeOK, JobsTypeOK, ProjectKnown, IdleRet, RetPCs
<1>7. QED
  BY <1>1, <1>2, <1>4, <1>5, <1>6, GotoTyped

\* maintain() visits one row.
LEMMA SweepVisitTyped ==
    ASSUME TypeInv, NEW c \in Chats, NEW doomed \in BOOLEAN, SweepVisit(c, doomed)
    PROVE  JobsInv'
<1> USE ServiceAssumption
<1>1. Reaper \in Procs /\ Reaper \notin Chats /\ Reaper \notin Jobs
  BY DEF Procs, Jobs
<1>2. \E l \in {"sweep", "retiring", "sweepstate"} : Goto(Reaper, l)
  BY DEF SweepVisit, Step
<1>3. chat' = [chat EXCEPT ![Reaper] = c] /\ UNCHANGED <<op, rev, base, fin>>
  BY DEF SweepVisit
<1>4. RetireBegin(Reaper, c) \/ UNCHANGED ret
  BY DEF SweepVisit
<1>5. /\ ret' \in [Procs -> [pc : RetPCs, op : Ops \cup {None}, ids : SUBSET Ops]]
      /\ \A q \in Procs : ret'[q].pc = "list" => ret'[q].op # None
  BY <1>1, <1>4, RetireBeginTyped DEF TypeInv, TypeOK, JobsTypeOK, ProjectKnown
<1>6. QED
  BY <1>1, <1>2, <1>3, <1>5
  DEF JobsInv, TypeInv, TypeOK, JobsTypeOK, ProjectKnown, Goto, PCs, Body, Acquiring, Finally, Procs, Jobs

\* Every step keeps what the tasks remember well typed.
LEMMA JobsStep == TypeInv /\ Next => JobsInv'
<1> SUFFICES ASSUME TypeInv, Next PROVE JobsInv'
  OBVIOUS
<1> USE ServiceAssumption, RuntimesAssumption
    DEF JobsInv, TypeInv, TypeOK, JobsTypeOK, ProjectKnown, RuntimesTypeOK, RowType, DbTypeOK,
        PCs, Body, Acquiring, Finally, RetPCs, IdleRet, Statuses, Revs, Procs, Jobs,
        Goto, Step, Quiet, Stay, Over, Fail, Answered, Returns, RetireAt, AfterAcquire, Abandon,
        locVars, jobVars, lockVars, regVars, procVars, memVars, dbVars, SaveFiles, Record
<1>1. ASSUME NEW r \in Runs, RunStep(r) PROVE JobsInv'
  <2>1. CASE AdmitCommit(r)
    BY <2>1 DEF AdmitCommit
  <2>2. CASE AdmitRegister(r)
    BY <2>2 DEF AdmitRegister
  <2>3. CASE Invalidate(r)
    BY <2>3 DEF Invalidate
  <2>4. CASE Mutate(r)
    BY <2>4 DEF Mutate
  <2>5. CASE Checkpoint(r)
    BY <2>5 DEF Checkpoint
  <2>6. CASE CheckpointLost(r)
    BY <2>6 DEF CheckpointLost
  <2>7. CASE Complete(r)
    BY <2>7 DEF Complete
  <2>8. CASE Finish(r)
    BY <2>8 DEF Finish
  <2>9. CASE FinishFails(r)
    BY <2>9 DEF FinishFails
  <2>10. CASE Pop(r)
    BY <2>10 DEF Pop
  <2>11. CASE RunRetired(r)
    BY <2>11, UnwindTyped
  <2>12. CASE Cancel(r)
    BY <2>12, UnwindTyped
  <2>13. CASE CancelFinish(r)
    BY <2>13 DEF CancelFinish
  <2>14. CASE CancelFinishFails(r)
    BY <2>14 DEF CancelFinishFails
  <2>15. CASE SnapshotJudge(r)
    BY <2>15 DEF SnapshotJudge
  <2>16. QED
    BY <1>1, <2>1, <2>2, <2>3, <2>4, <2>5, <2>6, <2>7, <2>8, <2>9, <2>10, <2>11, <2>12, <2>13, <2>14, <2>15 DEF RunStep
<1>2. ASSUME NEW j \in Opens, OpenStep(j) PROVE JobsInv'
  <2>1. CASE OpenRegister(j)
    BY <2>1 DEF OpenRegister
  <2>2. CASE OpenStart(j)
    BY <2>2 DEF OpenStart
  <2>3. CASE Probe(j)
    BY <2>3 DEF Probe
  <2>4. CASE Publish(j)
    BY <2>4 DEF Publish
  <2>5. CASE OpenRetired(j)
    BY <2>5 DEF OpenRetired
  <2>6. QED
    BY <1>2, <2>1, <2>2, <2>3, <2>4, <2>5 DEF OpenStep
<1>3. ASSUME NEW j \in Jobs, JobStep(j) PROVE JobsInv'
  <2>1. ASSUME NEW c \in Chats, AdmitLock(j, c) PROVE JobsInv'
    BY <2>1 DEF AdmitLock
  <2>2. CASE AdmitRefused(j)
    BY <2>2 DEF AdmitRefused
  <2>3. CASE ReadSource(j)
    BY <2>3 DEF ReadSource
  <2>4. ASSUME NEW current \in BOOLEAN, AcquireRead(j, current) PROVE JobsInv'
    BY <2>4 DEF AcquireRead
  <2>5. CASE AcquireInspect(j)
    BY <2>5, AcquireTyped
  <2>6. CASE AcquireResume(j)
    BY <2>6 DEF AcquireResume
  <2>7. CASE AcquireConnect(j)
    BY <2>7, AcquireTyped
  <2>8. ASSUME NEW o \in Ops, AcquireReserve(j, o) PROVE JobsInv'
    BY <2>8 DEF AcquireReserve
  <2>9. CASE AcquireCreate(j)
    BY <2>9, AcquireTyped
  <2>10. CASE AcquireRejected(j)
    BY <2>10 DEF AcquireRejected
  <2>11. CASE AcquireRegister(j)
    BY <2>11 DEF AcquireRegister
  <2>12. CASE RestoreSource(j)
    BY <2>12 DEF RestoreSource
  <2>13. CASE Replace(j)
    BY <2>13, AcquireTyped
  <2>14. CASE Replaced(j)
    BY <2>14, AcquireTyped
  <2>15. CASE JobFails(j)
    BY <2>15 DEF JobFails
  <2>16. QED
    BY ZenonT(60), <1>3, <2>1, <2>2, <2>3, <2>4, <2>5, <2>6, <2>7, <2>8, <2>9, <2>10,
       <2>11, <2>12, <2>13, <2>14, <2>15 DEF JobStep
<1>4. ASSUME NEW p \in Procs, RetireStep(p) PROVE JobsInv'
  <2>1. CASE RetireList(p)
    BY <2>1 DEF RetireList
  <2>2. CASE RetireKill(p)
    BY <2>2 DEF RetireKill
  <2>3. CASE RetireFails(p)
    BY <2>3 DEF RetireFails
  <2>4. CASE RetireEnd(p)
    BY <2>4 DEF RetireEnd
  <2>5. CASE RetireSandbox(p)
    BY <2>5, RetireSandboxTyped
  <2>6. QED
    BY <1>4, <2>1, <2>2, <2>3, <2>4, <2>5 DEF RetireStep
<1>5. ASSUME NEW c \in Chats, ProjectStep(c) PROVE JobsInv'
  <2>1. CASE DeleteProject(c)
    BY <2>1 DEF DeleteProject
  <2>2. CASE DeleteRetired(c)
    BY <2>2 DEF DeleteRetired
  <2>3. CASE DeleteTimeout(c)
    BY <2>3 DEF DeleteTimeout
  <2>4. CASE PreviewStatus(c)
    BY <2>4 DEF PreviewStatus
  <2>5. CASE SnapshotRead(c)
    BY <2>5 DEF SnapshotRead
  <2>6. CASE RecoverCheckpoint(c)
    BY <2>6 DEF RecoverCheckpoint
  <2>7. ASSUME NEW doomed \in BOOLEAN, SweepVisit(c, doomed) PROVE JobsInv'
    <3> HIDE DEF JobsInv, TypeInv
    <3> QED
      BY <2>7, SweepVisitTyped
  <2>8. QED
    BY <1>5, <2>1, <2>2, <2>3, <2>4, <2>5, <2>6, <2>7 DEF ProjectStep
<1>6. ASSUME NEW old \in SUBSET Chats, SweepBegin(old) PROVE JobsInv'
  BY <1>6 DEF SweepBegin
<1>7. ASSUME NEW old \in SUBSET Chats, Startup(old) PROVE JobsInv'
  BY <1>7 DEF Startup
<1>8. CASE SweepRetired
  BY <1>8 DEF SweepRetired
<1>9. CASE SweepState
  BY <1>9 DEF SweepState
<1>10. CASE SweepPause
  BY <1>10 DEF SweepPause
<1>11. CASE SweepEnd
  BY <1>11 DEF SweepEnd
<1>12. CASE Provider
  BY <1>12 DEF Provider
<1>13. CASE Crash
  BY <1>13 DEF Crash
<1>14. QED
  BY <1>1, <1>2, <1>3, <1>4, <1>5, <1>6, <1>7, <1>8, <1>9, <1>10, <1>11, <1>12, <1>13 DEF Next, ReaperStep

\* Every step keeps the service's registers and the tables well typed.
LEMMA ServiceStep == TypeInv /\ Next => (MemTypeOK /\ DbTypeOK)'
<1> SUFFICES ASSUME TypeInv, Next PROVE (MemTypeOK /\ DbTypeOK)'
  OBVIOUS
<1> USE ServiceAssumption, RuntimesAssumption
    DEF TypeInv, TypeOK, MemTypeOK, DbTypeOK, JobsTypeOK, ProjectKnown, Statuses, Revs, Procs, Jobs,
        Step, Goto, Quiet, Stay, Release, SaveFiles, Record, Selected, Reserved,
        locVars, jobVars, lockVars, regVars, procVars, memVars, dbVars
<1>1. ASSUME NEW r \in Runs, RunStep(r) PROVE (MemTypeOK /\ DbTypeOK)'
  <2>1. CASE AdmitCommit(r)
    BY <2>1 DEF AdmitCommit
  <2>2. CASE AdmitRegister(r)
    BY <2>2 DEF AdmitRegister
  <2>3. CASE Invalidate(r)
    BY <2>3 DEF Invalidate
  <2>4. CASE Mutate(r)
    BY <2>4 DEF Mutate
  <2>5. CASE Checkpoint(r)
    BY <2>5 DEF Checkpoint
  <2>6. CASE CheckpointLost(r)
    BY <2>6 DEF CheckpointLost
  <2>7. CASE Complete(r)
    BY <2>7 DEF Complete
  <2>8. CASE Finish(r)
    <3>1. runStatus' = runStatus \/ runStatus' = [runStatus EXCEPT ![r] = fin[r]]
      BY <2>8 DEF Finish
    <3>2. QED
      BY <2>8, <3>1 DEF Finish
  <2>9. CASE FinishFails(r)
    <3>1. runStatus' = runStatus \/ runStatus' = [runStatus EXCEPT ![r] = fin[r]]
      BY <2>9 DEF FinishFails
    <3>2. QED
      BY ZenonT(60), <2>9, <3>1 DEF FinishFails
  <2>10. CASE Pop(r)
    BY <2>10 DEF Pop
  <2>11. CASE RunRetired(r)
    BY <2>11 DEF RunRetired
  <2>12. CASE Cancel(r)
    BY <2>12 DEF Cancel
  <2>13. CASE CancelFinish(r)
    BY <2>13 DEF CancelFinish
  <2>14. CASE CancelFinishFails(r)
    BY <2>14 DEF CancelFinishFails
  <2>15. CASE SnapshotJudge(r)
    BY <2>15 DEF SnapshotJudge
  <2>16. QED
    BY <1>1, <2>1, <2>2, <2>3, <2>4, <2>5, <2>6, <2>7, <2>8, <2>9, <2>10, <2>11, <2>12, <2>13, <2>14, <2>15 DEF RunStep
<1>2. ASSUME NEW j \in Opens, OpenStep(j) PROVE (MemTypeOK /\ DbTypeOK)'
  <2>1. CASE OpenRegister(j)
    BY <2>1 DEF OpenRegister
  <2>2. CASE OpenStart(j)
    BY <2>2 DEF OpenStart
  <2>3. CASE Probe(j)
    BY <2>3 DEF Probe
  <2>4. CASE Publish(j)
    BY <2>4 DEF Publish
  <2>5. CASE OpenRetired(j)
    BY <2>5 DEF OpenRetired
  <2>6. QED
    BY <1>2, <2>1, <2>2, <2>3, <2>4, <2>5 DEF OpenStep
<1>3. ASSUME NEW j \in Jobs, JobStep(j) PROVE (MemTypeOK /\ DbTypeOK)'
  <2>1. ASSUME NEW c \in Chats, AdmitLock(j, c) PROVE (MemTypeOK /\ DbTypeOK)'
    BY <2>1 DEF AdmitLock
  <2>2. CASE AdmitRefused(j)
    BY <2>2 DEF AdmitRefused
  <2>3. CASE ReadSource(j)
    BY <2>3 DEF ReadSource
  <2>4. ASSUME NEW current \in BOOLEAN, AcquireRead(j, current) PROVE (MemTypeOK /\ DbTypeOK)'
    BY <2>4 DEF AcquireRead
  <2>5. CASE AcquireInspect(j)
    BY <2>5 DEF AcquireInspect
  <2>6. CASE AcquireResume(j)
    BY <2>6 DEF AcquireResume
  <2>7. CASE AcquireConnect(j)
    BY <2>7 DEF AcquireConnect
  <2>8. ASSUME NEW o \in Ops, AcquireReserve(j, o) PROVE (MemTypeOK /\ DbTypeOK)'
    BY <2>8 DEF AcquireReserve
  <2>9. CASE AcquireCreate(j)
    BY <2>9 DEF AcquireCreate
  <2>10. CASE AcquireRejected(j)
    BY <2>10 DEF AcquireRejected
  <2>11. CASE AcquireRegister(j)
    BY <2>11 DEF AcquireRegister
  <2>12. CASE RestoreSource(j)
    BY <2>12 DEF RestoreSource
  <2>13. CASE Replace(j)
    BY <2>13 DEF Replace
  <2>14. CASE Replaced(j)
    BY <2>14 DEF Replaced
  <2>15. CASE JobFails(j)
    BY <2>15 DEF JobFails
  <2>16. QED
    BY <1>3, <2>1, <2>2, <2>3, <2>4, <2>5, <2>6, <2>7, <2>8, <2>9, <2>10, <2>11, <2>12, <2>13, <2>14, <2>15 DEF JobStep
<1>4. ASSUME NEW p \in Procs, RetireStep(p) PROVE (MemTypeOK /\ DbTypeOK)'
  <2>1. CASE RetireList(p)
    BY <2>1 DEF RetireList
  <2>2. CASE RetireKill(p)
    BY <2>2 DEF RetireKill
  <2>3. CASE RetireFails(p)
    BY <2>3 DEF RetireFails
  <2>4. CASE RetireEnd(p)
    BY <2>4 DEF RetireEnd
  <2>5. CASE RetireSandbox(p)
    BY <2>5 DEF RetireSandbox
  <2>6. QED
    BY <1>4, <2>1, <2>2, <2>3, <2>4, <2>5 DEF RetireStep
<1>5. ASSUME NEW c \in Chats, ProjectStep(c) PROVE (MemTypeOK /\ DbTypeOK)'
  <2>1. CASE DeleteProject(c)
    BY <2>1 DEF DeleteProject
  <2>2. CASE DeleteRetired(c)
    BY <2>2 DEF DeleteRetired
  <2>3. CASE DeleteTimeout(c)
    BY <2>3 DEF DeleteTimeout
  <2>4. CASE PreviewStatus(c)
    BY <2>4 DEF PreviewStatus
  <2>5. CASE SnapshotRead(c)
    BY <2>5 DEF SnapshotRead
  <2>6. CASE RecoverCheckpoint(c)
    BY <2>6 DEF RecoverCheckpoint
  <2>7. ASSUME NEW doomed \in BOOLEAN, SweepVisit(c, doomed) PROVE (MemTypeOK /\ DbTypeOK)'
    BY <2>7 DEF SweepVisit
  <2>8. QED
    BY <1>5, <2>1, <2>2, <2>3, <2>4, <2>5, <2>6, <2>7 DEF ProjectStep
<1>6. ASSUME NEW old \in SUBSET Chats, SweepBegin(old) PROVE (MemTypeOK /\ DbTypeOK)'
  BY <1>6 DEF SweepBegin, Judged
<1>7. ASSUME NEW old \in SUBSET Chats, Startup(old) PROVE (MemTypeOK /\ DbTypeOK)'
  BY <1>7 DEF Startup, Judged
<1>8. CASE SweepRetired
  BY <1>8 DEF SweepRetired
<1>9. CASE SweepState
  BY <1>9 DEF SweepState
<1>10. CASE SweepPause
  BY <1>10 DEF SweepPause
<1>11. CASE SweepEnd
  BY <1>11 DEF SweepEnd
<1>12. CASE Provider
  BY <1>12 DEF Provider
<1>13. CASE Crash
  BY <1>13 DEF Crash
<1>14. QED
  BY <1>1, <1>2, <1>3, <1>4, <1>5, <1>6, <1>7, <1>8, <1>9, <1>10, <1>11, <1>12, <1>13 DEF Next, ReaperStep

----------------------------------------------------------------------------
(* Types: the runtimes.                                                    *)

\* A step that leaves the runtimes alone keeps their types.
LEMMA SameTyped == RuntimesTypeOK /\ UNCHANGED rtVars => RuntimesTypeOK'
BY DEF RuntimesTypeOK, rtVars

\* Revision 0 serves where a lemma about the rows wants some revision.
LEMMA SomeRev == 0 \in Revs
BY RuntimesAssumption DEF Revs

\* The source tree inside a sandbox is a revision or Dirty.
LEMMA ContentTyped ==
    ASSUME RuntimesTypeOK, NEW o, NEW x \in Revs \cup {Dirty},
           content' = [content EXCEPT ![o] = x], UNCHANGED <<row, handles, sb>>
    PROVE  RuntimesTypeOK'
BY DEF RuntimesTypeOK

\* retire() marks the row, or fails before that.
LEMMA RetireBeginRows ==
    ASSUME RuntimesTypeOK, NEW p, NEW c, RetireBegin(p, c)
    PROVE  RuntimesTypeOK'
<1>1. CASE MarkRetiring(c)
  BY <1>1, SomeRev, RowStepsTyped
<1>2. CASE UNCHANGED rtVars
  BY <1>2, SameTyped
<1>3. QED
  BY <1>1, <1>2 DEF RetireBegin

\* An interrupted retire() leaves well-typed rows ...
LEMMA RetireLeftTyped ==
    ASSUME TypeInv, NEW p \in Procs, RetireLeft(p)
    PROVE  RuntimesTypeOK'
<1>1. ret[p].op \in Ops \cup {None} /\ ret[p].ids \in SUBSET Ops /\ RuntimesTypeOK
  BY DEF TypeInv, TypeOK, JobsTypeOK
<1>2. CASE UNCHANGED rtVars
  BY <1>1, <1>2, SameTyped
<1>3. ASSUME NEW ids \in SUBSET ret[p].ids, Kill(ids) PROVE RuntimesTypeOK'
  BY <1>1, <1>3, KillTyped
<1>4. CASE RemoveCut(chat[p], ret[p].op)
  BY <1>1, <1>4, SomeRev, RowStepsTyped
<1>5. QED
  BY <1>2, <1>3, <1>4 DEF RetireLeft

\* ... and so does an abandoned task.
LEMMA AbandonTyped ==
    ASSUME TypeInv, NEW p \in Procs, p \in Jobs \/ pc[p] \in {"unwind", "retiring"}, Abandon(p)
    PROVE  RuntimesTypeOK'
<1>1. CASE RetireLeft(p)
  BY <1>1, RetireLeftTyped
<1>2. CASE pc[p] \in {"rejected", "inspect"} /\ RemoveCut(chat[p], op[p])
  <2>1. op[p] \in Ops \cup {None}
    BY <1>2 DEF TypeInv, TypeOK, JobsTypeOK
  <2>2. QED
    BY <1>2, <2>1, SomeRev, RowStepsTyped DEF TypeInv, TypeOK
<1>3. CASE content' = [content EXCEPT ![op[p]] = Dirty] /\ UNCHANGED <<row, handles, sb>>
  BY <1>3, ContentTyped DEF TypeInv, TypeOK
<1>4. QED
  BY <1>1, <1>2, <1>3 DEF Abandon

\* finish() hands over a revision the run has saved.
LEMMA RecordTyped ==
    ASSUME TypeInv, NEW r \in Runs, Record(r)
    PROVE  RuntimesTypeOK'
<1>1. rev[r] \in Revs /\ RuntimesTypeOK
  BY DEF TypeInv, TypeOK, JobsTypeOK, Jobs
<1>2. CASE MarkReusable(chat[r], rev[r])
  BY <1>1, <1>2, RowStepsTyped
<1>3. CASE UNCHANGED rtVars
  BY <1>1, <1>3, SameTyped
<1>4. QED
  BY <1>2, <1>3 DEF Record

\* The sweep of maintain() asks for the state of a row and pauses its sandbox.
LEMMA SweepRows ==
    ASSUME TypeInv, SweepState \/ SweepPause
    PROVE  RuntimesTypeOK'
<1> DEFINE c == chat[Reaper]
           o == row[c].sid
<1>1. c \in Chats
  BY DEF SweepState, SweepPause, Step, TypeInv, ProjectKnown
<1>2. o \in Ops \cup {None} /\ RuntimesTypeOK
  BY <1>1 DEF TypeInv, TypeOK, RuntimesTypeOK, RowType
<1> HIDE DEF c, o
<1>3. CASE StateMissing(c, o) \/ StateRunning(c, o) \/ StatePaused(c, o)
  BY <1>2, <1>3, SomeRev, RowStepsTyped
<1>4. CASE PauseSandbox(c, o) \/ PauseFails(o)
  BY <1>2, <1>4, SomeRev, RowStepsTyped
<1>5. CASE UNCHANGED rtVars
  BY <1>2, <1>5, SameTyped
<1>6. QED
  BY <1>3, <1>4, <1>5 DEF SweepState, SweepPause, c, o

\* save_files() leaves the sandbox at the revision it saved.
LEMMA SaveTyped ==
    ASSUME TypeInv, NEW r \in Runs, pc[r] = "edit", SaveFiles(r)
    PROVE  RuntimesTypeOK'
<1>1. chat[r] \in Chats
  BY DEF TypeInv, ProjectKnown, Jobs
<1>2. \E x \in Revs : content' = [content EXCEPT ![op[r]] = x]
  <2> DEFINE same == saved[chat[r]] # 0 /\ content[op[r]] = saved[chat[r]]
             new == IF same THEN saved[chat[r]] ELSE nextRev + 1
  <2>1. saved[chat[r]] \in Revs /\ nextRev \in Revs
    BY <1>1 DEF TypeInv, TypeOK, DbTypeOK
  <2>2. same \/ nextRev < MaxRev
    BY DEF SaveFiles
  <2>3. new \in Revs
    <3> HIDE DEF same
    <3> QED
      BY <2>1, <2>2, RuntimesAssumption DEF Revs
  <2>4. content' = [content EXCEPT ![op[r]] = new]
    BY DEF SaveFiles
  <2>5. QED
    BY <2>3, <2>4
<1>3. UNCHANGED <<row, handles, sb>>
  BY DEF SaveFiles
<1>4. QED
  BY <1>2, <1>3, ContentTyped DEF TypeInv, TypeOK

\* Every step keeps the runtimes and their rows well typed.
LEMMA RuntimesStep == TypeInv /\ Next => RuntimesTypeOK'
<1> SUFFICES ASSUME TypeInv, Next PROVE RuntimesTypeOK'
  OBVIOUS
<1> USE RuntimesAssumption DEF TypeInv, TypeOK, JobsTypeOK, Jobs, Procs
<1>1. ASSUME NEW r \in Runs, RunStep(r) PROVE RuntimesTypeOK'
  <2>1. CASE AdmitCommit(r)
    BY <2>1, SameTyped DEF AdmitCommit
  <2>2. CASE AdmitRegister(r)
    BY <2>2, SameTyped DEF AdmitRegister
  <2>3. CASE Invalidate(r)
    BY <2>3, RowStepsTyped DEF Invalidate
  <2>4. CASE Mutate(r)
    BY <2>4, ContentTyped DEF Mutate
  <2>5. CASE Checkpoint(r)
    BY <2>5, SaveTyped DEF Checkpoint, Step
  <2>6. CASE CheckpointLost(r)
    BY <2>6, SameTyped DEF CheckpointLost
  <2>7. CASE Complete(r)
    BY <2>7, SaveTyped DEF Complete, Step
  <2>8. CASE Finish(r)
    BY <2>8, RecordTyped DEF Finish
  <2>9. CASE FinishFails(r)
    BY <2>9, RecordTyped, SameTyped DEF FinishFails
  <2>10. CASE Pop(r)
    BY <2>10, SameTyped DEF Pop
  <2>11. CASE RunRetired(r)
    BY <2>11, SameTyped DEF RunRetired
  <2>12. CASE Cancel(r)
    BY <2>12, AbandonTyped DEF Cancel
  <2>13. CASE CancelFinish(r)
    BY <2>13, SameTyped DEF CancelFinish
  <2>14. CASE CancelFinishFails(r)
    BY <2>14, SameTyped DEF CancelFinishFails
  <2>15. CASE SnapshotJudge(r)
    BY <2>15, SameTyped DEF SnapshotJudge
  <2>16. QED
    BY <1>1, <2>1, <2>2, <2>3, <2>4, <2>5, <2>6, <2>7, <2>8, <2>9, <2>10, <2>11, <2>12, <2>13, <2>14, <2>15 DEF RunStep
<1>2. ASSUME NEW j \in Opens, OpenStep(j) PROVE RuntimesTypeOK'
  <2>1. CASE OpenRegister(j)
    BY <2>1, SameTyped DEF OpenRegister
  <2>2. CASE OpenStart(j)
    BY <2>2, SameTyped DEF OpenStart
  <2>3. CASE Probe(j)
    BY <2>3, SameTyped DEF Probe
  <2>4. CASE Publish(j)
    BY <2>4, RowStepsTyped DEF Publish
  <2>5. CASE OpenRetired(j)
    BY <2>5, SameTyped DEF OpenRetired
  <2>6. QED
    BY <1>2, <2>1, <2>2, <2>3, <2>4, <2>5 DEF OpenStep
<1>3. ASSUME NEW j \in Jobs, JobStep(j) PROVE RuntimesTypeOK'
  <2>1. ASSUME NEW c \in Chats, AdmitLock(j, c) PROVE RuntimesTypeOK'
    BY <2>1, SameTyped DEF AdmitLock
  <2>2. CASE AdmitRefused(j)
    BY <2>2, SameTyped DEF AdmitRefused
  <2>3. CASE ReadSource(j)
    BY <2>3, SameTyped DEF ReadSource
  <2>4. ASSUME NEW current \in BOOLEAN, AcquireRead(j, current) PROVE RuntimesTypeOK'
    BY <2>4, SameTyped DEF AcquireRead
  <2>5. CASE AcquireInspect(j)
    BY <2>5, RowStepsTyped DEF AcquireInspect
  <2>6. CASE AcquireResume(j)
    BY <2>6, RowStepsTyped DEF AcquireResume
  <2>7. CASE AcquireConnect(j)
    BY <2>7, RowStepsTyped, SameTyped DEF AcquireConnect
  <2>8. ASSUME NEW o \in Ops, AcquireReserve(j, o) PROVE RuntimesTypeOK'
    BY <2>8, ProviderStepsTyped DEF AcquireReserve
  <2>9. CASE AcquireCreate(j)
    BY <2>9, RowStepsTyped DEF AcquireCreate
  <2>10. CASE AcquireRejected(j)
    BY <2>10, RowStepsTyped DEF AcquireRejected
  <2>11. CASE AcquireRegister(j)
    BY <2>11, RowStepsTyped DEF AcquireRegister
  <2>12. CASE RestoreSource(j)
    BY <2>12, ContentTyped DEF RestoreSource
  <2>13. CASE Replace(j)
    BY <2>13, RetireBeginRows DEF Replace
  <2>14. CASE Replaced(j)
    BY <2>14, SameTyped DEF Replaced
  <2>15. CASE JobFails(j)
    BY <2>15, AbandonTyped DEF JobFails
  <2>16. QED
    BY <1>3, <2>1, <2>2, <2>3, <2>4, <2>5, <2>6, <2>7, <2>8, <2>9, <2>10, <2>11, <2>12, <2>13, <2>14, <2>15 DEF JobStep
<1>4. ASSUME NEW p \in Procs, RetireStep(p) PROVE RuntimesTypeOK'
  <2>1. CASE RetireList(p)
    BY <2>1, SameTyped DEF RetireList
  <2>2. CASE RetireKill(p)
    BY <2>2, KillTyped DEF RetireKill
  <2>3. CASE RetireFails(p)
    BY <2>3, RetireLeftTyped DEF RetireFails
  <2>4. CASE RetireEnd(p)
    <3>1. ret[p].op \in Ops \cup {None}
      OBVIOUS
    <3>2. QED
      BY <2>4, <3>1, SomeRev, RowStepsTyped DEF RetireEnd
  <2>5. CASE RetireSandbox(p)
    BY <2>5, RetireBeginRows DEF RetireSandbox
  <2>6. QED
    BY <1>4, <2>1, <2>2, <2>3, <2>4, <2>5 DEF RetireStep
<1>5. ASSUME NEW c \in Chats, ProjectStep(c) PROVE RuntimesTypeOK'
  <2>1. CASE DeleteProject(c)
    BY <2>1, SameTyped DEF DeleteProject
  <2>2. CASE DeleteRetired(c)
    BY <2>2, SameTyped DEF DeleteRetired
  <2>3. CASE DeleteTimeout(c)
    BY <2>3, AbandonTyped DEF DeleteTimeout
  <2>4. CASE PreviewStatus(c)
    <3>1. row[c].sid \in Ops \cup {None}
      BY DEF RuntimesTypeOK, RowType
    <3>2. QED
      BY <2>4, <3>1, SomeRev, RowStepsTyped DEF PreviewStatus, ReadState
  <2>5. CASE SnapshotRead(c)
    BY <2>5, SameTyped DEF SnapshotRead
  <2>6. CASE RecoverCheckpoint(c)
    BY <2>6, SameTyped DEF RecoverCheckpoint
  <2>7. ASSUME NEW doomed \in BOOLEAN, SweepVisit(c, doomed) PROVE RuntimesTypeOK'
    BY <2>7, RetireBeginRows, SameTyped DEF SweepVisit
  <2>8. QED
    BY <1>5, <2>1, <2>2, <2>3, <2>4, <2>5, <2>6, <2>7 DEF ProjectStep
<1>6. ASSUME NEW old \in SUBSET Chats, SweepBegin(old) PROVE RuntimesTypeOK'
  BY <1>6, SameTyped DEF SweepBegin
<1>7. ASSUME NEW old \in SUBSET Chats, Startup(old) PROVE RuntimesTypeOK'
  BY <1>7, SameTyped DEF Startup
<1>8. CASE SweepRetired
  BY <1>8, SameTyped DEF SweepRetired
<1>9. CASE SweepState
  BY <1>9, SweepRows
<1>10. CASE SweepPause
  BY <1>10, SweepRows
<1>11. CASE SweepEnd
  BY <1>11, SameTyped DEF SweepEnd
<1>12. CASE Provider
  BY <1>12, ProviderStepsTyped DEF Provider
<1>13. CASE Crash
  BY <1>13 DEF Crash, RuntimesTypeOK
<1>14. QED
  BY <1>1, <1>2, <1>3, <1>4, <1>5, <1>6, <1>7, <1>8, <1>9, <1>10, <1>11, <1>12, <1>13 DEF Next, ReaperStep

----------------------------------------------------------------------------
(* Rows.                                                                   *)

\* An interrupted retire() has dropped its row or not ...
LEMMA RetireLeftMoves ==
    ASSUME TypeInv, NEW p \in Procs, RetireLeft(p)
    PROVE  RowsMove
<1>1. RuntimesTypeOK /\ ret[p].ids \in SUBSET Ops
  BY DEF TypeInv, TypeOK, JobsTypeOK
<1>2. CASE UNCHANGED rtVars
  BY <1>1, <1>2, SameMoves DEF rtVars
<1>3. ASSUME NEW ids \in SUBSET ret[p].ids, Kill(ids) PROVE RowsMove
  BY <1>1, <1>3, KillMoves
<1>4. CASE RemoveCut(chat[p], ret[p].op)
  BY <1>1, <1>4, WritesMove
<1>5. QED
  BY <1>2, <1>3, <1>4 DEF RetireLeft

\* ... and so has an abandoned task.
LEMMA AbandonMoves ==
    ASSUME TypeInv, NEW p \in Procs, Abandon(p)
    PROVE  RowsMove
<1>1. CASE RetireLeft(p)
  BY <1>1, RetireLeftMoves
<1>2. CASE RemoveCut(chat[p], op[p])
  BY <1>2, WritesMove DEF TypeInv, TypeOK
<1>3. CASE UNCHANGED <<row, sb>>
  BY <1>3, SameMoves DEF TypeInv, TypeOK
<1>4. QED
  BY <1>1, <1>2, <1>3 DEF Abandon

\* Every step moves the rows on, or inserts one.
LEMMA RowsStep ==
    TypeInv /\ Next => RowsMove \/ \E j \in Jobs, o \in Ops : AcquireReserve(j, o)
<1> DEFINE G == RowsMove \/ \E j \in Jobs, o \in Ops : AcquireReserve(j, o)
<1> SUFFICES ASSUME TypeInv, Next PROVE G
  OBVIOUS
<1> USE DEF TypeInv, TypeOK, JobsTypeOK, Jobs, Procs, rtVars
<1>1. ASSUME NEW r \in Runs, RunStep(r) PROVE G
  <2>1. CASE AdmitCommit(r)
    BY <2>1, SameMoves DEF AdmitCommit
  <2>2. CASE AdmitRegister(r)
    BY <2>2, SameMoves DEF AdmitRegister
  <2>3. CASE Invalidate(r)
    BY <2>3, WritesMove DEF Invalidate
  <2>4. CASE Mutate(r)
    BY <2>4, SameMoves DEF Mutate
  <2>5. CASE Checkpoint(r)
    BY <2>5, SameMoves DEF Checkpoint, SaveFiles
  <2>6. CASE CheckpointLost(r)
    BY <2>6, SameMoves DEF CheckpointLost
  <2>7. CASE Complete(r)
    BY <2>7, SameMoves DEF Complete, SaveFiles
  <2>8. CASE Finish(r)
    BY <2>8, WritesMove, SameMoves DEF Finish, Record
  <2>9. CASE FinishFails(r)
    BY <2>9, WritesMove, SameMoves DEF FinishFails, Record
  <2>10. CASE Pop(r)
    BY <2>10, SameMoves DEF Pop
  <2>11. CASE RunRetired(r)
    BY <2>11, SameMoves DEF RunRetired
  <2>12. CASE Cancel(r)
    BY <2>12, AbandonMoves DEF Cancel
  <2>13. CASE CancelFinish(r)
    BY <2>13, SameMoves DEF CancelFinish
  <2>14. CASE CancelFinishFails(r)
    BY <2>14, SameMoves DEF CancelFinishFails
  <2>15. CASE SnapshotJudge(r)
    BY <2>15, SameMoves DEF SnapshotJudge
  <2>16. QED
    BY <1>1, <2>1, <2>2, <2>3, <2>4, <2>5, <2>6, <2>7, <2>8, <2>9, <2>10, <2>11, <2>12, <2>13, <2>14, <2>15 DEF RunStep
<1>2. ASSUME NEW j \in Opens, OpenStep(j) PROVE G
  <2>1. CASE OpenRegister(j)
    BY <2>1, SameMoves DEF OpenRegister
  <2>2. CASE OpenStart(j)
    BY <2>2, SameMoves DEF OpenStart
  <2>3. CASE Probe(j)
    BY <2>3, SameMoves DEF Probe
  <2>4. CASE Publish(j)
    BY <2>4, WritesMove DEF Publish
  <2>5. CASE OpenRetired(j)
    BY <2>5, SameMoves DEF OpenRetired
  <2>6. QED
    BY <1>2, <2>1, <2>2, <2>3, <2>4, <2>5 DEF OpenStep
<1>3. ASSUME NEW j \in Jobs, JobStep(j) PROVE G
  <2>1. ASSUME NEW c \in Chats, AdmitLock(j, c) PROVE G
    BY <2>1, SameMoves DEF AdmitLock
  <2>2. CASE AdmitRefused(j)
    BY <2>2, SameMoves DEF AdmitRefused
  <2>3. CASE ReadSource(j)
    BY <2>3, SameMoves DEF ReadSource
  <2>4. ASSUME NEW current \in BOOLEAN, AcquireRead(j, current) PROVE G
    BY <2>4, SameMoves DEF AcquireRead
  <2>5. CASE AcquireInspect(j)
    BY <2>5, WritesMove DEF AcquireInspect
  <2>6. CASE AcquireResume(j)
    BY <2>6, WritesMove DEF AcquireResume
  <2>7. CASE AcquireConnect(j)
    BY <2>7, WritesMove, SameMoves DEF AcquireConnect
  <2>8. ASSUME NEW o \in Ops, AcquireReserve(j, o) PROVE G
    BY <2>8
  <2>9. CASE AcquireCreate(j)
    BY <2>9, WritesMove DEF AcquireCreate
  <2>10. CASE AcquireRejected(j)
    BY <2>10, WritesMove DEF AcquireRejected
  <2>11. CASE AcquireRegister(j)
    BY <2>11, WritesMove DEF AcquireRegister
  <2>12. CASE RestoreSource(j)
    BY <2>12, SameMoves DEF RestoreSource
  <2>13. CASE Replace(j)
    BY <2>13, WritesMove, SameMoves DEF Replace, RetireBegin
  <2>14. CASE Replaced(j)
    BY <2>14, SameMoves DEF Replaced
  <2>15. CASE JobFails(j)
    BY <2>15, AbandonMoves DEF JobFails
  <2>16. QED
    BY <1>3, <2>1, <2>2, <2>3, <2>4, <2>5, <2>6, <2>7, <2>8, <2>9, <2>10, <2>11, <2>12, <2>13, <2>14, <2>15 DEF JobStep
<1>4. ASSUME NEW p \in Procs, RetireStep(p) PROVE G
  <2>1. CASE RetireList(p)
    BY <2>1, SameMoves DEF RetireList
  <2>2. CASE RetireKill(p)
    BY <2>2, KillMoves DEF RetireKill
  <2>3. CASE RetireFails(p)
    BY <2>3, RetireLeftMoves DEF RetireFails
  <2>4. CASE RetireEnd(p)
    BY <2>4, WritesMove DEF RetireEnd
  <2>5. CASE RetireSandbox(p)
    BY <2>5, WritesMove, SameMoves DEF RetireSandbox, RetireBegin
  <2>6. QED
    BY <1>4, <2>1, <2>2, <2>3, <2>4, <2>5 DEF RetireStep
<1>5. ASSUME NEW c \in Chats, ProjectStep(c) PROVE G
  <2>1. CASE DeleteProject(c)
    BY <2>1, SameMoves DEF DeleteProject
  <2>2. CASE DeleteRetired(c)
    BY <2>2, SameMoves DEF DeleteRetired
  <2>3. CASE DeleteTimeout(c)
    BY <2>3, AbandonMoves DEF DeleteTimeout
  <2>4. CASE PreviewStatus(c)
    BY <2>4, WritesMove DEF PreviewStatus, ReadState
  <2>5. CASE SnapshotRead(c)
    BY <2>5, SameMoves DEF SnapshotRead
  <2>6. CASE RecoverCheckpoint(c)
    BY <2>6, SameMoves DEF RecoverCheckpoint
  <2>7. ASSUME NEW doomed \in BOOLEAN, SweepVisit(c, doomed) PROVE G
    BY <2>7, WritesMove, SameMoves DEF SweepVisit, RetireBegin
  <2>8. QED
    BY <1>5, <2>1, <2>2, <2>3, <2>4, <2>5, <2>6, <2>7 DEF ProjectStep
<1>6. ASSUME NEW old \in SUBSET Chats, SweepBegin(old) PROVE G
  BY <1>6, SameMoves DEF SweepBegin
<1>7. ASSUME NEW old \in SUBSET Chats, Startup(old) PROVE G
  BY <1>7, SameMoves DEF Startup
<1>8. CASE SweepRetired
  BY <1>8, SameMoves DEF SweepRetired
<1>9. CASE SweepState
  BY <1>9, WritesMove, SameMoves DEF SweepState
<1>10. CASE SweepPause
  BY <1>10, WritesMove, SameMoves DEF SweepPause
<1>11. CASE SweepEnd
  BY <1>11, SameMoves DEF SweepEnd
<1>12. CASE Provider
  BY <1>12, ProviderMoves DEF Provider
<1>13. CASE Crash
  BY <1>13, SameMoves DEF Crash
<1>14. QED
  BY <1>1, <1>2, <1>3, <1>4, <1>5, <1>6, <1>7, <1>8, <1>9, <1>10, <1>11, <1>12, <1>13 DEF Next, ReaperStep

\* Every step keeps the rows apart.
LEMMA RowsApartStep == TypeInv /\ RowsApart /\ Next => RowsApart' /\ Progress
<1> SUFFICES ASSUME TypeInv, RowsApart, Next PROVE RowsApart' /\ Progress
  OBVIOUS
<1>1. RuntimesTypeOK
  BY DEF TypeInv, TypeOK
<1>2. CASE RowsMove
  BY <1>1, <1>2, MovesApart
<1>3. ASSUME NEW j \in Jobs, NEW o \in Ops, AcquireReserve(j, o) PROVE RowsApart' /\ Progress
  <2>1. chat[j] \in Chats /\ InsertRow(chat[j], o)
    BY <1>3 DEF AcquireReserve, Step, TypeInv, ProjectKnown
  <2>2. QED
    BY <1>1, <2>1, InsertApart
<1>4. QED
  BY <1>2, <1>3, RowsStep

\* Every step keeps the jobs at operations of their own projects.
LEMMA JobOperationStep == TypeInv /\ RowsApart /\ JobOperation /\ Progress /\ Next => JobOperation'
<1> SUFFICES ASSUME TypeInv, RowsApart, JobOperation, Progress, Next PROVE JobOperation'
  OBVIOUS
<1> USE ServiceAssumption, RuntimesAssumption
    DEF TypeInv, TypeOK, JobsTypeOK, ProjectKnown, RowsApart, RuntimesTypeOK, RowType,
        JobOperation, OwnOperation, UsesOperation, Progress, Procs, Jobs, Body, Acquiring, Finally,
        Goto, Step, Quiet, Stay, Over, Fail, AfterAcquire, Record, locVars, jobVars
<1>1. ASSUME NEW r \in Runs, RunStep(r) PROVE JobOperation'
  <2>1. CASE AdmitCommit(r)
    BY <2>1 DEF AdmitCommit
  <2>2. CASE AdmitRegister(r)
    BY <2>2 DEF AdmitRegister
  <2>3. CASE Invalidate(r)
    BY <2>3 DEF Invalidate
  <2>4. CASE Mutate(r)
    BY <2>4 DEF Mutate
  <2>5. CASE Checkpoint(r)
    BY <2>5 DEF Checkpoint
  <2>6. CASE CheckpointLost(r)
    BY <2>6 DEF CheckpointLost
  <2>7. CASE Complete(r)
    BY <2>7 DEF Complete
  <2>8. CASE Finish(r)
    BY <2>8 DEF Finish
  <2>9. CASE FinishFails(r)
    BY <2>9 DEF FinishFails
  <2>10. CASE Pop(r)
    BY <2>10 DEF Pop
  <2>11. CASE RunRetired(r)
    BY <2>11 DEF RunRetired
  <2>12. CASE Cancel(r)
    BY <2>12 DEF Cancel
  <2>13. CASE CancelFinish(r)
    BY <2>13 DEF CancelFinish
  <2>14. CASE CancelFinishFails(r)
    BY <2>14 DEF CancelFinishFails
  <2>15. CASE SnapshotJudge(r)
    BY <2>15 DEF SnapshotJudge
  <2>16. QED
    BY <1>1, <2>1, <2>2, <2>3, <2>4, <2>5, <2>6, <2>7, <2>8, <2>9, <2>10, <2>11, <2>12, <2>13, <2>14, <2>15 DEF RunStep
<1>2. ASSUME NEW j \in Opens, OpenStep(j) PROVE JobOperation'
  <2>1. CASE OpenRegister(j)
    BY <2>1 DEF OpenRegister
  <2>2. CASE OpenStart(j)
    BY <2>2 DEF OpenStart
  <2>3. CASE Probe(j)
    BY <2>3 DEF Probe
  <2>4. CASE Publish(j)
    BY <2>4 DEF Publish
  <2>5. CASE OpenRetired(j)
    BY <2>5 DEF OpenRetired
  <2>6. QED
    BY <1>2, <2>1, <2>2, <2>3, <2>4, <2>5 DEF OpenStep
<1>3. ASSUME NEW j \in Jobs, JobStep(j) PROVE JobOperation'
  <2>1. ASSUME NEW c \in Chats, AdmitLock(j, c) PROVE JobOperation'
    BY <2>1 DEF AdmitLock
  <2>2. CASE AdmitRefused(j)
    BY <2>2 DEF AdmitRefused
  <2>3. CASE ReadSource(j)
    BY <2>3 DEF ReadSource
  <2>4. ASSUME NEW current \in BOOLEAN, AcquireRead(j, current) PROVE JobOperation'
    <3>1. /\ chat[j] \in Chats /\ UNCHANGED <<chat, row, sb>>
          /\ op' = [op EXCEPT ![j] = row[chat[j]].op]
      BY <2>4 DEF AcquireRead, rtVars
    <3>2. \A k \in Jobs : OwnOperation(k)'
      BY <3>1 DEF RowShape, UniqueOp
    <3>3. \A k \in Jobs : UsesOperation(k)'
      BY <2>4, <3>1 DEF AcquireRead, HasRow, RowShape
    <3>4. QED
      BY <3>2, <3>3
  <2>5. CASE AcquireInspect(j)
    BY <2>5 DEF AcquireInspect
  <2>6. CASE AcquireResume(j)
    BY <2>6 DEF AcquireResume
  <2>7. CASE AcquireConnect(j)
    BY <2>7 DEF AcquireConnect
  <2>8. ASSUME NEW o \in Ops, AcquireReserve(j, o) PROVE JobOperation'
    BY <2>8, InsertApart DEF AcquireReserve
  <2>9. CASE AcquireCreate(j)
    <3>1. CASE Step(j, "create", "register") /\ Quiet
      BY <3>1
    <3>2. CASE Step(j, "create", "rejected") /\ CreateRejected(op[j]) /\ Quiet
      <4>1. sb'[op[j]] = "gone"
        BY <3>2 DEF CreateRejected
      <4>2. QED
        BY <3>2, <4>1
    <3>3. QED
      BY <2>9, <3>1, <3>2 DEF AcquireCreate
  <2>10. CASE AcquireRejected(j)
    BY <2>10 DEF AcquireRejected
  <2>11. CASE AcquireRegister(j)
    BY <2>11 DEF AcquireRegister
  <2>12. CASE RestoreSource(j)
    BY <2>12 DEF RestoreSource
  <2>13. CASE Replace(j)
    BY <2>13 DEF Replace
  <2>14. CASE Replaced(j)
    BY <2>14 DEF Replaced
  <2>15. CASE JobFails(j)
    BY <2>15 DEF JobFails
  <2>16. QED
    BY <1>3, <2>1, <2>2, <2>3, <2>4, <2>5, <2>6, <2>7, <2>8, <2>9, <2>10, <2>11, <2>12, <2>13, <2>14, <2>15 DEF JobStep
<1>4. ASSUME NEW p \in Procs, RetireStep(p) PROVE JobOperation'
  <2>1. CASE RetireList(p)
    BY <2>1 DEF RetireList
  <2>2. CASE RetireKill(p)
    BY <2>2 DEF RetireKill
  <2>3. CASE RetireFails(p)
    BY <2>3 DEF RetireFails
  <2>4. CASE RetireEnd(p)
    BY <2>4 DEF RetireEnd
  <2>5. CASE RetireSandbox(p)
    BY <2>5 DEF RetireSandbox
  <2>6. QED
    BY <1>4, <2>1, <2>2, <2>3, <2>4, <2>5 DEF RetireStep
<1>5. ASSUME NEW c \in Chats, ProjectStep(c) PROVE JobOperation'
  <2>1. CASE DeleteProject(c)
    BY <2>1 DEF DeleteProject
  <2>2. CASE DeleteRetired(c)
    BY <2>2 DEF DeleteRetired
  <2>3. CASE DeleteTimeout(c)
    BY <2>3 DEF DeleteTimeout
  <2>4. CASE PreviewStatus(c)
    BY <2>4 DEF PreviewStatus
  <2>5. CASE SnapshotRead(c)
    BY <2>5 DEF SnapshotRead
  <2>6. CASE RecoverCheckpoint(c)
    BY <2>6 DEF RecoverCheckpoint
  <2>7. ASSUME NEW doomed \in BOOLEAN, SweepVisit(c, doomed) PROVE JobOperation'
    BY <2>7 DEF SweepVisit
  <2>8. QED
    BY <1>5, <2>1, <2>2, <2>3, <2>4, <2>5, <2>6, <2>7 DEF ProjectStep
<1>6. ASSUME NEW old \in SUBSET Chats, SweepBegin(old) PROVE JobOperation'
  BY <1>6 DEF SweepBegin
<1>7. ASSUME NEW old \in SUBSET Chats, Startup(old) PROVE JobOperation'
  BY <1>7 DEF Startup
<1>8. CASE SweepRetired
  BY <1>8 DEF SweepRetired
<1>9. CASE SweepState
  BY <1>9 DEF SweepState
<1>10. CASE SweepPause
  BY <1>10 DEF SweepPause
<1>11. CASE SweepEnd
  BY <1>11 DEF SweepEnd
<1>12. CASE Provider
  BY <1>12 DEF Provider
<1>13. CASE Crash
  BY <1>13 DEF Crash
<1>14. QED
  BY <1>1, <1>2, <1>3, <1>4, <1>5, <1>6, <1>7, <1>8, <1>9, <1>10, <1>11, <1>12, <1>13 DEF Next, ReaperStep

----------------------------------------------------------------------------
(* Ownership.                                                              *)

\* A job that uses its sandbox remembers an operation of its own project.
LEMMA JobKnows ==
    ASSUME IndInv, NEW j \in Jobs, op[j] # None
    PROVE  /\ op[j] \in Ops
           /\ \A d \in Chats : row[d].op = op[j] => d = chat[j]
BY DEF IndInv, TypeInv, TypeOK, JobsTypeOK, OwnershipInv, JobOperation, OwnOperation, UsesOperation

\* retire() marks the row, or fails before that.
LEMMA RetireBeginOwns ==
    ASSUME RuntimesTypeOK, RowsOwn, NEW p, NEW c \in Chats, RetireBegin(p, c)
    PROVE  RowsOwn' /\ Progress
<1>1. CASE MarkRetiring(c)
  BY <1>1, UpdateOwns
<1>2. CASE UNCHANGED rtVars
  BY <1>2, QuietOwns DEF rtVars
<1>3. QED
  BY <1>1, <1>2 DEF RetireBegin

\* An interrupted retire() has removed nothing, unless remove() was cut ...
LEMMA RetireLeftOwns ==
    ASSUME IndInv, ~CutRemove, NEW p \in Procs, RetireLeft(p)
    PROVE  RowsOwn' /\ Progress
<1>1. RuntimesTypeOK /\ RowsOwn /\ ret[p].ids \in SUBSET Ops
  BY DEF IndInv, TypeInv, TypeOK, JobsTypeOK, OwnershipInv
<1>2. CASE UNCHANGED rtVars
  BY <1>1, <1>2, QuietOwns DEF rtVars
<1>3. ASSUME NEW ids \in SUBSET ret[p].ids, Kill(ids) PROVE RowsOwn' /\ Progress
  BY <1>1, <1>3, KillOwns
<1>4. QED
  BY <1>2, <1>3 DEF RetireLeft

\* ... and neither has an abandoned task.
LEMMA AbandonOwns ==
    ASSUME IndInv, ~CutRemove, NEW p \in Procs, Abandon(p)
    PROVE  RowsOwn' /\ Progress
<1>1. CASE RetireLeft(p)
  BY <1>1, RetireLeftOwns
<1>2. CASE UNCHANGED <<row, handles, sb>>
  BY <1>2, QuietOwns DEF IndInv, TypeInv, TypeOK, OwnershipInv
<1>3. QED
  BY <1>1, <1>2 DEF Abandon

\* acquire() uses the sandbox of its own row.
LEMMA AcquireOwns ==
    ASSUME IndInv, NEW j \in Jobs,
           \/ AcquireInspect(j) \/ AcquireResume(j) \/ AcquireConnect(j)
           \/ AcquireCreate(j) \/ AcquireRejected(j) \/ AcquireRegister(j)
    PROVE  RowsOwn' /\ Progress
<1> DEFINE c == chat[j]
           o == op[j]
<1>1. pc[j] \in {"inspect", "resume", "connect", "create", "rejected", "register"}
  BY DEF AcquireInspect, AcquireResume, AcquireConnect, AcquireCreate, AcquireRejected,
         AcquireRegister, Step
<1>2. o # None /\ c \in Chats
  BY <1>1 DEF IndInv, TypeInv, ProjectKnown, OwnershipInv, JobOperation, OwnOperation, UsesOperation
<1>3. o \in Ops /\ \A d \in Chats : row[d].op = o => d = c
  BY <1>2, JobKnows
<1>4. RuntimesTypeOK /\ RowsOwn
  BY DEF IndInv, TypeInv, TypeOK, OwnershipInv
<1>5. CASE AcquireRejected(j)
  <2>1. Remove(c, o) /\ sb[o] = "gone"
    BY <1>5 DEF AcquireRejected, IndInv, OwnershipInv, JobOperation, OwnOperation, UsesOperation
  <2>2. QED
    BY <1>3, <1>4, <2>1, RemoveOwns
<1> HIDE DEF c, o
<1>6. CASE StateMissing(c, o)
  BY <1>3, <1>4, <1>6, RemoveOwns DEF StateMissing
<1>7. CASE StateRunning(c, o) \/ StatePaused(c, o) \/ ReserveResume(c, o) \/ RegisterSandbox(c, o)
  BY <1>2, <1>3, <1>4, <1>7, UpdateOwns
<1>8. CASE ConnectReturns(c, o) \/ CreateReturns(c, o)
  BY <1>2, <1>3, <1>4, <1>8, HandleOwns
<1>9. CASE ConnectLost(o) \/ CreateRejected(o)
  BY <1>3, <1>4, <1>9, ProviderOwns
<1>10. CASE UNCHANGED rtVars
  BY <1>4, <1>10, QuietOwns DEF rtVars
<1>11. QED
  BY <1>5, <1>6, <1>7, <1>8, <1>9, <1>10
  DEF c, o, AcquireInspect, AcquireResume, AcquireConnect, AcquireCreate, AcquireRegister

\* finish() hands over the row of the run's own project.
LEMMA RecordOwns ==
    ASSUME IndInv, NEW r \in Runs, chat[r] \in Chats, Record(r)
    PROVE  RowsOwn' /\ Progress
<1>1. RuntimesTypeOK /\ RowsOwn
  BY DEF IndInv, TypeInv, TypeOK, OwnershipInv
<1>2. CASE MarkReusable(chat[r], rev[r])
  BY <1>1, <1>2, UpdateOwns
<1>3. CASE UNCHANGED rtVars
  BY <1>1, <1>3, QuietOwns DEF rtVars
<1>4. QED
  BY <1>2, <1>3 DEF Record

\* Looking at a row's sandbox, for a status query or a sweep.
LEMMA LookOwns ==
    ASSUME IndInv, NEW c \in Chats, NEW o, o = row[c].sid,
           \/ StateMissing(c, o) \/ StateRunning(c, o) \/ StatePaused(c, o)
           \/ PauseSandbox(c, o) \/ PauseFails(o) \/ UNCHANGED rtVars
    PROVE  RowsOwn' /\ Progress
<1>1. RuntimesTypeOK /\ RowsOwn /\ o \in Ops \cup {None}
  BY DEF IndInv, TypeInv, TypeOK, OwnershipInv, RuntimesTypeOK, RowType
<1>2. CASE StateMissing(c, o)
  BY <1>1, <1>2, RemoveOwns DEF StateMissing
<1>3. CASE StateRunning(c, o) \/ StatePaused(c, o) \/ PauseSandbox(c, o)
  BY <1>1, <1>3, UpdateOwns
<1>4. CASE PauseFails(o)
  BY <1>1, <1>4, ProviderOwns
<1>5. CASE UNCHANGED rtVars
  BY <1>1, <1>5, QuietOwns DEF rtVars
<1>6. QED
  BY <1>2, <1>3, <1>4, <1>5

\* Every step keeps the rows the owners of the sandboxes.
LEMMA RowsOwnStep == IndInv /\ ~CutRemove /\ Next => RowsOwn' /\ Progress
<1> SUFFICES ASSUME IndInv, ~CutRemove, Next PROVE RowsOwn' /\ Progress
  OBVIOUS
<1> USE DEF IndInv, TypeInv, TypeOK, JobsTypeOK, ProjectKnown, OwnershipInv, Jobs, Procs
<1>1. ASSUME NEW r \in Runs, RunStep(r) PROVE RowsOwn' /\ Progress
  <2>1. CASE AdmitCommit(r)
    BY <2>1, QuietOwns DEF AdmitCommit, rtVars
  <2>2. CASE AdmitRegister(r)
    BY <2>2, QuietOwns DEF AdmitRegister, rtVars
  <2>3. CASE Invalidate(r)
    BY <2>3, UpdateOwns DEF Invalidate, Step
  <2>4. CASE Mutate(r)
    BY <2>4, QuietOwns DEF Mutate
  <2>5. CASE Checkpoint(r)
    BY <2>5, QuietOwns DEF Checkpoint, SaveFiles
  <2>6. CASE CheckpointLost(r)
    BY <2>6, QuietOwns DEF CheckpointLost, rtVars
  <2>7. CASE Complete(r)
    BY <2>7, QuietOwns DEF Complete, SaveFiles
  <2>8. CASE Finish(r)
    BY <2>8, RecordOwns DEF Finish, Step
  <2>9. CASE FinishFails(r)
    BY <2>9, RecordOwns, QuietOwns DEF FinishFails, Step, rtVars
  <2>10. CASE Pop(r)
    BY <2>10, QuietOwns DEF Pop, rtVars
  <2>11. CASE RunRetired(r)
    BY <2>11, QuietOwns DEF RunRetired, rtVars
  <2>12. CASE Cancel(r)
    BY <2>12, AbandonOwns DEF Cancel
  <2>13. CASE CancelFinish(r)
    BY <2>13, QuietOwns DEF CancelFinish, rtVars
  <2>14. CASE CancelFinishFails(r)
    BY <2>14, QuietOwns DEF CancelFinishFails, rtVars
  <2>15. CASE SnapshotJudge(r)
    BY <2>15, QuietOwns DEF SnapshotJudge, rtVars
  <2>16. QED
    BY <1>1, <2>1, <2>2, <2>3, <2>4, <2>5, <2>6, <2>7, <2>8, <2>9, <2>10, <2>11, <2>12, <2>13, <2>14, <2>15 DEF RunStep
<1>2. ASSUME NEW j \in Opens, OpenStep(j) PROVE RowsOwn' /\ Progress
  <2>1. CASE OpenRegister(j)
    BY <2>1, QuietOwns DEF OpenRegister, rtVars
  <2>2. CASE OpenStart(j)
    BY <2>2, QuietOwns DEF OpenStart, rtVars
  <2>3. CASE Probe(j)
    BY <2>3, QuietOwns DEF Probe, rtVars
  <2>4. CASE Publish(j)
    BY <2>4, UpdateOwns DEF Publish
  <2>5. CASE OpenRetired(j)
    BY <2>5, QuietOwns DEF OpenRetired, rtVars
  <2>6. QED
    BY <1>2, <2>1, <2>2, <2>3, <2>4, <2>5 DEF OpenStep
<1>3. ASSUME NEW j \in Jobs, JobStep(j) PROVE RowsOwn' /\ Progress
  <2>1. ASSUME NEW c \in Chats, AdmitLock(j, c) PROVE RowsOwn' /\ Progress
    BY <2>1, QuietOwns DEF AdmitLock, rtVars
  <2>2. CASE AdmitRefused(j)
    BY <2>2, QuietOwns DEF AdmitRefused, rtVars
  <2>3. CASE ReadSource(j)
    BY <2>3, QuietOwns DEF ReadSource, rtVars
  <2>4. ASSUME NEW current \in BOOLEAN, AcquireRead(j, current) PROVE RowsOwn' /\ Progress
    BY <2>4, QuietOwns DEF AcquireRead, rtVars
  <2>5. CASE AcquireInspect(j)
    BY <2>5, AcquireOwns
  <2>6. CASE AcquireResume(j)
    BY <2>6, AcquireOwns
  <2>7. CASE AcquireConnect(j)
    BY <2>7, AcquireOwns
  <2>8. ASSUME NEW o \in Ops, AcquireReserve(j, o) PROVE RowsOwn' /\ Progress
    BY <2>8, InsertOwns DEF AcquireReserve, Step
  <2>9. CASE AcquireCreate(j)
    BY <2>9, AcquireOwns
  <2>10. CASE AcquireRejected(j)
    BY <2>10, AcquireOwns
  <2>11. CASE AcquireRegister(j)
    BY <2>11, AcquireOwns
  <2>12. CASE RestoreSource(j)
    BY <2>12, QuietOwns DEF RestoreSource
  <2>13. CASE Replace(j)
    BY <2>13, RetireBeginOwns DEF Replace
  <2>14. CASE Replaced(j)
    BY <2>14, QuietOwns DEF Replaced, rtVars
  <2>15. CASE JobFails(j)
    BY <2>15, AbandonOwns DEF JobFails
  <2>16. QED
    BY <1>3, <2>1, <2>2, <2>3, <2>4, <2>5, <2>6, <2>7, <2>8, <2>9, <2>10, <2>11, <2>12, <2>13, <2>14, <2>15 DEF JobStep
<1>4. ASSUME NEW p \in Procs, RetireStep(p) PROVE RowsOwn' /\ Progress
  <2>1. CASE RetireList(p)
    BY <2>1, QuietOwns DEF RetireList, rtVars
  <2>2. CASE RetireKill(p)
    BY <2>2, KillOwns DEF RetireKill
  <2>3. CASE RetireFails(p)
    BY <2>3, RetireLeftOwns DEF RetireFails
  <2>4. CASE RetireEnd(p)
    <3>1. ret[p].op \in Ops \cup {None} /\ (ret[p].op # None => sb[ret[p].op] = "gone")
      BY <2>4 DEF RetireEnd, RetireSafe
    <3>2. QED
      BY <2>4, <3>1, RemoveOwns DEF RetireEnd
  <2>5. CASE RetireSandbox(p)
    <3>1. chat[p] \in Chats
      BY <2>5 DEF RetireSandbox, Step
    <3>2. QED
      BY <2>5, <3>1, RetireBeginOwns DEF RetireSandbox
  <2>6. QED
    BY <1>4, <2>1, <2>2, <2>3, <2>4, <2>5 DEF RetireStep
<1>5. ASSUME NEW c \in Chats, ProjectStep(c) PROVE RowsOwn' /\ Progress
  <2>1. CASE DeleteProject(c)
    BY <2>1, QuietOwns DEF DeleteProject, rtVars
  <2>2. CASE DeleteRetired(c)
    BY <2>2, QuietOwns DEF DeleteRetired, rtVars
  <2>3. CASE DeleteTimeout(c)
    BY <2>3, AbandonOwns DEF DeleteTimeout
  <2>4. CASE PreviewStatus(c)
    BY <2>4, LookOwns DEF PreviewStatus, ReadState
  <2>5. CASE SnapshotRead(c)
    BY <2>5, QuietOwns DEF SnapshotRead, rtVars
  <2>6. CASE RecoverCheckpoint(c)
    BY <2>6, QuietOwns DEF RecoverCheckpoint, rtVars
  <2>7. ASSUME NEW doomed \in BOOLEAN, SweepVisit(c, doomed) PROVE RowsOwn' /\ Progress
    BY <2>7, RetireBeginOwns, QuietOwns DEF SweepVisit, rtVars
  <2>8. QED
    BY <1>5, <2>1, <2>2, <2>3, <2>4, <2>5, <2>6, <2>7 DEF ProjectStep
<1>6. ASSUME NEW old \in SUBSET Chats, SweepBegin(old) PROVE RowsOwn' /\ Progress
  BY <1>6, QuietOwns DEF SweepBegin, rtVars
<1>7. ASSUME NEW old \in SUBSET Chats, Startup(old) PROVE RowsOwn' /\ Progress
  BY <1>7, QuietOwns DEF Startup, rtVars
<1>8. CASE SweepRetired
  BY <1>8, QuietOwns DEF SweepRetired, rtVars
<1>9. CASE SweepState
  BY <1>9, LookOwns DEF SweepState, Step
<1>10. CASE SweepPause
  BY <1>10, LookOwns DEF SweepPause, Step
<1>11. CASE SweepEnd
  BY <1>11, QuietOwns DEF SweepEnd, rtVars
<1>12. CASE Provider
  BY <1>12, ProviderOwns DEF Provider
<1>13. CASE Crash
  BY <1>13, QuietOwns DEF Crash
<1>14. QED
  BY <1>1, <1>2, <1>3, <1>4, <1>5, <1>6, <1>7, <1>8, <1>9, <1>10, <1>11, <1>12, <1>13 DEF Next, ReaperStep

\* A retire() call that goes on, or is over, stays safe.
LEMMA RetireKept ==
    ASSUME IndInv, Progress, \A q \in Procs : ret'[q] = ret[q] \/ ret'[q].op = None
    PROVE  RetireSafe'
BY DEF IndInv, TypeInv, TypeOK, JobsTypeOK, OwnershipInv, RetireSafe, Progress

\* retire() starts with ids that contain its row's own sandbox, if any: the row's
\* sandbox id and the handle are both that sandbox.
LEMMA RetireBeginSafe ==
    ASSUME IndInv, Progress, NEW p \in Procs, NEW c \in Chats, RetireBegin(p, c)
    PROVE  RetireSafe'
<1> DEFINE o == row[c].op
           ids == KnownIds(c)
<1>1. o # None => ids \in {{}, {o}}
  BY DEF KnownIds, IndInv, OwnershipInv, RowsOwn, RowShape, HandleMatchesRow
<1>2. \A q \in Procs \ {p} : ret'[q] = ret[q]
  BY DEF RetireBegin, RetireAt, Returns, IndInv, TypeInv, TypeOK, JobsTypeOK
<1>3. (ret[p] # ret'[p] /\ ret'[p].op # None) =>
        /\ ret'[p].pc = "kill" => ret'[p].op \in ret'[p].ids
        /\ ret'[p].pc # "remove"
  <2> HIDE DEF o, ids
  <2>1. CASE RetireAt(p, IF ids # {} THEN "kill" ELSE IF o # None THEN "list" ELSE "remove", o, ids)
    BY <1>1, <2>1 DEF RetireAt, IndInv, TypeInv, TypeOK, JobsTypeOK
  <2>2. CASE Returns(p, "failed")
    BY <2>2 DEF RetireAt, Returns, IndInv, TypeInv, TypeOK, JobsTypeOK
  <2>3. QED
    BY <2>1, <2>2 DEF RetireBegin, o, ids
<1>4. QED
  BY <1>2, <1>3 DEF IndInv, TypeInv, TypeOK, JobsTypeOK, OwnershipInv, RetireSafe, Progress

\* Every step keeps the retire() calls safe.
LEMMA RetireSafeStep == IndInv /\ Progress /\ Next => RetireSafe'
<1> SUFFICES ASSUME IndInv, Progress, Next PROVE RetireSafe'
  OBVIOUS
<1> USE DEF IndInv, TypeInv, TypeOK, JobsTypeOK, ProjectKnown, OwnershipInv, Jobs,
        Quiet, Stay, Over, Record, Answered, Returns, RetireAt, Abandon, IdleRet, jobVars
<1>1. ASSUME NEW r \in Runs, RunStep(r) PROVE RetireSafe'
  <2>1. CASE AdmitCommit(r)
    BY <2>1, RetireKept DEF AdmitCommit
  <2>2. CASE AdmitRegister(r)
    BY <2>2, RetireKept DEF AdmitRegister
  <2>3. CASE Invalidate(r)
    BY <2>3, RetireKept DEF Invalidate
  <2>4. CASE Mutate(r)
    BY <2>4, RetireKept DEF Mutate
  <2>5. CASE Checkpoint(r)
    BY <2>5, RetireKept DEF Checkpoint
  <2>6. CASE CheckpointLost(r)
    BY <2>6, RetireKept DEF CheckpointLost
  <2>7. CASE Complete(r)
    BY <2>7, RetireKept DEF Complete
  <2>8. CASE Finish(r)
    BY <2>8, RetireKept DEF Finish
  <2>9. CASE FinishFails(r)
    BY <2>9, RetireKept DEF FinishFails
  <2>10. CASE Pop(r)
    BY <2>10, RetireKept DEF Pop
  <2>11. CASE RunRetired(r)
    BY <2>11, RetireKept DEF RunRetired
  <2>12. CASE Cancel(r)
    BY <2>12, RetireKept DEF Cancel
  <2>13. CASE CancelFinish(r)
    BY <2>13, RetireKept DEF CancelFinish
  <2>14. CASE CancelFinishFails(r)
    BY <2>14, RetireKept DEF CancelFinishFails
  <2>15. CASE SnapshotJudge(r)
    BY <2>15, RetireKept DEF SnapshotJudge
  <2>16. QED
    BY <1>1, <2>1, <2>2, <2>3, <2>4, <2>5, <2>6, <2>7, <2>8, <2>9, <2>10, <2>11, <2>12, <2>13, <2>14, <2>15 DEF RunStep
<1>2. ASSUME NEW j \in Opens, OpenStep(j) PROVE RetireSafe'
  <2>1. CASE OpenRegister(j)
    BY <2>1, RetireKept DEF OpenRegister
  <2>2. CASE OpenStart(j)
    BY <2>2, RetireKept DEF OpenStart
  <2>3. CASE Probe(j)
    BY <2>3, RetireKept DEF Probe
  <2>4. CASE Publish(j)
    BY <2>4, RetireKept DEF Publish
  <2>5. CASE OpenRetired(j)
    BY <2>5, RetireKept DEF OpenRetired
  <2>6. QED
    BY <1>2, <2>1, <2>2, <2>3, <2>4, <2>5 DEF OpenStep
<1>3. ASSUME NEW j \in Jobs, JobStep(j) PROVE RetireSafe'
  <2>1. ASSUME NEW c \in Chats, AdmitLock(j, c) PROVE RetireSafe'
    BY <2>1, RetireKept DEF AdmitLock
  <2>2. CASE AdmitRefused(j)
    BY <2>2, RetireKept DEF AdmitRefused
  <2>3. CASE ReadSource(j)
    BY <2>3, RetireKept DEF ReadSource
  <2>4. ASSUME NEW current \in BOOLEAN, AcquireRead(j, current) PROVE RetireSafe'
    BY <2>4, RetireKept DEF AcquireRead
  <2>5. CASE AcquireInspect(j)
    BY <2>5, RetireKept DEF AcquireInspect
  <2>6. CASE AcquireResume(j)
    BY <2>6, RetireKept DEF AcquireResume
  <2>7. CASE AcquireConnect(j)
    BY <2>7, RetireKept DEF AcquireConnect
  <2>8. ASSUME NEW o \in Ops, AcquireReserve(j, o) PROVE RetireSafe'
    BY <2>8, RetireKept DEF AcquireReserve
  <2>9. CASE AcquireCreate(j)
    BY <2>9, RetireKept DEF AcquireCreate
  <2>10. CASE AcquireRejected(j)
    BY <2>10, RetireKept DEF AcquireRejected
  <2>11. CASE AcquireRegister(j)
    BY <2>11, RetireKept DEF AcquireRegister
  <2>12. CASE RestoreSource(j)
    BY <2>12, RetireKept DEF RestoreSource
  <2>13. CASE Replace(j)
    BY <2>13, RetireBeginSafe DEF Replace, Procs
  <2>14. CASE Replaced(j)
    BY <2>14, RetireKept DEF Replaced
  <2>15. CASE JobFails(j)
    BY <2>15, RetireKept DEF JobFails
  <2>16. QED
    BY <1>3, <2>1, <2>2, <2>3, <2>4, <2>5, <2>6, <2>7, <2>8, <2>9, <2>10, <2>11, <2>12, <2>13, <2>14, <2>15 DEF JobStep
<1>4. ASSUME NEW p \in Procs, RetireStep(p) PROVE RetireSafe'
  <2>1. CASE RetireList(p)
    BY <2>1 DEF RetireList, RetireAt, RetireSafe, Progress
  <2>2. CASE RetireKill(p)
    <3>1. ret[p].op # None => sb'[ret[p].op] = "gone"
      BY <2>2 DEF RetireKill, Kill, RetireSafe
    <3>2. QED
      BY <2>2, <3>1 DEF RetireKill, RetireAt, RetireSafe, Progress
  <2>3. CASE RetireFails(p)
    BY <2>3, RetireKept DEF RetireFails
  <2>4. CASE RetireEnd(p)
    BY <2>4, RetireKept DEF RetireEnd
  <2>5. CASE RetireSandbox(p)
    <3>1. chat[p] \in Chats
      BY <2>5 DEF RetireSandbox, Step, Procs
    <3>2. QED
      BY <2>5, <3>1, RetireBeginSafe DEF RetireSandbox
  <2>6. QED
    BY <1>4, <2>1, <2>2, <2>3, <2>4, <2>5 DEF RetireStep
<1>5. ASSUME NEW c \in Chats, ProjectStep(c) PROVE RetireSafe'
  <2>1. CASE DeleteProject(c)
    BY <2>1, RetireKept DEF DeleteProject
  <2>2. CASE DeleteRetired(c)
    BY <2>2, RetireKept DEF DeleteRetired
  <2>3. CASE DeleteTimeout(c)
    BY <2>3, RetireKept DEF DeleteTimeout
  <2>4. CASE PreviewStatus(c)
    BY <2>4, RetireKept DEF PreviewStatus
  <2>5. CASE SnapshotRead(c)
    BY <2>5, RetireKept DEF SnapshotRead
  <2>6. CASE RecoverCheckpoint(c)
    BY <2>6, RetireKept DEF RecoverCheckpoint
  <2>7. ASSUME NEW doomed \in BOOLEAN, SweepVisit(c, doomed) PROVE RetireSafe'
    BY <2>7, RetireKept, RetireBeginSafe DEF SweepVisit, Procs
  <2>8. QED
    BY <1>5, <2>1, <2>2, <2>3, <2>4, <2>5, <2>6, <2>7 DEF ProjectStep
<1>6. ASSUME NEW old \in SUBSET Chats, SweepBegin(old) PROVE RetireSafe'
  BY <1>6, RetireKept DEF SweepBegin
<1>7. ASSUME NEW old \in SUBSET Chats, Startup(old) PROVE RetireSafe'
  BY <1>7, RetireKept DEF Startup
<1>8. CASE SweepRetired
  BY <1>8, RetireKept DEF SweepRetired
<1>9. CASE SweepState
  BY <1>9, RetireKept DEF SweepState
<1>10. CASE SweepPause
  BY <1>10, RetireKept DEF SweepPause
<1>11. CASE SweepEnd
  BY <1>11, RetireKept DEF SweepEnd
<1>12. CASE Provider
  BY <1>12, RetireKept DEF Provider
<1>13. CASE Crash
  BY <1>13, RetireKept DEF Crash
<1>14. QED
  BY <1>1, <1>2, <1>3, <1>4, <1>5, <1>6, <1>7, <1>8, <1>9, <1>10, <1>11, <1>12, <1>13 DEF Next, ReaperStep

----------------------------------------------------------------------------
(* The theorems.                                                           *)

\* At the start every task is idle and every table empty.
LEMMA InitTyped == Init => TypeInv
<1> SUFFICES ASSUME Init PROVE TypeInv
  OBVIOUS
<1> USE RuntimesAssumption, ServiceAssumption DEF Init
<1>1. RuntimesTypeOK
  BY NoRowTyped DEF RuntimesInit, RuntimesTypeOK, SandboxStates, Revs
<1>2. JobsTypeOK /\ ProjectKnown
  BY DEF JobsTypeOK, ProjectKnown, IdleRet, RetPCs, PCs, Statuses, Revs, Procs, Jobs
<1>3. MemTypeOK /\ DbTypeOK
  BY DEF MemTypeOK, DbTypeOK, Statuses, Revs
<1>4. QED
  BY <1>1, <1>2, <1>3 DEF TypeInv, TypeOK

\* One step, or none, keeps the shape of the state.
LEMMA TypeInvStep == TypeInv /\ [Next]_vars => TypeInv'
<1> SUFFICES ASSUME TypeInv, [Next]_vars PROVE TypeInv'
  OBVIOUS
<1>1. CASE Next
  BY <1>1, JobsStep, ServiceStep, RuntimesStep DEF TypeInv, TypeOK, JobsInv
<1>2. CASE UNCHANGED vars
  BY <1>2 DEF vars, jobVars, locVars, memVars, lockVars, regVars, procVars, dbVars, rtVars,
              TypeInv, TypeOK, RuntimesTypeOK, JobsTypeOK, MemTypeOK, DbTypeOK, ProjectKnown
<1>3. QED
  BY <1>1, <1>2

\* The registers of service.py, the locals of its tasks and the tables behind
\* them keep their shape in every execution: in particular no None is ever read
\* as a project or listed as an operation, and retire() never kills "None".
THEOREM TypeCorrect == Spec => []TypeOK
<1>1. TypeInv => TypeOK
  BY DEF TypeInv
<1>2. QED
  BY <1>1, InitTyped, TypeInvStep, PTL DEF Spec

\* At the start there is nothing to own.
LEMMA InitOwned == Init => OwnershipInv
<1> SUFFICES ASSUME Init PROVE OwnershipInv
  OBVIOUS
<1>1. RowsOwn
  BY DEF Init, RuntimesInit, NoRow, RowsOwn, RowShape, UniqueOp, HandleMatchesRow, NoOrphan, Alive
<1>2. RetireSafe /\ JobOperation
  BY DEF Init, RetireSafe, IdleRet, JobOperation, OwnOperation, UsesOperation, Procs, Jobs
<1>3. QED
  BY <1>1, <1>2 DEF OwnershipInv

\* One step, whichever task takes it and whatever fails in it, keeps IndInv.
LEMMA IndInvStep == ~CutRemove /\ IndInv /\ [Next]_vars => IndInv'
<1> SUFFICES ASSUME ~CutRemove, IndInv, [Next]_vars PROVE IndInv'
  OBVIOUS
<1>1. TypeInv'
  BY TypeInvStep DEF IndInv
<1>2. CASE Next
  BY <1>1, <1>2, RowsOwnStep, RetireSafeStep, JobOperationStep
  DEF IndInv, OwnershipInv, RowsOwn, RowsApart
<1>3. CASE UNCHANGED vars
  BY <1>1, <1>3 DEF vars, jobVars, locVars, rtVars, IndInv, OwnershipInv, RowsOwn, RowShape, UniqueOp,
         HandleMatchesRow, NoOrphan, Alive, RetireSafe, JobOperation, OwnOperation, UsesOperation
<1>4. QED
  BY <1>2, <1>3

\* Whatever fails, is cancelled, crashes or gets lost between the ownership
\* intent of acquire() and the removal in retire(), state() or maintain(), a
\* sandbox that runs, sleeps or may still be created is named by a row, for any
\* number of projects, runs and previews: provided that a remove() which deleted
\* its row also reaches its forget_handle (the case excluded is described in the
\* README under what the code does not keep).
THEOREM SandboxesOwned == ~CutRemove => (Spec => []NoOrphan)
<1> SUFFICES ASSUME ~CutRemove PROVE Spec => []NoOrphan
  OBVIOUS
<1>1. Init => IndInv
  BY InitTyped, InitOwned DEF IndInv
<1>2. IndInv /\ [Next]_vars => IndInv'
  BY IndInvStep
<1>3. IndInv => NoOrphan
  BY DEF IndInv, OwnershipInv, RowsOwn
<1>4. QED
  BY <1>1, <1>2, <1>3, PTL DEF Spec
=============================================================================
