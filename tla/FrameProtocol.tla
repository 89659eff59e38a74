-------------------------- MODULE FrameProtocol --------------------------
(***************************************************************************)
(* What the rendezvous promises for each state of its frame window: the    *)
(* stages a frame passes through, and that its buffers are pinned from the *)
(* publication of the input until the output is complete or the failure is *)
(* settled.  NrOrdered implements it.                                      *)
(***************************************************************************)
CONSTANTS Slots, Ring, Frames, None

VARIABLE cell \* cell[k][i]: the frame in position i of slot k

Stages == {"open", "published", "running", "ready", "consumed", "failing", "failed"}
Cell == [frame : Frames \cup {None}, stage : Stages, pinned : BOOLEAN]

New(f, stage, pinned) == [frame |-> f, stage |-> stage, pinned |-> pinned]

Init == cell = [k \in Slots |-> [i \in Ring |-> New(None, "open", FALSE)]]

\* A state may be given to another frame once nothing is expected from it.
Vacant(c) == ~c.pinned /\ (c.frame = None \/ c.stage \in {"consumed", "failed"})

\* How one cell may change.
Recycle(c, d) == Vacant(c) /\ \E f \in Frames : d = New(f, "open", FALSE)
Open(c, d) == (c.stage = "open" /\ d = c) \/ Recycle(c, d)
Publish(c, d) == \E e \in Cell : Open(c, e) /\ d = New(e.frame, "published", TRUE)
Take(c, d) == c.stage = "published" /\ d = New(c.frame, "running", TRUE)
Finish(c, d) == c.stage = "running" /\ d = New(c.frame, "ready", FALSE)
Consume(c, d) == c.stage = "ready" /\ d = New(c.frame, "consumed", FALSE)

\* A failure unpins at once, unless a job runs: its own end settles it.
Fail(c, d) ==
  \/ c.stage \in {"running", "failing"} /\ d = New(c.frame, "failing", TRUE)
  \/ c.stage \notin {"running", "failing"} /\ d = New(c.frame, "failed", FALSE)
FailNew(c, d) == \E e \in Cell : Recycle(c, e) /\ Fail(e, d)
Settle(c, d) == c.stage \in {"running", "failing"} /\ d = New(c.frame, "failed", FALSE)

CellStep(c, d) == \/ Recycle(c, d) \/ Publish(c, d) \/ Take(c, d) \/ Finish(c, d)
                  \/ Consume(c, d) \/ Fail(c, d) \/ FailNew(c, d) \/ Settle(c, d)

\* One cell moves, or a whole registration ends (all its cells fail), or begins
\* in a slot where nothing is pinned.
Move == \E k \in Slots, i \in Ring :
          /\ CellStep(cell[k][i], cell'[k][i])
          /\ cell' = [cell EXCEPT ![k] = [@ EXCEPT ![i] = cell'[k][i]]]
End == \A k \in Slots : \/ cell'[k] = cell[k]
                        \/ \A i \in Ring : Fail(cell[k][i], cell'[k][i])
Begin == \E k \in Slots :
           /\ \A i \in Ring : ~cell[k][i].pinned
           /\ cell' = [cell EXCEPT ![k] = [i \in Ring |-> New(None, "open", FALSE)]]

Next == Move \/ End \/ Begin

Spec == Init /\ [][Next]_cell
=============================================================================
