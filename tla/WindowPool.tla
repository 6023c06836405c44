------------------------------ MODULE WindowPool ------------------------------
(***************************************************************************)
(* The protected window object of crates/ginkgo-ipc/src/kernel.rs: one pool *)
(* of equal surface buffers of one generation, and who may touch each.      *)
(* Both endpoints live in the broker's handle table and close together, so  *)
(* neither ever finds its peer closed.                                      *)
(***************************************************************************)
EXTENDS Naturals

CONSTANTS
    BufferCount,    \* SurfaceConfiguration.buffer_count
    None

ASSUME BufferCountAssumption == BufferCount \in Nat /\ BufferCount >= 2

Buffers == 0..BufferCount - 1

BufferStates == {"ClientOwned", "Pending", "Displayed", "Released"}

\* A WindowPresentation, and the WindowRelease that answers it.
Presentations == [buffer : Buffers, serial : Nat \ {0}]

Pools ==
    [buffers : [Buffers -> BufferStates], pending : Presentations \cup {None},
     pendingRead : BOOLEAN, displayed : Presentations \cup {None},
     release : Presentations \cup {None}, nextSerial : Nat \ {0}, retired : BOOLEAN]

\* window_create_with_generation_and_buffer_count
NewPool ==
    [buffers |-> [b \in Buffers |-> "ClientOwned"], pending |-> None,
     pendingRead |-> FALSE, displayed |-> None, release |-> None,
     nextSerial |-> 1, retired |-> FALSE]

\* window_present: its result and, when that is "Ok", the pool it leaves.
PresentStatus(p, b) ==
    CASE p.release # None -> "ShouldWait"
      [] p.release = None /\ p.retired -> "InvalidMessage"
      [] p.release = None /\ ~p.retired /\ p.pending # None -> "ShouldWait"
      [] OTHER -> IF p.buffers[b] = "ClientOwned" THEN "Ok" ELSE "InvalidMessage"

Submitted(p, b) ==
    [p EXCEPT !.buffers[b] = "Pending",
              !.pending = [buffer |-> b, serial |-> p.nextSerial],
              !.pendingRead = FALSE,
              !.nextSerial = @ + 1]

\* window_manager_coalesce_pending of the pending presentation by buffer b.
CoalesceStatus(p, b) ==
    CASE p.pendingRead \/ p.release # None \/ p.retired -> "ShouldWait"
      [] OTHER -> IF p.buffers[b] = "ClientOwned" THEN "Ok" ELSE "InvalidMessage"

Coalesced(p, b) ==
    [p EXCEPT !.buffers = [@ EXCEPT ![p.pending.buffer] = "Released", ![b] = "Pending"],
              !.release = p.pending,
              !.pending = [buffer |-> b, serial |-> p.nextSerial],
              !.pendingRead = FALSE,
              !.nextSerial = @ + 1]

\* window_read_release
ReleaseRead(p) ==
    IF p.release = None THEN p
    ELSE [p EXCEPT !.buffers[p.release.buffer] = "ClientOwned", !.release = None]

\* window_manager_complete(.., successful)
CanComplete(p) == p.pending # None /\ (p.displayed = None \/ p.release = None)

Completed(p) ==
    LET shown == [p EXCEPT !.buffers[p.pending.buffer] = "Displayed",
                           !.pending = None, !.pendingRead = FALSE,
                           !.displayed = p.pending]
    IN  IF p.displayed = None THEN shown
        ELSE [shown EXCEPT !.buffers[p.displayed.buffer] = "Released",
                           !.release = p.displayed]

\* window_manager_retire
CanRetire(p) ==
    p.retired \/ (p.pending = None /\ (p.displayed = None \/ p.release = None))

Retired(p) ==
    CASE p.retired -> p
      [] ~p.retired /\ p.displayed = None -> [p EXCEPT !.retired = TRUE]
      [] OTHER -> [p EXCEPT !.buffers[p.displayed.buffer] = "Released",
                            !.release = p.displayed, !.displayed = None,
                            !.retired = TRUE]

\* The buffers and the three presentations tell the same story: each
\* presentation protects its own buffer and every protected buffer has one.
PoolExact(p) ==
    \A b \in Buffers :
        /\ p.buffers[b] = "Pending" <=> p.pending # None /\ p.pending.buffer = b
        /\ p.buffers[b] = "Displayed" <=> p.displayed # None /\ p.displayed.buffer = b
        /\ p.buffers[b] = "Released" <=> p.release # None /\ p.release.buffer = b
=============================================================================
