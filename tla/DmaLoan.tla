------------------------------- MODULE DmaLoan -------------------------------
(* What storage promises about its DMA pages: a page is lent before the       *)
(* hardware may touch it and is taken back only when the hardware has let go. *)

CONSTANT Pages

VARIABLES
    lent,  \* the pages lent to the hardware
    dma    \* the pages the hardware may be touching

vars == <<lent, dma>>

Init == lent = {} /\ dma = {}

Lend(S) == S \subseteq Pages \ lent /\ lent' = lent \union S /\ UNCHANGED dma

Touch(S) == S \subseteq lent /\ dma' = dma \union S /\ UNCHANGED lent

\* The hardware lets go of D, and S is taken back.
TakeBack(D, S) ==
    /\ D \subseteq dma /\ S \subseteq lent
    /\ dma' = dma \ D /\ lent' = lent \ S
    /\ S \intersect dma' = {}

Next == \E S \in SUBSET Pages : Lend(S) \/ Touch(S) \/ \E D \in SUBSET Pages : TakeBack(D, S)

Spec == Init /\ [][Next]_vars

\* The hardware only touches pages that are lent, so a page that the pool of
\* storage.rs holds as available is never written by a device.
OnlyLent == dma \subseteq lent
=============================================================================
