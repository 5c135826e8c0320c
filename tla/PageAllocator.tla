--------------------------- MODULE PageAllocator ---------------------------
(***************************************************************************)
(* What a physical page allocator promises its callers, with no bitmap,    *)
(* no scan order and no cached "nothing left" flag: a page is handed out   *)
(* only while it is free, and a request is refused only when no page is    *)
(* free.  PhysicalMM is shown to implement this specification.             *)
(***************************************************************************)
CONSTANTS
    Frames,     \* the page frames the allocator may hand out
    Nothing     \* the answer of a refused request, not a frame

VARIABLES
    free,       \* frames that may be handed out
    held,       \* frames some caller was given and has not returned
    answer      \* what the latest request was answered with

pvars == <<free, held, answer>>

PTypeOK ==
    /\ free \in SUBSET Frames
    /\ held \in SUBSET Frames
    /\ answer \in Frames \cup {Nothing}

PInit ==
    /\ free \in SUBSET Frames
    /\ held = {}
    /\ answer = Nothing

\* Any free frame may be the answer.
Grant(f) ==
    /\ f \in free
    /\ free' = free \ {f}
    /\ held' = held \cup {f}
    /\ answer' = f

\* Nothing is answered only when nothing is free.
Refuse ==
    /\ free = {}
    /\ answer' = Nothing
    /\ UNCHANGED <<free, held>>

\* A caller returns a frame it holds.
Return(f) ==
    /\ f \in held
    /\ free' = free \cup {f}
    /\ held' = held \ {f}
    /\ UNCHANGED answer

\* Frames used for something else are taken out of circulation.
Withdraw ==
    /\ free' \subseteq free
    /\ UNCHANGED <<held, answer>>

PNext ==
    \/ \E f \in Frames : Grant(f) \/ Return(f)
    \/ Refuse
    \/ Withdraw

PSpec == PInit /\ [][PNext]_pvars
=============================================================================
