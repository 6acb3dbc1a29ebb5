--------------------------- MODULE FrameAllocator ---------------------------
(***************************************************************************)
(* What a physical memory manager promises its callers, with no bitmap and *)
(* no counter: once opened on a pool of frames, it hands a frame of the    *)
(* pool to at most one owner at a time, and says "out of memory" (answer   *)
(* 0) to a request for one frame only when every frame of the pool is out. *)
(* A run of frames starts in the pool; it may be refused at any time, and  *)
(* it alone may break all promises.  PMM implements it.                    *)
(***************************************************************************)
EXTENDS Integers, FiniteSets

CONSTANT Frame          \* frame numbers; 0 is the failure answer, never a frame

VARIABLES opened,       \* has the manager been constructed?
          pool,         \* the frames it manages
          out,          \* the frames its callers own
          asked,        \* the size of the last request
          answer,       \* its answer: the first frame, or 0
          broken        \* has a run been handed out with frames in use?

avars == <<opened, pool, out, asked, answer, broken>>

AInit ==
  /\ opened = FALSE /\ pool = {} /\ out = {}
  /\ asked = 0 /\ answer = 0 /\ broken = FALSE

\* The manager is constructed on some pool.
AOpen ==
  /\ ~opened
  /\ opened' = TRUE
  /\ pool' \subseteq Frame
  /\ UNCHANGED <<out, asked, answer, broken>>

\* A request hands out frames nobody owns...
AAlloc ==
  /\ opened
  /\ answer' \in pool \ out
  /\ out \subseteq out' /\ answer' \in out' /\ out' \subseteq Frame
  /\ asked' = Cardinality(out' \ out)
  /\ UNCHANGED <<opened, pool, broken>>

\* ...and, if it is for one frame, fails only when there is none.
ARefuse ==
  /\ opened
  /\ asked' = 1 => pool \subseteq out
  /\ answer' = 0
  /\ UNCHANGED <<opened, pool, out, broken>>

\* An owner gives back some of its frames.
AFree ==
  /\ opened
  /\ out' \subseteq out
  /\ UNCHANGED <<opened, pool, asked, answer, broken>>

ABreak == opened /\ asked' > 1 /\ broken' = TRUE /\ UNCHANGED <<opened, pool>>

ANext == broken \/ AOpen \/ AAlloc \/ ARefuse \/ AFree \/ ABreak

ASpec == AInit /\ [][ANext]_avars
=============================================================================
