---------------------------- MODULE AtomicReplica ----------------------------
(***************************************************************************)
(* What the mirror of SyncedFS promises to whoever feeds it: an epoch of   *)
(* operations is staged one operation at a time and then becomes part of   *)
(* the mirror whole, or not at all, whatever is interrupted in between.    *)
(***************************************************************************)
EXTENDS Sequences

CONSTANTS Op           \* operations on the mirrored tree

VARIABLES
  content,   \* the operations the mirror will come back to after a crash
  staged,    \* the part of the current epoch received so far
  mode,      \* "idle", "receiving" or "committed" (applied, unconfirmed)
  lost       \* the mirror has lost the tree it should come back to

rvars == <<content, staged, mode, lost>>

RInit == content = <<>> /\ staged = <<>> /\ mode = "idle" /\ lost = FALSE

Begin == /\ ~lost /\ mode = "idle"
         /\ mode' = "receiving"
         /\ staged' = <<>>
         /\ UNCHANGED <<content, lost>>

Stage(op) == /\ ~lost /\ mode = "receiving"
             /\ staged' = Append(staged, op)
             /\ UNCHANGED <<content, mode, lost>>

Commit == /\ ~lost /\ mode = "receiving"
          /\ content' = content \o staged
          /\ staged' = <<>>
          /\ mode' = "committed"
          /\ UNCHANGED lost

\* The session of a committed epoch ends, with a confirmation or without.
Conclude == /\ ~lost /\ mode = "committed"
            /\ mode' = "idle"
            /\ UNCHANGED <<content, staged, lost>>

\* An interrupted epoch leaves nothing behind.
Abort == /\ ~lost /\ mode = "receiving"
         /\ mode' = "idle"
         /\ staged' = <<>>
         /\ UNCHANGED <<content, lost>>

\* The one way out of the promise: the saved tree itself is destroyed.
Lose == /\ ~lost /\ mode = "idle"
        /\ lost' = TRUE
        /\ content' = <<>>
        /\ UNCHANGED <<staged, mode>>

RNext == \/ Begin
         \/ \E op \in Op : Stage(op)
         \/ Commit
         \/ Conclude
         \/ Abort
         \/ Lose

RSpec == RInit /\ [][RNext]_rvars
=============================================================================
