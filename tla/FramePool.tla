----------------------------- MODULE FramePool -----------------------------
(***************************************************************************)
(* What the physical frame allocator promises its callers, with no bitmap, *)
(* no words and no search hint: a set of free frames from which runs of    *)
(* contiguous frames are taken and to which they are returned.             *)
(***************************************************************************)
EXTENDS Integers

CONSTANTS FRAME_COUNT,   \* frames in the physical address space
          Counts,        \* run lengths callers ask for
          NONE           \* the start of a run that was not found

VARIABLES phase,         \* "boot", "ready" or "halted"
          free,          \* frames an allocation may take
          runs,          \* runs held by callers
          leaked,        \* frames of runs dropped without being freed
          reply          \* what the last allocation asked for and returned

vars == <<phase, free, runs, leaked, reply>>

Frame == 0 .. FRAME_COUNT - 1
Extent(start, len) == start .. start + len - 1
Fits(start, count) == start + count <= FRAME_COUNT /\ Extent(start, count) \subseteq free

Init ==
    /\ phase = "boot"
    /\ free = {} /\ runs = {} /\ leaked = {}
    /\ reply = [count |-> 0, start |-> NONE]

(* Memory is published once, all at a time, as far as callers can see.     *)
Publish ==
    /\ phase = "boot"
    /\ phase' = "ready"
    /\ free' \in SUBSET Frame
    /\ UNCHANGED <<runs, leaked, reply>>

(* Only publishing memory may fail for good.                               *)
Halt ==
    /\ phase = "boot"
    /\ phase' = "halted"
    /\ UNCHANGED <<free, runs, leaked, reply>>

Allocate(count, start) ==
    /\ phase = "ready"
    /\ Fits(start, count)
    /\ free' = free \ Extent(start, count)
    /\ runs' = runs \cup {[start |-> start, len |-> count]}
    /\ reply' = [count |-> count, start |-> start]
    /\ UNCHANGED <<phase, leaked>>

(* An allocation is refused only when no gap is large enough.              *)
Refuse(count) ==
    /\ phase = "ready"
    /\ \A start \in Frame : ~Fits(start, count)
    /\ reply' = [count |-> count, start |-> NONE]
    /\ UNCHANGED <<phase, free, runs, leaked>>

Free(run) ==
    /\ phase = "ready"
    /\ free' = free \cup Extent(run.start, run.len)
    /\ runs' = runs \ {run}
    /\ UNCHANGED <<phase, leaked, reply>>

Leak(run) ==
    /\ phase = "ready"
    /\ runs' = runs \ {run}
    /\ leaked' = leaked \cup Extent(run.start, run.len)
    /\ UNCHANGED <<phase, free, reply>>

Next ==
    \/ Publish
    \/ Halt
    \/ \E count \in Counts : Refuse(count) \/ \E start \in Frame : Allocate(count, start)
    \/ \E run \in runs : Free(run) \/ Leak(run)

Spec == Init /\ [][Next]_vars
=============================================================================
