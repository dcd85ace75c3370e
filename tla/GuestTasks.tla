----------------------------- MODULE GuestTasks -----------------------------
(***************************************************************************)
(* What OSLoader's virtual interrupts promise the guest's own kernel: one  *)
(* processor shared by the guest's tasks.  A task goes on exactly where it *)
(* stopped, however it stopped: it gave the processor up (Yield, Switch)   *)
(* or an interrupt took it away.  No interrupt takes it inside a critical  *)
(* section, unless it has released the section by giving the processor up  *)
(* in it; it has the protection of the next one again.  GuestTraps         *)
(* implements this module.                                                 *)
(***************************************************************************)
EXTENDS Naturals

CONSTANTS Tasks,        \* the guest's tasks
          NumPoints,    \* places in a task's code, run through in turn
          MaxNesting    \* critical sections nest no deeper

VARIABLES running,  \* the task that has the processor
          at,       \* where each task is
          depth,    \* how many critical sections each task is in
          released, \* tasks that have yielded in the section they are in
          yielding  \* the running task asks for the next one

Points == 0 .. NumPoints - 1
vars == <<running, at, depth, released, yielding>>

Init ==
    /\ running \in Tasks
    /\ at \in [Tasks -> Points]
    /\ depth = [t \in Tasks |-> 0]
    /\ released = {}
    /\ yielding = FALSE

Advance == at' = [at EXCEPT ![running] = (at[running] + 1) % NumPoints]

Instruction ==
    /\ ~yielding
    /\ Advance
    /\ UNCHANGED <<running, depth, released, yielding>>

EnterCritical ==
    /\ ~yielding
    /\ depth[running] < MaxNesting
    /\ depth' = [depth EXCEPT ![running] = @ + 1]
    /\ UNCHANGED <<running, at, released, yielding>>

ExitCritical ==
    /\ ~yielding
    /\ depth[running] > 0
    /\ depth' = [depth EXCEPT ![running] = @ - 1]
    /\ released' = IF depth[running] = 1 THEN released \ {running} ELSE released
    /\ UNCHANGED <<running, at, yielding>>

Yield ==
    /\ ~yielding
    /\ Advance
    /\ yielding' = TRUE
    /\ released' = IF depth[running] > 0 THEN released \cup {running} ELSE released
    /\ UNCHANGED <<running, depth>>

Switch ==
    /\ yielding
    /\ running' \in Tasks
    /\ yielding' = FALSE
    /\ UNCHANGED <<at, depth, released>>

Interrupt ==
    /\ ~yielding
    /\ depth[running] = 0 \/ running \in released
    /\ running' \in Tasks
    /\ UNCHANGED <<at, depth, released, yielding>>

Next ==
    \/ Instruction
    \/ EnterCritical
    \/ ExitCritical
    \/ Yield
    \/ Switch
    \/ Interrupt

Spec == Init /\ [][Next]_vars
=============================================================================
