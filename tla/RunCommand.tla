----------------------------- MODULE RunCommand -----------------------------
(***************************************************************************)
(* `ckc run` on Unix (cli/run.rs, cli/run/interrupt_unix.rs): the public    *)
(* parent installs a SIGINT handler, starts the private child that compiles *)
(* and executes the program, hands interrupts on to it, waits for it and    *)
(* restores the handler.  Handler and parent share one atomic cell.         *)
(*                                                                         *)
(* The handler runs on the parent's only thread, so it is one step between *)
(* two steps of the parent; the child and the sender of signals are free.  *)
(* A process identifier fits the cell on Unix, so registration succeeds.   *)
(***************************************************************************)
EXTENDS Naturals

CONSTANT MaxInterrupts \* signals sent in one behaviour

ASSUME RunAssumption == MaxInterrupts \in Nat

CELL == {"empty", "pending", "pid"}  \* CHILD: 0, PENDING, the child's identifier

VARIABLES parent,     \* where the parent is
          cell,       \* the atomic CHILD
          handler,    \* the disposition of SIGINT in the parent
          previous,   \* the disposition the parent was started with
          child,      \* the private child
          signalled,  \* SIGINT was sent to the child
          status,     \* how the child ended
          exitStatus, \* the status the command returns
          owed,       \* the handler ran since it was installed
          stray,      \* a kill was aimed at an identifier already reaped
          sent        \* signals so far

runVars == <<parent, cell, handler, previous, child, signalled, status, exitStatus,
             owed, stray, sent>>

signals == <<owed, stray, sent>>

RunInit ==
    /\ parent = "install" /\ cell = "empty"
    /\ previous \in {"default", "ignore"} /\ handler = previous
    /\ child = "none" /\ signalled = FALSE /\ status = "none"
    /\ exitStatus = "none" /\ owed = FALSE /\ stray = FALSE /\ sent = 0

Parent(from, to) == parent = from /\ parent' = to

-----------------------------------------------------------------------------
(* The parent. *)

Install ==
    /\ Parent("install", "spawn")
    /\ cell' = "empty" /\ handler' = "forward"
    /\ UNCHANGED <<previous, child, signalled, status, exitStatus, signals>>

InstallFails ==
    /\ Parent("install", "exit")
    /\ exitStatus' = "error"
    /\ UNCHANGED <<cell, handler, previous, child, signalled, status, signals>>

\* The executable, the token or the process is not to be had: the guard drops.
SpawnFails ==
    /\ Parent("spawn", "disarm")
    /\ exitStatus' = "error"
    /\ UNCHANGED <<cell, handler, previous, child, signalled, status, signals>>

\* The child exists before spawn returns its identifier.
Spawn ==
    /\ Parent("spawn", "register")
    /\ child' = "running"
    /\ UNCHANGED <<cell, handler, previous, signalled, status, exitStatus, signals>>

\* Mutant: registration stores the identifier over a pending interrupt.
RegisterBlindly ==
    /\ Parent("register", "wait")
    /\ cell' = "pid"
    /\ UNCHANGED <<handler, previous, child, signalled, status, exitStatus, signals>>

\* Mutant: registration consumes the guard, which restores the handler.
RegisterOnce ==
    /\ parent = "register"
    /\ parent' = IF cell = "pending" THEN "forward" ELSE "wait"
    /\ cell' = "pid" /\ handler' = previous
    /\ UNCHANGED <<previous, child, signalled, status, exitStatus, signals>>

\* One swap registers the child and takes the pending interrupt, if any.
Register ==
    /\ parent = "register"
    /\ parent' = IF cell = "pending" THEN "forward" ELSE "wait"
    /\ cell' = "pid"
    /\ UNCHANGED <<handler, previous, child, signalled, status, exitStatus, signals>>

\* kill: it reaches the child, or whoever holds the identifier by then.
Kill ==
    /\ signalled' = (signalled \/ child = "running")
    /\ stray' = (stray \/ child = "reaped")

Forward ==
    /\ Parent("forward", "wait")
    /\ Kill
    /\ UNCHANGED <<cell, handler, previous, child, status, exitStatus, owed, sent>>

\* wait reaps the child; from here on its identifier may be given away.
Wait ==
    /\ Parent("wait", "disarm")
    /\ child = "zombie"
    /\ child' = "reaped"
    /\ exitStatus' = IF status = "signal" THEN "abnormal" ELSE status
    /\ UNCHANGED <<cell, handler, previous, signalled, status, signals>>

\* Mutant: the guard restores the handler and leaves the identifier behind.
DisarmLate ==
    /\ Parent("disarm", "restore")
    /\ UNCHANGED <<cell, handler, previous, child, signalled, status, exitStatus, signals>>

Disarm ==
    /\ Parent("disarm", "restore")
    /\ cell' = "empty"
    /\ UNCHANGED <<handler, previous, child, signalled, status, exitStatus, signals>>

Restore ==
    /\ Parent("restore", "exit")
    /\ handler' = previous
    /\ UNCHANGED <<cell, previous, child, signalled, status, exitStatus, signals>>

-----------------------------------------------------------------------------
(* The child and the outside. *)

\* The child refuses its arguments, fails to compile, or runs the program.
ChildExits(code) ==
    /\ child = "running"
    /\ child' = "zombie" /\ status' = code
    /\ UNCHANGED <<parent, cell, handler, previous, signalled, exitStatus, signals>>

\* A fault of the program, or the signal that was sent.
ChildDies ==
    /\ child = "running"
    /\ child' = "zombie" /\ status' = "signal"
    /\ UNCHANGED <<parent, cell, handler, previous, signalled, exitStatus, signals>>

\* Mutant: the handler drops an interrupt that finds no identifier.
HandleRegistered ==
    /\ handler = "forward"
    /\ IF cell = "pid"
       THEN Kill /\ UNCHANGED cell
       ELSE UNCHANGED <<cell, signalled, stray>>
    /\ owed' = TRUE
    /\ UNCHANGED parent

\* forward_interrupt: the exchange marks an empty cell, else kill.
Handle ==
    /\ handler = "forward"
    /\ IF cell = "pid"
       THEN Kill /\ UNCHANGED cell
       ELSE cell' = "pending" /\ UNCHANGED <<signalled, stray>>
    /\ owed' = TRUE
    /\ UNCHANGED parent

\* Without the handler SIGINT ends the parent, unless it was ignored before.
NotHandled ==
    /\ handler # "forward"
    /\ parent' = IF handler = "default" THEN "killed" ELSE parent
    /\ UNCHANGED <<cell, signalled, owed, stray>>

\* SIGINT for the parent alone (kill) ...
Interrupt ==
    /\ sent < MaxInterrupts /\ parent \notin {"exit", "killed"}
    /\ sent' = sent + 1
    /\ Handle \/ NotHandled
    /\ UNCHANGED <<handler, previous, child, status, exitStatus>>

\* ... or from the terminal, for the child as well.
InterruptChild ==
    /\ sent < MaxInterrupts /\ child = "running"
    /\ sent' = sent + 1 /\ signalled' = TRUE
    /\ UNCHANGED <<parent, cell, handler, previous, child, status, exitStatus, owed, stray>>

ParentStep ==
    \/ Install \/ InstallFails \/ SpawnFails \/ Spawn \/ Register \/ Forward
    \/ Wait \/ Disarm \/ Restore

RunNext ==
    \/ ParentStep
    \/ \E code \in {"success", "failure"} : ChildExits(code)
    \/ ChildDies
    \/ Interrupt
    \/ InterruptChild

RunSpec == RunInit /\ [][RunNext]_runVars /\ WF_runVars(ParentStep)
           /\ WF_runVars(signalled /\ ChildDies)

-----------------------------------------------------------------------------
RunTypeOK ==
    /\ parent \in {"install", "spawn", "register", "forward", "wait", "disarm",
               "restore", "exit", "killed"}
    /\ cell \in CELL
    /\ handler \in {"default", "ignore", "forward"}
    /\ previous \in {"default", "ignore"}
    /\ child \in {"none", "running", "zombie", "reaped"}
    /\ status \in {"none", "success", "failure", "signal"}
    /\ exitStatus \in {"none", "error", "abnormal", "success", "failure"}
    /\ signalled \in BOOLEAN /\ owed \in BOOLEAN /\ stray \in BOOLEAN
    /\ sent \in 0 .. MaxInterrupts

\* An interrupt the handler took, even before the child was known, reaches
\* the child or finds it ended: ForwardGuard::set_child and forward_interrupt.
InterruptReachesChild == (owed /\ child = "running") ~> child # "running"

\* A kill is aimed at a reaped identifier only between the return of wait and
\* the drop of the guard (run.rs:47-50); never before, never after.
StrayOnlyBeforeDisarm == [][stray' # stray => parent = "disarm"]_runVars

\* The parent never dies of SIGINT over a child it has not waited for.
NoOrphan == parent = "killed" => child \in {"none", "reaped"}
=============================================================================
