------------------------------- MODULE Kernel -------------------------------
(***************************************************************************)
(* The process kernel that Phase 2 is linked against (-lphase1, not under  *)
(* src/), as src/phase2 uses it: block_me, unblock_proc, is_zapped, quit   *)
(* and time_slice on ONE processor.  A process keeps the processor until   *)
(* it blocks, quits, unblocks a process of higher priority, or is sliced   *)
(* by the clock while its interrupts are enabled.                          *)
(*                                                                         *)
(* A smaller number is a higher priority, as in fork1.  The order of the   *)
(* ready list among processes of one priority is left open.                *)
(***************************************************************************)
EXTENDS Integers

CONSTANTS
  Proc,         \* the processes that use the mailboxes
  Priority,     \* their priorities
  Sentinel,     \* the process that runs when nobody else can
  ZapTargets    \* the processes some process outside Proc may zap

ASSUME KernelAssumption ==
  /\ Priority \in [Proc -> Nat]
  /\ Sentinel \notin Proc
  /\ ZapTargets \subseteq Proc

VARIABLES
  status,       \* status of each process; block_me's argument when blocked
  Current,      \* the running process
  zapped,       \* the processes for which is_zapped() holds
  psr           \* TRUE iff the interrupt bit of the process's PSR is set

kernelVars == <<status, Current, zapped, psr>>

Blocked == {"FULLMBOX", "NOMESSAGES"}

KernelTypeOK ==
  /\ status \in [Proc -> {"READY", "QUIT"} \union Blocked]
  /\ Current \in Proc \union {Sentinel}
  /\ zapped \in SUBSET ZapTargets
  /\ psr \in [Proc -> BOOLEAN]

(***************************************************************************)
(* The dispatcher gives the processor to a ready process of the highest    *)
(* priority, or to the sentinel.                                           *)
(***************************************************************************)
Highest(st) ==
  {p \in Proc : /\ st[p] = "READY"
                /\ \A q \in Proc : st[q] = "READY" => Priority[p] <= Priority[q]}

Dispatch(st) == IF Highest(st) = {} THEN {Sentinel} ELSE Highest(st)

KernelInit ==
  /\ status = [p \in Proc |-> "READY"]
  /\ Current \in Dispatch(status)
  /\ zapped = {}
  /\ psr = [p \in Proc |-> TRUE]

(***************************************************************************)
(* block_me(s), called by the running process p.  The caller's interrupt   *)
(* bit is on when the call returns: the callers disable interrupts again   *)
(* "when unblocked" (phase2.c:320, 517, 724).                              *)
(***************************************************************************)
BlockMe(p, s) ==
  /\ status' = [status EXCEPT ![p] = s]
  /\ Current' \in Dispatch(status')
  /\ psr' = [psr EXCEPT ![p] = TRUE]
  /\ UNCHANGED zapped

(***************************************************************************)
(* unblock_proc(q), called by the running process p: q becomes ready, and  *)
(* runs at once when its priority is higher than the caller's, as is       *)
(* everyone's when a handler runs in the sentinel.  Interrupts             *)
(* are on when the call returns; MboxRelease disables them again           *)
(* (phase2.c:233, 240), its other callers enable them next.                *)
(***************************************************************************)
UnblockProc(p, q) ==
  /\ status' = [status EXCEPT ![q] = "READY"]
  /\ Current' = IF p = Sentinel \/ Priority[q] < Priority[p] THEN q ELSE p
  /\ psr' = [psr EXCEPT ![p] = TRUE]
  /\ UNCHANGED zapped

(***************************************************************************)
(* A call returns to its caller p without having switched processes;       *)
(* on is the interrupt bit it returns with.                                *)
(***************************************************************************)
ReturnWith(p, on) ==
  /\ psr' = [psr EXCEPT ![p] = on]
  /\ UNCHANGED <<status, Current, zapped>>

QuitProc(p) ==
  /\ status' = [status EXCEPT ![p] = "QUIT"]
  /\ Current' \in Dispatch(status')
  /\ UNCHANGED <<zapped, psr>>

(***************************************************************************)
(* time_slice(), from the clock interrupt: another ready process of the    *)
(* same priority gets the processor.                                       *)
(***************************************************************************)
TimeSlice ==
  /\ Current \in Proc
  /\ psr[Current]
  /\ \E q \in Proc \ {Current} :
        /\ status[q] = "READY"
        /\ Priority[q] = Priority[Current]
        /\ Current' = q
  /\ UNCHANGED <<status, zapped, psr>>

(***************************************************************************)
(* zap(q) by a process that does not use the mailboxes; it can get the     *)
(* processor only where an interrupt can.                                  *)
(***************************************************************************)
Zap(q) ==
  /\ IF Current \in Proc THEN psr[Current] ELSE TRUE
  /\ status[q] # "QUIT"
  /\ q \notin zapped
  /\ zapped' = zapped \union {q}
  /\ UNCHANGED <<status, Current, psr>>

=============================================================================
