------------------------------ MODULE Operation ------------------------------
(***************************************************************************)
(* The life of a read or write operation of package rados: steps are added *)
(* (read_op*.go, write_op*.go, omap.go), Operate has librados perform them *)
(* and updates each with its result (operation.go), results are read, and  *)
(* the C memory behind them goes with Release, or with a finalizer when    *)
(* the garbage collector finds the step unreachable.                       *)
(*                                                                         *)
(* One goroutine uses an operation; the collector runs beside it.  Steps   *)
(* may be added until Operate, which is called once (operation.go:75).     *)
(***************************************************************************)
CONSTANTS
    Step,           \* step objects
    NoStep,         \* no step's data is being copied
    ReleaseAgain,   \* the application may call Release more than once
    LastUse         \* a call may be the application's last use of a step

ASSUME NoStepAssumption == NoStep \notin Step
ASSUME ReleaseAssumption == ReleaseAgain \in BOOLEAN
ASSUME LastUseAssumption == LastUse \in BOOLEAN

VARIABLES
    opKind,     \* ReadOp or WriteOp
    handle,     \* the C operation has not been released
    steps,      \* operation.steps
    kind,       \* what each step is
    prval,      \* the int librados stores the step's result in
    can,        \* steps with canIterate or canReadOutput set
    mem,        \* the iterator or output buffer of each step
    done,       \* steps librados has performed with success (external)
    outcome,    \* what Operate has returned
    held,       \* steps the application still refers to
    holdsOp,    \* it still refers to the operation
    copying,    \* the step whose C memory Next or Bytes is reading
    fault       \* what has gone wrong with C memory, if anything

vars == <<opKind, handle, steps, kind, prval, can, mem, done, outcome, held,
          holdsOp, copying, fault>>

(* GetOmapStep, ReadOpOmapGetValsByKeysStep, ReadOpExecStep and            *)
(* ReadOpReadStep; WriteOpCmpExtStep, writeOpExecStep and writeStep.       *)
Kind == {"omap", "keys", "readExec", "read", "cmpext", "writeExec", "write"}

Iterator == {"omap", "keys"}            \* with memory from its creation
Readable == Iterator \union {"readExec"}    \* read after Operate
Reporting == Readable \union {"writeExec"}  \* whose update can fail
Malloced == Iterator \union {"read", "cmpext"}  \* whose result is C memory
Finalized == {"omap", "readExec"}

Init ==
    /\ opKind \in {"read", "write"}
    /\ handle = TRUE /\ steps = {} /\ holdsOp = TRUE
    /\ kind = [s \in Step |-> "none"]
    /\ prval = [s \in Step |-> "none"]
    /\ mem = [s \in Step |-> "nil"]
    /\ can = {} /\ done = {} /\ held = {}
    /\ outcome = "none" /\ copying = NoStep /\ fault = "none"

(* Mutated: the operation does not keep the step.                          *)
AddUntracked(s, k) ==
    /\ handle /\ holdsOp /\ outcome = "none" /\ kind[s] = "none"
    /\ kind' = [kind EXCEPT ![s] = k]
    /\ \E v \in IF k \in Malloced THEN {"ok", "error"} ELSE {"ok"} :
          prval' = [prval EXCEPT ![s] = v]
    /\ mem' = [mem EXCEPT ![s] = IF k \in Iterator THEN "held" ELSE "nil"]
    /\ held' = held \union {s}
    /\ UNCHANGED <<opKind, handle, steps, can, done, outcome, holdsOp, copying,
                   fault>>

(* A step is made, appended to the operation and its memory handed to       *)
(* librados.  A result in memory from malloc has any value at first; one in *)
(* the Go object is zero, which means success.                              *)
Add(s, k) ==
    /\ handle /\ holdsOp /\ outcome = "none" /\ kind[s] = "none"
    /\ steps' = steps \union {s}
    /\ kind' = [kind EXCEPT ![s] = k]
    /\ \E v \in IF k \in Malloced THEN {"ok", "error"} ELSE {"ok"} :
          prval' = [prval EXCEPT ![s] = v]
    /\ mem' = [mem EXCEPT ![s] = IF k \in Iterator THEN "held" ELSE "nil"]
    /\ held' = held \union {s}
    /\ UNCHANGED <<opKind, handle, can, done, outcome, holdsOp, copying, fault>>

GetOmapValues(s) == opKind = "read" /\ Add(s, "omap")
GetOmapValuesByKeys(s) == opKind = "read" /\ Add(s, "keys")
ReadExec(s) == opKind = "read" /\ Add(s, "readExec")
Read(s) == opKind = "read" /\ Add(s, "read")
CmpExt(s) == opKind = "write" /\ Add(s, "cmpext")
WriteExec(s) == opKind = "write" /\ Add(s, "writeExec")
(* Write, WriteFull and WriteSame.                                         *)
Write(s) == opKind = "write" /\ Add(s, "write")

(* What librados may report: an operation it performed has touched every   *)
(* result, and then only the decoding of a step's output can have failed;  *)
(* one that failed may have left results as they were.                     *)
Reply(ret, touched, failed) ==
    /\ touched \subseteq steps /\ failed \subseteq touched
    /\ ret = "ok" => touched = steps /\ \A s \in failed : kind[s] \in Reporting

(* Mutated: the errors of the steps are left out, as in operateCompat.     *)
UpdateOutcomeCompat(ret, stepErrors) == IF ret = "ok" THEN "nil" ELSE "error"

UpdateOutcome(ret, stepErrors) ==
    IF ret = "ok" /\ stepErrors = {} THEN "nil" ELSE "error"

(* Operate: the call, and update of every step whatever the call returned. *)
(* Without a valid IOContext it returns before either.                     *)
Operate ==
    /\ handle /\ outcome = "none" /\ holdsOp
    /\ \E ret \in {"ok", "error"}, touched, failed \in SUBSET steps :
          /\ Reply(ret, touched, failed)
          /\ prval' = [s \in Step |-> IF s \in failed THEN "error"
                                      ELSE IF s \in touched THEN "ok" ELSE prval[s]]
          /\ done' = touched \ failed
          /\ \E out \in SUBSET {s \in done' : kind[s] = "readExec"} :
                mem' = [s \in Step |-> IF s \in out THEN "held" ELSE mem[s]]
          /\ can' = {s \in steps : kind[s] \in Readable /\ prval'[s] = "ok"}
          /\ outcome' = UpdateOutcome(ret, {s \in steps : /\ kind[s] \in Reporting
                                                          /\ prval'[s] = "error"})
    /\ UNCHANGED <<opKind, handle, steps, kind, held, holdsOp, copying, fault>>

----------------------------------------------------------------------------
(* free of each kind of step.                                              *)

(* Mutated: the iterator of a GetOmapStep is not forgotten when it is ended. *)
MemFreedKept(s) ==
    IF kind[s] \in Iterator /\ mem[s] # "nil" THEN "dangling" ELSE mem[s]

(* GetOmapStep.free forgets its iterator; ReadOpOmapGetValsByKeysStep.free *)
(* ends its own each time it is called.                                    *)
MemFreed(s) ==
    CASE kind[s] = "omap" -> "nil"
      [] kind[s] = "keys" -> "dangling"
      [] OTHER -> mem[s]

Freed(S) ==
    /\ mem' = [s \in Step |-> IF s \in S THEN MemFreed(s) ELSE mem[s]]
    /\ prval' = [s \in Step |-> IF s \in S /\ kind[s] \in Malloced
                                THEN "nil" ELSE prval[s]]
    /\ can' = can \ {s \in S : kind[s] \in Iterator}
    /\ fault' = IF \E s \in S : kind[s] \in Iterator /\ mem[s] = "dangling"
                THEN "double free" ELSE fault

Release ==
    /\ holdsOp /\ copying = NoStep
    /\ handle \/ ReleaseAgain
    /\ handle' = FALSE
    /\ Freed(steps)
    /\ UNCHANGED <<opKind, steps, kind, done, outcome, held, holdsOp, copying>>

(* The finalizers: a GetOmapStep is freed, a ReadOpExecStep gives up its    *)
(* output buffer.  A method that has loaded what it needs from a step no    *)
(* longer keeps it reachable.                                               *)
Unreachable(s) == s \notin held /\ ~(holdsOp /\ s \in steps)

(* Mutated: ReadOpExecStep has no finalizer.                               *)
FinalizeExecForgotten(s) == FALSE

FinalizeOmap(s) ==
    /\ kind[s] = "omap" /\ Unreachable(s)
    /\ mem[s] # "nil" \/ prval[s] # "nil"
    /\ Freed({s})
    /\ UNCHANGED <<opKind, handle, steps, kind, done, outcome, held, holdsOp,
                   copying>>

FinalizeExec(s) ==
    /\ kind[s] = "readExec" /\ Unreachable(s)
    /\ mem[s] = "held"
    /\ mem' = [mem EXCEPT ![s] = "nil"]
    /\ can' = can \ {s}
    /\ UNCHANGED <<opKind, handle, steps, kind, prval, done, outcome, held,
                   holdsOp, copying, fault>>

----------------------------------------------------------------------------
(* Next of both iterating steps, and Bytes: nothing is touched unless       *)
(* update has allowed it; then C memory is read.                            *)

Copy(s) ==
    /\ copying = NoStep /\ s \in held
    /\ mem[s] # "nil"
    /\ copying' = s
    /\ fault' = IF mem[s] # "held" THEN "use after free" ELSE fault
    /\ UNCHANGED <<opKind, handle, steps, kind, prval, can, mem, done, outcome,
                   held, holdsOp>>

(* Mutated: canIterate is not asked.                                       *)
NextUnchecked(s) == kind[s] \in Iterator /\ Copy(s)

NextPair(s) == kind[s] \in Iterator /\ s \in can /\ Copy(s)
Bytes(s) == kind[s] = "readExec" /\ s \in can /\ Copy(s)

CopyReturn ==
    /\ copying # NoStep
    /\ copying' = NoStep
    /\ fault' = IF mem[copying] # "held" THEN "use after free" ELSE fault
    /\ UNCHANGED <<opKind, handle, steps, kind, prval, can, mem, done, outcome,
                   held, holdsOp>>

(* The application has no more use for a step, or for the operation.       *)
DropStep(s) ==
    /\ s \in held
    /\ s = copying => LastUse
    /\ held' = held \ {s}
    /\ UNCHANGED <<opKind, handle, steps, kind, prval, can, mem, done, outcome,
                   holdsOp, copying, fault>>

DropOp ==
    /\ holdsOp
    /\ holdsOp' = FALSE
    /\ UNCHANGED <<opKind, handle, steps, kind, prval, can, mem, done, outcome,
                   held, copying, fault>>

Next ==
    \/ Operate \/ Release \/ CopyReturn \/ DropOp
    \/ \E s \in Step :
          \/ GetOmapValues(s) \/ GetOmapValuesByKeys(s) \/ ReadExec(s) \/ Read(s)
          \/ CmpExt(s) \/ WriteExec(s) \/ Write(s)
          \/ NextPair(s) \/ Bytes(s)
          \/ FinalizeOmap(s) \/ FinalizeExec(s) \/ DropStep(s)

Spec == Init /\ [][Next]_vars

(* The collector comes round and its finalizers run, in a program that      *)
(* goes on; a started copy ends.                                            *)
FairSpec ==
    /\ Spec
    /\ WF_vars(CopyReturn)
    /\ \A s \in Step : WF_vars(FinalizeOmap(s)) /\ WF_vars(FinalizeExec(s))

----------------------------------------------------------------------------
(* Every variable has its type, and the operation keeps all its steps.     *)
TypeOK ==
    /\ opKind \in {"read", "write"}
    /\ handle \in BOOLEAN /\ holdsOp \in BOOLEAN
    /\ kind \in [Step -> Kind \union {"none"}]
    /\ steps = {s \in Step : kind[s] # "none"}
    /\ prval \in [Step -> {"none", "nil", "ok", "error"}]
    /\ mem \in [Step -> {"nil", "held", "dangling"}]
    /\ can \subseteq steps /\ done \subseteq steps /\ held \subseteq steps
    /\ outcome \in {"none", "nil", "error"}
    /\ copying \in Step \union {NoStep}
    /\ fault \in {"none", "double free", "use after free"}

(* When Operate returns nil every step has been performed, and can be read  *)
(* until its memory goes.  A result left over from before the call, or from *)
(* malloc, does not pass for a success.                                     *)
NilMeansResults ==
    outcome = "nil" =>
        /\ done = steps
        /\ \A s \in steps : kind[s] \in Readable =>
              s \in can \/ prval[s] = "nil" \/ (mem[s] = "nil" /\ Unreachable(s))

(* Release leaves no C memory with the steps but the buffer of a            *)
(* ReadOpExecStep, which is to outlive the operation.                       *)
ReleasedIsFree ==
    ~handle => \A s \in Step : kind[s] # "none" =>
                  /\ kind[s] \in Malloced => prval[s] = "nil"
                  /\ kind[s] # "readExec" => mem[s] # "held"

(* An application that calls Release once and keeps a step until its methods *)
(* have returned never has C memory freed twice or used after that, though  *)
(* Release and the finalizer both free a GetOmapStep.                       *)
NoFault == fault = "none"

(* What the application no longer refers to is given back in the end, for   *)
(* the two kinds of step that have a finalizer.                             *)
Reclaimed ==
    \A s \in Step : Unreachable(s) /\ kind[s] \in Finalized ~> mem[s] = "nil"

----------------------------------------------------------------------------
(* What comments of package rados say and the code does not do             *)

(* "The behavior of free should be idempotent and handle being called more  *)
(* than once" (operation.go:79): an operation that is released again, which *)
(* its own handle survives, does not free the memory of a step twice.       *)
FreeIsIdempotent == fault # "double free"

(* "ErrOperationIncomplete is returned from write op or read op steps for   *)
(* which the operation has not been performed yet" (errors.go:26): what can *)
(* be read is a step librados has performed.  A step of an operation that   *)
(* failed before it, by a timeout, has the result malloc or Go left there.  *)
OnlyPerformedIsRead == can \subseteq done
=============================================================================
