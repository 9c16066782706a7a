--------------------------- MODULE OperationProofs ---------------------------
(***************************************************************************)
(* Safety of Operation for any number of steps of any kind.                *)
(***************************************************************************)
EXTENDS Operation, TLAPS

(* Which steps have C memory, and when it is dangling.                     *)
MemInv ==
    /\ \A s \in Step : mem[s] = "held" => kind[s] \in Readable
    /\ \A s \in Step : mem[s] = "dangling" => kind[s] = "keys" /\ ~handle /\ s \notin can

(* The step whose memory is being read is one the application refers to.   *)
CopyInv == copying # NoStep => copying \in held /\ mem[copying] = "held"

(* What holds whatever the application does.                               *)
IInv == TypeOK /\ MemInv /\ ReleasedIsFree /\ NilMeansResults

(* The invariant holds at the start.                                       *)
LEMMA InitIInv == Init => IInv
BY DEF Init, IInv, TypeOK, MemInv, ReleasedIsFree, NilMeansResults

(* Adding a step of one of the kinds.                                      *)
LEMMA AddIInv ==
    ASSUME IInv, NEW s \in Step, NEW k \in Kind, Add(s, k)
    PROVE  IInv'
<1>. USE DEF IInv
<1>1. TypeOK'
  BY DEF Add, TypeOK, Malloced, Iterator, Kind
<1>2. MemInv'
  BY DEF Add, MemInv, TypeOK, Readable, Iterator, Kind
<1>3. ReleasedIsFree' /\ NilMeansResults'
  BY DEF Add, ReleasedIsFree, NilMeansResults
<1>. QED  BY <1>1, <1>2, <1>3

(* Operate.                                                                *)
LEMMA OperateIInv == ASSUME IInv, Operate PROVE IInv'
<1>. USE DEF IInv
<1>1. PICK ret \in {"ok", "error"}, touched \in SUBSET steps, failed \in SUBSET steps :
         /\ Reply(ret, touched, failed)
         /\ prval' = [s \in Step |-> IF s \in failed THEN "error"
                                     ELSE IF s \in touched THEN "ok" ELSE prval[s]]
         /\ done' = touched \ failed
         /\ \E out \in SUBSET {s \in done' : kind[s] = "readExec"} :
               mem' = [s \in Step |-> IF s \in out THEN "held" ELSE mem[s]]
         /\ can' = {s \in steps : kind[s] \in Readable /\ prval'[s] = "ok"}
         /\ outcome' = UpdateOutcome(ret, {s \in steps : /\ kind[s] \in Reporting
                                                         /\ prval'[s] = "error"})
  BY DEF Operate
<1>2. PICK out \in SUBSET {s \in done' : kind[s] = "readExec"} :
         mem' = [s \in Step |-> IF s \in out THEN "held" ELSE mem[s]]
  BY <1>1
<1>3. handle /\ UNCHANGED <<opKind, handle, steps, kind, held, holdsOp, copying, fault>>
  BY DEF Operate
<1>4. TypeOK'
  BY <1>1, <1>2, <1>3 DEF TypeOK, UpdateOutcome
<1>5. MemInv'
  BY <1>2, <1>3 DEF MemInv, TypeOK, Readable
<1>6. ReleasedIsFree'
  BY <1>3 DEF ReleasedIsFree
<1>7. ASSUME outcome' = "nil" PROVE done' = steps /\ can' = {s \in steps : kind[s] \in Readable}
  <2>1. ret = "ok" /\ \A s \in steps : kind[s] \in Reporting => prval'[s] # "error"
    BY <1>1, <1>7 DEF UpdateOutcome
  <2>2. touched = steps /\ \A s \in failed : kind[s] \in Reporting
    BY <1>1, <2>1 DEF Reply
  <2>3. failed = {}
    BY <1>1, <2>1, <2>2 DEF TypeOK
  <2>. QED  BY <1>1, <2>2, <2>3 DEF TypeOK
<1>8. NilMeansResults'
  BY <1>3, <1>7 DEF NilMeansResults
<1>. QED  BY <1>4, <1>5, <1>6, <1>8

(* Every step keeps the invariant.                                         *)
LEMMA NextIInv == IInv /\ [Next]_vars => IInv'
<1>. SUFFICES ASSUME IInv, [Next]_vars PROVE IInv'
  OBVIOUS
<1>. USE DEF IInv
<1>1. CASE Operate
  BY <1>1, OperateIInv
<1>2. CASE Release
  <2>1. TypeOK'
    BY <1>2 DEF Release, Freed, MemFreed, TypeOK, Kind
  <2>2. MemInv'
    BY <1>2 DEF Release, Freed, MemFreed, MemInv, TypeOK, Kind, Readable, Iterator
  <2>3. ReleasedIsFree'
    BY <1>2 DEF Release, Freed, MemFreed, ReleasedIsFree, MemInv, TypeOK, Readable,
       Iterator
  <2>4. NilMeansResults'
    BY <1>2 DEF Release, Freed, MemFreed, NilMeansResults, Unreachable, TypeOK,
       Readable, Iterator, Malloced
  <2>. QED  BY <2>1, <2>2, <2>3, <2>4
<1>3. ASSUME NEW s \in Step, FinalizeOmap(s)
      PROVE  IInv'
  <2>1. TypeOK' /\ MemInv'
    BY <1>3 DEF FinalizeOmap, Freed, MemFreed, MemInv, TypeOK, Kind, Iterator
  <2>2. ReleasedIsFree'
    BY <1>3 DEF FinalizeOmap, Freed, MemFreed, ReleasedIsFree, TypeOK
  <2>3. NilMeansResults'
    BY <1>3 DEF FinalizeOmap, Freed, MemFreed, NilMeansResults, Unreachable, TypeOK,
       Malloced, Iterator
  <2>. QED  BY <2>1, <2>2, <2>3
<1>4. ASSUME NEW s \in Step, FinalizeExec(s)
      PROVE  IInv'
  BY <1>4 DEF FinalizeExec, TypeOK, MemInv, ReleasedIsFree, NilMeansResults, Unreachable
<1>5. ASSUME NEW s \in Step, NextPair(s) \/ Bytes(s)
      PROVE  IInv'
  <2>1. TypeOK'
    BY <1>5 DEF NextPair, Bytes, Copy, TypeOK
  <2>2. UNCHANGED <<handle, steps, kind, prval, can, mem, done, outcome, held, holdsOp>>
    BY <1>5 DEF NextPair, Bytes, Copy
  <2>3. MemInv' /\ ReleasedIsFree' /\ NilMeansResults'
    BY <2>2 DEF MemInv, ReleasedIsFree, NilMeansResults, Unreachable
  <2>. QED  BY <2>1, <2>3
<1>6. CASE CopyReturn
  <2>1. TypeOK'
    BY <1>6 DEF CopyReturn, TypeOK
  <2>2. MemInv' /\ ReleasedIsFree' /\ NilMeansResults'
    BY <1>6 DEF CopyReturn, MemInv, ReleasedIsFree, NilMeansResults, Unreachable
  <2>. QED  BY <2>1, <2>2
<1>7. ASSUME DropOp \/ \E s \in Step : DropStep(s)
      PROVE  IInv'
  <2>1. /\ UNCHANGED <<opKind, handle, steps, kind, prval, can, mem, done, outcome,
                       copying, fault>>
        /\ held' \subseteq held
    BY <1>7 DEF DropOp, DropStep
  <2>4. holdsOp' \in {FALSE, holdsOp}
    BY <1>7 DEF DropOp, DropStep
  <2>2. TypeOK' /\ MemInv' /\ ReleasedIsFree'
    BY <2>1, <2>4 DEF TypeOK, MemInv, ReleasedIsFree
  <2>3. NilMeansResults'
    BY <2>1, <2>4 DEF NilMeansResults, Unreachable
  <2>. QED  BY <2>2, <2>3
<1>8. ASSUME NEW s \in Step,
             \/ GetOmapValues(s) \/ GetOmapValuesByKeys(s) \/ ReadExec(s) \/ Read(s)
             \/ CmpExt(s) \/ WriteExec(s) \/ Write(s)
      PROVE  IInv'
  BY <1>8, AddIInv DEF GetOmapValues, GetOmapValuesByKeys, ReadExec, Read, CmpExt,
     WriteExec, Write, Kind
<1>9. CASE UNCHANGED vars
  BY <1>9 DEF vars, TypeOK, MemInv, ReleasedIsFree, NilMeansResults, Unreachable
<1>. QED
  BY <1>1, <1>2, <1>3, <1>4, <1>5, <1>6, <1>7, <1>8, <1>9 DEF Next

(* The inductive invariant.                                                *)
LEMMA Invariance == Spec => []IInv
BY InitIInv, NextIInv, PTL DEF Spec

(* The variables keep their types, and the operation keeps its steps.      *)
THEOREM TypeCorrect == Spec => []TypeOK
<1>1. IInv => TypeOK
  BY DEF IInv
<1>. QED  BY <1>1, Invariance, PTL

(* A nil from Operate is good for every step of the operation.             *)
THEOREM NilIsTrue == Spec => []NilMeansResults
<1>1. IInv => NilMeansResults
  BY DEF IInv
<1>. QED  BY <1>1, Invariance, PTL

(* Release gives back what the steps have, whatever state they are in.     *)
THEOREM ReleaseIsComplete == Spec => []ReleasedIsFree
<1>1. IInv => ReleasedIsFree
  BY DEF IInv
<1>. QED  BY <1>1, Invariance, PTL

(* No memory is freed twice or used after it was freed, in an application  *)
(* that releases once and keeps a step until its methods have returned.    *)
THEOREM NoFaultOnceReleased ==
    ASSUME ReleaseAgain = FALSE, LastUse = FALSE
    PROVE  Spec => []NoFault
<1>. DEFINE J == CopyInv /\ NoFault
<1>1. Init => J
  BY DEF Init, CopyInv, NoFault
<1>2. IInv /\ J /\ [Next]_vars => J'
  <2>. SUFFICES ASSUME IInv, J, [Next]_vars PROVE J'
    OBVIOUS
  <2>. USE DEF IInv, CopyInv, NoFault
  <2>1. CASE Operate
    BY <2>1 DEF Operate, TypeOK
  <2>2. CASE Release
    BY <2>2 DEF Release, Freed, MemInv, TypeOK
  <2>3. ASSUME NEW s \in Step, FinalizeOmap(s)
        PROVE  J'
    BY <2>3 DEF FinalizeOmap, Freed, MemInv, Unreachable, TypeOK
  <2>4. ASSUME NEW s \in Step, FinalizeExec(s)
        PROVE  J'
    BY <2>4 DEF FinalizeExec, Unreachable, TypeOK
  <2>5. ASSUME NEW s \in Step, NextPair(s) \/ Bytes(s)
        PROVE  J'
    BY <2>5 DEF NextPair, Bytes, Copy, MemInv, TypeOK
  <2>6. CASE CopyReturn
    BY <2>6 DEF CopyReturn
  <2>7. ASSUME DropOp \/ \E s \in Step : DropStep(s)
        PROVE  J'
    BY <2>7 DEF DropOp, DropStep
  <2>8. ASSUME NEW s \in Step, NEW k \in Kind, Add(s, k)
        PROVE  J'
    BY <2>8, NoStepAssumption DEF Add, TypeOK
  <2>9. CASE UNCHANGED vars
    BY <2>9 DEF vars
  <2>. QED
    BY <2>1, <2>2, <2>3, <2>4, <2>5, <2>6, <2>7, <2>8, <2>9
    DEF Next, GetOmapValues, GetOmapValuesByKeys, ReadExec, Read, CmpExt, WriteExec,
        Write, Kind
<1>3. J => NoFault
  OBVIOUS
<1>. QED  BY <1>1, <1>2, <1>3, Invariance, PTL DEF Spec

(* Memory is freed twice only by a second Release of an operation with a    *)
(* ReadOpOmapGetValsByKeysStep, and used after it was freed only by a       *)
(* finalizer that runs during an application's last call on the step.      *)
THEOREM FaultsHaveCauses ==
    Spec => [](/\ fault = "double free" => ReleaseAgain /\ \E s \in Step : kind[s] = "keys"
               /\ fault = "use after free" => LastUse)
<1>. DEFINE Double == fault = "double free" => ReleaseAgain /\ \E s \in Step : kind[s] = "keys"
            Late == fault = "use after free" => LastUse
            J == (LastUse \/ CopyInv) /\ Double /\ Late
<1>1. Init => J
  BY DEF Init, CopyInv
<1>2. IInv /\ J /\ [Next]_vars => J'
  <2>. SUFFICES ASSUME IInv, J, [Next]_vars PROVE J'
    OBVIOUS
  <2>. USE DEF IInv, CopyInv
  <2>1. CASE Operate
    <3>1. UNCHANGED <<kind, copying, held, fault>>
      BY <2>1 DEF Operate
    <3>2. \E out \in SUBSET Step :
             mem' = [s \in Step |-> IF s \in out THEN "held" ELSE mem[s]]
      <4>1. PICK touched \in SUBSET steps, failed \in SUBSET steps :
               /\ done' = touched \ failed
               /\ \E out \in SUBSET {s \in done' : kind[s] = "readExec"} :
                     mem' = [s \in Step |-> IF s \in out THEN "held" ELSE mem[s]]
        BY <2>1 DEF Operate
      <4>2. SUBSET {s \in done' : kind[s] = "readExec"} \subseteq SUBSET Step
        BY <4>1 DEF TypeOK
      <4>. QED  BY <4>1, <4>2
    <3>3. CopyInv => CopyInv'
      BY <3>1, <3>2 DEF TypeOK
    <3>. QED  BY <3>1, <3>3, Zenon
  <2>2. CASE Release
    <3>1. (\E s \in steps : kind[s] \in Iterator /\ mem[s] = "dangling")
            => ReleaseAgain /\ \E r \in Step : kind[r] = "keys"
      BY <2>2 DEF Release, MemInv, TypeOK
    <3>2. copying' = NoStep /\ kind' = kind
      BY <2>2 DEF Release
    <3>. QED  BY <2>2, <3>1, <3>2 DEF Release, Freed, MemInv, TypeOK
  <2>3. ASSUME NEW s \in Step, FinalizeOmap(s)
        PROVE  J'
    BY <2>3 DEF FinalizeOmap, Freed, MemInv, Unreachable, TypeOK
  <2>4. ASSUME NEW s \in Step, FinalizeExec(s)
        PROVE  J'
    BY <2>4 DEF FinalizeExec, Unreachable, TypeOK
  <2>5. ASSUME NEW s \in Step, NextPair(s) \/ Bytes(s)
        PROVE  J'
    BY <2>5 DEF NextPair, Bytes, Copy, MemInv, TypeOK
  <2>6. CASE CopyReturn
    BY <2>6 DEF CopyReturn
  <2>7. ASSUME DropOp \/ \E s \in Step : DropStep(s)
        PROVE  J'
    BY <2>7 DEF DropOp, DropStep
  <2>8. ASSUME NEW s \in Step, NEW k \in Kind, Add(s, k)
        PROVE  J'
    BY <2>8, NoStepAssumption DEF Add, TypeOK
  <2>9. CASE UNCHANGED vars
    BY <2>9 DEF vars
  <2>. QED
    BY <2>1, <2>2, <2>3, <2>4, <2>5, <2>6, <2>7, <2>8, <2>9
    DEF Next, GetOmapValues, GetOmapValuesByKeys, ReadExec, Read, CmpExt, WriteExec,
        Write, Kind
<1>3. J => Double /\ Late
  OBVIOUS
<1>. QED  BY <1>1, <1>2, <1>3, Invariance, PTL DEF Spec

(* What the collector is to give back stays unreachable, its finalizer can  *)
(* run for as long as it has memory, and no memory comes to it any more:   *)
(* one run of the finalizer is enough.                                     *)
THEOREM UnreachableForGood ==
    Spec => /\ [](\A s \in Step : Unreachable(s) /\ mem[s] # "nil" =>
                    /\ kind[s] = "readExec" => mem[s] = "held"
                    /\ kind[s] = "omap" => mem[s] = "held")
            /\ [][\A s \in Step : Unreachable(s) /\ kind[s] \in Finalized =>
                    /\ Unreachable(s)' /\ kind'[s] = kind[s]
                    /\ mem[s] = "nil" => mem'[s] = "nil"]_vars
<1>. DEFINE Held == \A s \in Step : Unreachable(s) /\ mem[s] # "nil" =>
                      /\ kind[s] = "readExec" => mem[s] = "held"
                      /\ kind[s] = "omap" => mem[s] = "held"
            Stays == \A s \in Step : Unreachable(s) /\ kind[s] \in Finalized =>
                       /\ Unreachable(s)' /\ kind'[s] = kind[s]
                       /\ mem[s] = "nil" => mem'[s] = "nil"
<1>1. IInv => Held
  BY DEF IInv, TypeOK, MemInv
<1>2. IInv /\ [Next]_vars => [Stays]_vars
  <2>. SUFFICES ASSUME IInv, Next, NEW s \in Step, Unreachable(s), kind[s] \in Finalized
                PROVE  /\ Unreachable(s)' /\ kind'[s] = kind[s]
                       /\ mem[s] = "nil" => mem'[s] = "nil"
    OBVIOUS
  <2>. USE DEF IInv, Unreachable
  <2>1. s \in steps /\ s \notin held /\ ~holdsOp
    BY DEF TypeOK, Finalized
  <2>2. CASE Operate \/ Release
    BY <2>1, <2>2 DEF Operate, Release
  <2>3. ASSUME NEW r \in Step, FinalizeOmap(r) \/ FinalizeExec(r)
        PROVE  /\ Unreachable(s)' /\ kind'[s] = kind[s]
               /\ mem[s] = "nil" => mem'[s] = "nil"
    <3>1. UNCHANGED <<held, holdsOp, steps, kind>>
      BY <2>3 DEF FinalizeOmap, FinalizeExec
    <3>2. CASE FinalizeOmap(r)
      <4>1. mem'[s] = IF s \in {r} THEN MemFreed(s) ELSE mem[s]
        BY <3>2 DEF FinalizeOmap, Freed
      <4>2. s = r => kind[s] = "omap" /\ MemFreed(s) = "nil"
        BY <3>2 DEF FinalizeOmap, MemFreed
      <4>. QED  BY <2>1, <3>1, <4>1, <4>2
    <3>3. CASE FinalizeExec(r)
      <4>1. mem[s] = "nil" => mem'[s] = "nil"
        BY <3>3 DEF FinalizeExec, TypeOK
      <4>. QED  BY <2>1, <3>1, <4>1
    <3>. QED  BY <2>3, <3>2, <3>3
  <2>4. ASSUME CopyReturn \/ DropOp \/ \E r \in Step : NextPair(r) \/ Bytes(r) \/ DropStep(r)
        PROVE  /\ Unreachable(s)' /\ kind'[s] = kind[s]
               /\ mem[s] = "nil" => mem'[s] = "nil"
    <3>1. CASE CopyReturn
      BY <2>1, <3>1 DEF CopyReturn
    <3>2. CASE DropOp
      BY <2>1, <3>2 DEF DropOp
    <3>3. ASSUME NEW r \in Step, NextPair(r) \/ Bytes(r)
          PROVE  UNCHANGED <<steps, kind, mem, held, holdsOp>>
      BY <3>3 DEF NextPair, Bytes, Copy
    <3>4. ASSUME NEW r \in Step, DropStep(r)
          PROVE  UNCHANGED <<steps, kind, mem, holdsOp>> /\ held' \subseteq held
      BY <3>4 DEF DropStep
    <3>5. CASE \E r \in Step : NextPair(r) \/ Bytes(r) \/ DropStep(r)
      BY <2>1, <3>3, <3>4, <3>5
    <3>. QED  BY <2>4, <3>1, <3>2, <3>5
  <2>5. ASSUME NEW r \in Step, NEW k \in Kind, Add(r, k)
        PROVE  FALSE
    BY <2>1, <2>5 DEF Add
  <2>. QED
    BY <2>2, <2>3, <2>4, <2>5
    DEF Next, GetOmapValues, GetOmapValuesByKeys, ReadExec, Read, CmpExt, WriteExec,
        Write, Kind
<1>. QED  BY <1>1, <1>2, Invariance, PTL DEF Spec
=============================================================================
