---------------------------- MODULE InternalProofs ----------------------------
(***************************************************************************)
(* What other packages lean on under internal/: the resize loop of         *)
(* internal/retry, for every first size, every maximum and every sequence  *)
(* of lengths and hints; and the commands of internal/commands.  The two    *)
(* have no variable in common: CmdSpec says nothing of those of Spec.      *)
(***************************************************************************)
EXTENDS Retry, Admin, TLAPS

(* What the loop knows after a call: a hint means that the buffer was too   *)
(* small, unless one is given for any error, and the loop stops over a     *)
(* hint only at the maximum.                                               *)
LoopInv ==
    /\ pc = "check" /\ hint # NoHint /\ kind # "always" => result = "range"
    /\ pc \in {"check", "done"} /\ result = "range" => hint # NoHint /\ seen > size
    /\ pc = "done" => hint = NoHint \/ size = MaxSize

(* A call still to be made costs one of the sizes left.                    *)
TriesInv == IF pc = "call" THEN tries < size ELSE tries <= size

(* The inductive invariant.                                                *)
IInv == TypeOK /\ LoopInv /\ TriesInv

(* The next size is larger than the last and within the maximum.           *)
LEMMA GrowIsLarger ==
    ASSUME TypeOK, Grow
    PROVE  size' > size /\ size' \in MinSize .. MaxSize
BY SizeAssumption DEF TypeOK, Grow, Wanted, NoHint

(* The invariant holds at the start.                                       *)
LEMMA InitIInv == Init => IInv
BY SizeAssumption, LenAssumption
   DEF Init, Kind, IInv, TypeOK, LoopInv, TriesInv, NoHint, MaxTries

(* Every step keeps it.                                                    *)
LEMMA NextIInv == IInv /\ [Next]_vars => IInv'
<1>. SUFFICES ASSUME IInv, [Next]_vars PROVE IInv'
  OBVIOUS
<1>. USE SizeAssumption, LenAssumption DEF IInv
<1>1. CASE Change
  BY <1>1 DEF TypeOK, LoopInv, TriesInv, Change
<1>2. CASE Call
  <2>1. TypeOK'
    BY <1>2 DEF TypeOK, Kind, Call, TooSmall, NoHint, DoubleSize, MaxTries
  <2>2. LoopInv'
    BY <1>2 DEF TypeOK, Kind, LoopInv, Call, TooSmall, NoHint, DoubleSize
  <2>3. TriesInv'
    BY <1>2 DEF TypeOK, TriesInv, Call, MaxTries
  <2>. QED  BY <2>1, <2>2, <2>3
<1>3. CASE Stop
  BY <1>3 DEF TypeOK, LoopInv, TriesInv, Stop
<1>4. CASE Grow
  <2>1. size' > size /\ size' \in MinSize .. MaxSize
    BY <1>4, GrowIsLarger
  <2>2. TypeOK'
    BY <1>4, <2>1 DEF TypeOK, Grow
  <2>3. LoopInv'
    BY <1>4 DEF LoopInv, Grow
  <2>4. TriesInv'
    BY <1>4, <2>1 DEF TypeOK, TriesInv, Grow, MaxTries
  <2>. QED  BY <2>2, <2>3, <2>4
<1>5. CASE UNCHANGED vars
  BY <1>5 DEF vars, TypeOK, LoopInv, TriesInv
<1>. QED  BY <1>1, <1>2, <1>3, <1>4, <1>5 DEF Next

(* The inductive invariant is an invariant.                                *)
LEMMA Invariance == Spec => []IInv
BY InitIInv, NextIInv, PTL DEF Spec

(* Type correctness: no buffer exceeds the maximum.                        *)
THEOREM TypeCorrect == Spec => []TypeOK
<1>1. IInv => TypeOK
  BY DEF IInv
<1>. QED  BY <1>1, Invariance, PTL

(* "Too small" is reported only after an attempt with the maximum.         *)
THEOREM LastTryIsMax == Spec => []GivesUpOnlyAtMax
<1>1. IInv => GivesUpOnlyAtMax
  BY DEF IInv, TypeOK, LoopInv, GivesUpOnlyAtMax
<1>. QED  BY <1>1, Invariance, PTL

(* Buffers grow with every retry, and there are no more attempts than       *)
(* sizes.                                                                  *)
THEOREM Growth == Spec => RetriesGrow
<1>. DEFINE Larger == pc = "check" /\ pc' = "call" => size' > size
<1>1. IInv /\ [Next]_vars => [Larger]_vars
  BY GrowIsLarger DEF IInv, Next, Change, Call, Stop
<1>2. IInv => tries <= size
  BY SizeAssumption DEF IInv, TypeOK, TriesInv, MaxTries
<1>. QED  BY <1>1, <1>2, Invariance, PTL DEF Spec, RetriesGrow
----------------------------------------------------------------------------
(* What an exact hint is worth while nothing changes: it is the length of   *)
(* what is listed, so that the second buffer is large enough for it, or    *)
(* the largest there is.                                                   *)
ExactInv ==
    /\ pc # "call" => tries > 0
    /\ kind = "exact" =>
          /\ hint # NoHint => hint = seen
          /\ stable /\ tries > 0 => seen = len
          /\ stable /\ pc = "call" =>
                tries = 0 \/ (tries = 1 /\ (len <= size \/ size = MaxSize))
          /\ stable /\ pc = "check" =>
                tries = 1 \/ (tries = 2 /\ (hint = NoHint \/ size = MaxSize))
          /\ stable /\ pc = "done" => tries <= 2

(* It holds at the start.                                                  *)
LEMMA InitExact == Init => ExactInv
BY DEF Init, ExactInv, NoHint

(* Every step keeps it.                                                    *)
LEMMA NextExact == IInv /\ ExactInv /\ [Next]_vars => ExactInv'
<1>. SUFFICES ASSUME IInv, ExactInv, [Next]_vars PROVE ExactInv'
  OBVIOUS
<1>. USE SizeAssumption, LenAssumption DEF ExactInv
<1>1. CASE Change
  <2>1. /\ stable' => stable /\ (tries = 0 \/ len' = len)
        /\ UNCHANGED <<kind, pc, size, hint, seen, tries>>
    BY <1>1 DEF Change
  <2>. QED  BY <2>1 DEF IInv, TypeOK, MaxTries
<1>2. CASE Call
  BY <1>2 DEF Call, TooSmall, IInv, TypeOK, MaxTries, NoHint
<1>3. CASE Stop
  BY <1>3 DEF Stop, IInv, TypeOK
<1>4. CASE Grow
  <2>1. /\ pc = "check" /\ pc' = "call" /\ hint # NoHint /\ size # MaxSize
        /\ size' = IF Wanted > MaxSize THEN MaxSize ELSE Wanted
        /\ UNCHANGED <<kind, len, hint, seen, tries, stable>>
    BY <1>4 DEF Grow
  <2>2. kind = "exact" => seen > size
    BY <2>1 DEF IInv, LoopInv
  <2>3. kind = "exact" => Wanted = seen
    BY <2>1, <2>2 DEF Wanted
  <2>. QED  BY <2>1, <2>3 DEF IInv, TypeOK
<1>5. CASE UNCHANGED vars
  BY <1>5 DEF vars
<1>. QED  BY <1>1, <1>2, <1>3, <1>4, <1>5 DEF Next

(* With an exact hint two attempts are enough, whatever the sizes, unless   *)
(* what is listed changes under the loop.                                  *)
THEOREM ExactHints == Spec => []ExactHintTwice
<1>1. IInv /\ ExactInv => ExactHintTwice
  BY DEF IInv, TypeOK, ExactInv, ExactHintTwice
<1>2. IInv /\ ExactInv /\ [Next]_vars => ExactInv'
  BY NextExact
<1>. QED  BY <1>1, <1>2, InitExact, Invariance, PTL DEF Spec

----------------------------------------------------------------------------
(* A command of an admin package.                                          *)

(* The names of pipelines that Outcome knows.                              *)
Names == {"noData", "emptyBody", "object", "apply", "list", "deprecated", "deleted",
          "path", "clone", "volumeStatus", "dump", "exportInfo", "blocklist", "resize",
          "pick", "end"}

(* The tables give a command no other.                                     *)
LEMMA PipelinesAreNamed == Pipelines \subseteq Names
<1>1. /\ Range(SubVolumeListCalls) \subseteq Names
      /\ Range(ResizeCalls) \subseteq Names
      /\ Range(SubVolumePathCalls) \subseteq Names
      /\ Range(SubVolumeInfoCalls) \subseteq Names
      /\ Range(SnapshotListCalls) \subseteq Names
      /\ Range(SnapshotInfoCalls) \subseteq Names
      /\ Range(SnapshotPathCalls) \subseteq Names
      /\ Range(GroupCalls) \subseteq Names
      /\ Range(CloneCalls) \subseteq Names
  BY DEF Range, Names,
         SubVolumeListCalls, ResizeCalls,
         SubVolumePathCalls, SubVolumeInfoCalls,
         SnapshotListCalls, SnapshotInfoCalls,
         SnapshotPathCalls, GroupCalls, CloneCalls
<1>2. /\ Range(CloneStatusCalls) \subseteq Names
      /\ Range(MetadataCalls) \subseteq Names
      /\ Range(SnapshotMetadataCalls) \subseteq Names
      /\ Range(QuiesceCalls) \subseteq Names
      /\ Range(PeerTokenCalls) \subseteq Names
      /\ Range(DaemonStatusCalls) \subseteq Names
      /\ Range(PeerListCalls) \subseteq Names
      /\ Range(VolumeListCalls) \subseteq Names
      /\ Range(EnumerateCalls) \subseteq Names
  BY DEF Range, Names,
         CloneStatusCalls, MetadataCalls,
         SnapshotMetadataCalls, QuiesceCalls,
         PeerTokenCalls, DaemonStatusCalls,
         PeerListCalls, VolumeListCalls, EnumerateCalls
<1>3. /\ Range(VolumeStatusCalls) \subseteq Names
      /\ Range(VolumeInfoCalls) \subseteq Names
      /\ Range(ModuleCalls) \subseteq Names
      /\ Range(ExportCalls) \subseteq Names
      /\ Range(GatewayCalls) \subseteq Names
      /\ Range(BlocklistCalls) \subseteq Names
      /\ Range(BlocklistOpCalls) \subseteq Names
      /\ Range(SmbCalls) \subseteq Names
      /\ Range(ScheduleCalls) \subseteq Names
      /\ Range(TaskCalls) \subseteq Names
  BY DEF Range, Names,
         VolumeStatusCalls, VolumeInfoCalls,
         ModuleCalls, ExportCalls, GatewayCalls,
         BlocklistCalls, BlocklistOpCalls, SmbCalls,
         ScheduleCalls, TaskCalls
<1>4. \A cs : \A name \in Names : Range(All(cs, name)) \subseteq Names
  BY DEF Range, All
<1>5. /\ Range(SubVolumeCalls) \subseteq Names
      /\ Range(SnapshotCalls) \subseteq Names
      /\ Range(ProtectCalls) \subseteq Names
      /\ Range(PinCalls) \subseteq Names
      /\ Range(SnapshotMirrorCalls) \subseteq Names
      /\ Range(SmbRemoveCalls) \subseteq Names
  BY <1>4, Zenon DEF Names,
         SubVolumeCalls, SnapshotCalls, ProtectCalls,
         PinCalls, SnapshotMirrorCalls,
         SmbRemoveCalls
<1>. HIDE DEF Names
<1>. QED
  BY <1>1, <1>2, <1>3, <1>5 DEF Pipelines

(* What a pipeline is called with: an answer of the server, or an error     *)
(* from before there was one.                                              *)
Told == [err : {"nil", "einval", "other", "ErrNotConnected", "marshal"},
         status : Status, body : Body]

(* A response with an error goes through every pipeline as it is, but for   *)
(* one text that CloneSubVolumeSnapshot looks for.                         *)
LEMMA ErrorsGoThrough ==
    ASSUME NEW p \in Names, NEW q \in Told, q.err # "nil"
    PROVE  \/ Outcome(p, q) = End(q)
           \/ p = "clone" /\ q.status = "unprotected"
<1>. USE DEF Told, Status, Body
<1>1. ~Ok(q)
  BY DEF Ok
<1>2. /\ NoStatus(q) = q /\ NoBody(q) = q /\ EmptyBody(q) = q
      /\ \A s : FilterStatus(q, s) = q
      /\ \A b : FilterBodyPrefix(q, b) = q
      /\ \A b : Unmarshal(q, b) = q
  <2>1. NoStatus(q) = q /\ NoBody(q) = q
    BY <1>1 DEF NoStatus, NoBody
  <2>2. EmptyBody(q) = q
    BY <1>1 DEF EmptyBody
  <2>3. \A s : FilterStatus(q, s) = q
    BY <1>1, Zenon DEF FilterStatus
  <2>4. \A b : FilterBodyPrefix(q, b) = q
    BY <1>1, Zenon DEF FilterBodyPrefix
  <2>5. \A b : Unmarshal(q, b) = q
    BY <1>1, Zenon DEF Unmarshal
  <2>. QED  BY <2>1, <2>2, <2>3, <2>4, <2>5
<1>3. NoData(q) = q /\ FilterDeprecated(q) = q
  BY <1>2 DEF NoData, FilterDeprecated
<1>4. p \in {"noData", "emptyBody", "object", "apply", "list", "deprecated", "deleted",
             "end"} => Outcome(p, q) = End(q)
  BY <1>2, <1>3 DEF Outcome
<1>5. CASE p \in {"path", "volumeStatus", "dump", "exportInfo"}
  BY <1>1, <1>2, <1>5 DEF Outcome, PathResponse,
     VolumeStatusResponse, DumpResponse, ExportInfoResponse
<1>6. CASE p \in {"clone", "blocklist", "resize", "pick"}
  BY <1>1, <1>2, <1>3, <1>6 DEF Outcome, CloneResponse,
     BlocklistResponse, ResizeResponse, PickResponse
<1>. QED  BY <1>4, <1>5, <1>6 DEF Names

(* What End makes of a response.                                           *)
LEMMA EndIs ==
    ASSUME NEW q \in Told
    PROVE  /\ End(q) = "nil" => q.err = "nil"
           /\ End(q) \notin {"panic", "none"}
           /\ q.err = "einval" /\ q.status = "missing" =>
                 End(q) = "NotImplementedError"
           /\ q.err \in {"ErrNotConnected", "marshal"} => End(q) = q.err
BY DEF Told, End

(* The steps of a pipeline, of a response without an error.                *)
LEMMA StepsAre ==
    ASSUME NEW q \in Told, q.err = "nil"
    PROVE  /\ Ok(NoStatus(q)) => q.status = "" /\ NoStatus(q) = q
           /\ End(NoStatus(q)) = "nil" => q.status = ""
           /\ End(NoData(q)) = "nil" => q.status = "" /\ q.body = ""
           /\ End(EmptyBody(NoStatus(q))) = "nil" =>
                 q.status = "" /\ q.body \in {"", "{}"}
           /\ \A b : End(Unmarshal(NoStatus(q), b)) \notin {"none", "panic"}
           /\ \A b : End(Unmarshal(NoStatus(q), b)) = "nil" =>
                 q.status = "" /\ q.body \in b
<1>. USE DEF Told, Status, Body, Ok, End
<1>1. /\ q.status = "" => NoStatus(q) = q
      /\ q.status # "" => NoStatus(q) = [q EXCEPT !.err = "ErrStatusNotEmpty"]
  BY DEF NoStatus
<1>2. /\ Ok(NoStatus(q)) => q.status = "" /\ NoStatus(q) = q
      /\ End(NoStatus(q)) = "nil" => q.status = ""
  BY <1>1
<1>3. End(NoData(q)) = "nil" => q.status = "" /\ q.body = ""
  BY <1>1 DEF NoData, NoBody
<1>4. End(EmptyBody(NoStatus(q))) = "nil" =>
          q.status = "" /\ q.body \in {"", "{}"}
  BY <1>1 DEF EmptyBody
<1>5. ASSUME NEW b
      PROVE  /\ End(Unmarshal(NoStatus(q), b)) \notin {"none", "panic"}
             /\ End(Unmarshal(NoStatus(q), b)) = "nil" =>
                   q.status = "" /\ q.body \in b
  BY <1>1 DEF Unmarshal
<1>. QED  BY <1>2, <1>3, <1>4, <1>5

(* What a command has read of the response when it returns no error.        *)
LEMMA NilIsRead ==
    ASSUME pipeline \in Names, r \in Told, r.err = "nil",
           Outcome(pipeline, r) = "nil"
    PROVE  /\ StatusLeft => pipeline \in {"blocklist", "end", "path"}
           /\ BodyLeft => pipeline = "end"
<1>1. CASE pipeline \in {"end", "blocklist", "path"}
  BY <1>1 DEF StatusLeft, BodyLeft
<1>2. CASE pipeline = "noData"
  <2>1. r.status = "" /\ r.body = ""
    BY <1>2, StepsAre DEF Outcome
  <2>. QED  BY <1>2, <2>1 DEF StatusLeft, BodyLeft
<1>3. CASE pipeline = "emptyBody"
  <2>1. r.status = "" /\ r.body \in {"", "{}"}
    BY <1>3, StepsAre DEF Outcome
  <2>. QED  BY <1>3, <2>1 DEF StatusLeft, BodyLeft
<1>4. CASE pipeline \in {"object", "apply", "list", "resize", "pick"}
  <2>1. r.status = ""
    BY <1>4, StepsAre DEF Outcome, ResizeResponse, PickResponse
  <2>. QED  BY <1>4, <2>1 DEF StatusLeft, BodyLeft
<1>5. CASE pipeline \in {"volumeStatus", "exportInfo"}
  <2>1. r.status = ""
    BY <1>5, StepsAre DEF Outcome, VolumeStatusResponse,
       ExportInfoResponse
  <2>. QED  BY <1>5, <2>1 DEF StatusLeft, BodyLeft
<1>6. CASE pipeline = "clone"
  <2>1. r.status = "" /\ r.body = ""
    BY <1>6, StepsAre DEF Outcome, CloneResponse
  <2>. QED  BY <1>6, <2>1 DEF StatusLeft, BodyLeft
<1>7. CASE pipeline = "deprecated"
  <2>. DEFINE q == FilterDeprecated(r)
  <2>1. /\ q \in Told /\ q.err = "nil" /\ q.body = r.body
        /\ q.status = "" => r.status \in {"", "deprecated"}
    BY DEF Told, FilterDeprecated, FilterStatus, Ok, Status
  <2>2. Outcome(pipeline, r) = End(NoData(q))
    BY <1>7 DEF Outcome
  <2>. HIDE DEF q
  <2>3. r.status \in {"", "deprecated"} /\ r.body = ""
    BY <2>1, <2>2, StepsAre
  <2>. QED  BY <1>7, <2>3 DEF StatusLeft, BodyLeft
<1>8. CASE pipeline = "deleted"
  <2>. DEFINE q == FilterBodyPrefix(r, "deleted")
  <2>1. /\ q \in Told /\ q.err = "nil" /\ q.status = r.status
        /\ q.body = "" => r.body \in {"", "deleted"}
    BY DEF Told, FilterBodyPrefix, Ok, Body
  <2>2. Outcome(pipeline, r) = End(NoData(q))
    BY <1>8 DEF Outcome
  <2>. HIDE DEF q
  <2>3. r.status = "" /\ r.body \in {"", "deleted"}
    BY <2>1, <2>2, StepsAre
  <2>. QED  BY <1>8, <2>3 DEF StatusLeft, BodyLeft
<1>9. CASE pipeline = "dump"
  <2>. DEFINE q == FilterStatus(r, "dumped")
  <2>1. /\ q \in Told /\ q.err = "nil"
        /\ q.status = "" => r.status \in {"", "dumped"}
    BY DEF Told, FilterStatus, Ok, Status
  <2>2. Outcome(pipeline, r) =
            End(Unmarshal(NoStatus(q), Objects))
    BY <1>9 DEF Outcome, DumpResponse
  <2>. HIDE DEF q
  <2>3. r.status \in {"", "dumped"}
    BY <2>1, <2>2, StepsAre
  <2>. QED  BY <1>9, <2>3 DEF StatusLeft, BodyLeft
<1>. QED  BY <1>1, <1>2, <1>3, <1>4, <1>5, <1>6, <1>7, <1>8, <1>9 DEF Names

(* The one pipeline that can panic.                                        *)
LEMMA PanicIs ==
    ASSUME NEW p \in Names, NEW q \in Told, Outcome(p, q) = "panic"
    PROVE  p = "resize" /\ q.err = "nil" /\ q.status = "" /\ q.body = "[]"
<1>1. q.err = "nil"
  <2>. SUFFICES ASSUME q.err # "nil" PROVE FALSE
    OBVIOUS
  <2>1. p = "clone" /\ q.status = "unprotected"
    BY ErrorsGoThrough, EndIs
  <2>. QED  BY <2>1 DEF Outcome, CloneResponse
<1>2. /\ End(NoStatus(q)) # "panic"
      /\ End(NoData(q)) # "panic"
      /\ End(EmptyBody(NoStatus(q))) # "panic"
  BY DEF Told, End, NoStatus, NoBody, NoData,
     EmptyBody
<1>3. CASE p \in {"noData", "emptyBody", "path", "clone", "end"}
  BY <1>2, <1>3, EndIs DEF Outcome, PathResponse, CloneResponse
<1>4. CASE p \in {"deprecated", "deleted", "dump"}
  <2>. DEFINE status == FilterStatus(q, "dumped")
              suffix == FilterDeprecated(q)
              body == FilterBodyPrefix(q, "deleted")
  <2>1. status \in Told /\ status.err = "nil" /\ suffix \in Told /\ body \in Told
    BY <1>1 DEF Told, FilterStatus, FilterDeprecated,
       FilterBodyPrefix, Status, Body
  <2>. HIDE DEF status, suffix, body
  <2>2. /\ End(NoData(suffix)) # "panic"
        /\ End(NoData(body)) # "panic"
    BY <2>1 DEF Told, End, NoStatus, NoBody, NoData
  <2>3. End(Unmarshal(NoStatus(status), Objects)) # "panic"
    BY <2>1, StepsAre
  <2>. QED  BY <1>4, <2>2, <2>3 DEF Outcome, DumpResponse, status, suffix, body
<1>5. CASE p \in {"object", "apply", "list", "volumeStatus", "exportInfo", "blocklist", "pick"}
  BY <1>1, <1>5, StepsAre, EndIs
     DEF Outcome, VolumeStatusResponse, ExportInfoResponse,
         BlocklistResponse, PickResponse
<1>6. CASE p = "resize"
  <2>1. /\ Ok(Unmarshal(NoStatus(q), Lists))
        /\ q.body = "[]"
    BY <1>1, <1>6, StepsAre DEF Outcome, ResizeResponse
  <2>2. q.status = ""
    BY <1>1, <2>1 DEF Ok, Unmarshal, NoStatus, Told, Lists
  <2>. QED  BY <1>1, <1>6, <2>1, <2>2
<1>. QED  BY <1>3, <1>4, <1>5, <1>6 DEF Names

(* A command that has come to its end has the error that its pipeline makes *)
(* of what it was told, or was refused before it was sent.                 *)
CommandInv ==
    /\ step \in {"send", "serve", "parse", "done"} /\ pipeline \in Names
    /\ step \in {"send", "serve", "parse"} => out = "none"
    /\ step = "serve" => conn
    /\ step = "parse" \/ (step = "done" /\ out # "invalid") =>
          /\ r \in Told
          /\ r.err = "nil" => executed
          /\ ~conn => r.err \in {"ErrNotConnected", "marshal"} /\ r.status = ""
    /\ step = "done" => out = "invalid" \/ out = Outcome(pipeline, r)

(* It holds at the start.                                                  *)
LEMMA InitCommand == CmdInit => CommandInv
BY PipelinesAreNamed DEF CmdInit, CommandInv

(* Every step keeps it.                                                    *)
LEMMA NextCommand == CommandInv /\ [CmdNext]_cmdVars => CommandInv'
<1>. SUFFICES ASSUME CommandInv, [CmdNext]_cmdVars PROVE CommandInv'
  OBVIOUS
<1>1. CASE Refuse
  BY <1>1 DEF Refuse, CommandInv
<1>2. CASE Send \/ MarshalFails
  BY <1>2 DEF Send, MarshalFails, CommandInv, Told, NoReply, Status, Body
<1>3. CASE Serve
  BY <1>3 DEF Serve, CommandInv, Told, Reply, ReplyErr
<1>4. CASE Parse
  <2>1. Outcome(pipeline, r)' = Outcome(pipeline, r)
    BY <1>4 DEF Parse
  <2>. QED  BY <1>4, <2>1 DEF Parse, CommandInv
<1>5. CASE UNCHANGED cmdVars
  BY <1>5 DEF cmdVars, CommandInv
<1>. QED  BY <1>1, <1>2, <1>3, <1>4, <1>5 DEF CmdNext

(* The invariant is one.                                                   *)
LEMMA CommandInvariance == CmdSpec => []CommandInv
BY InitCommand, NextCommand, PTL DEF CmdSpec

(* A command that returns no error has been carried out; a status that is   *)
(* left was passed over by parsePathResponse or by a command of the        *)
(* blocklist, and a body by one that changes the blocklist.                *)
THEOREM NilIsDone == CmdSpec => []NilMeansDone
<1>1. ASSUME CommandInv, out = "nil"
      PROVE  /\ executed /\ r.err = "nil"
             /\ StatusLeft => pipeline \in {"blocklist", "end", "path"}
             /\ BodyLeft => pipeline = "end"
  <2>1. /\ step = "done" /\ pipeline \in Names /\ r \in Told
        /\ Outcome(pipeline, r) = "nil"
    BY <1>1 DEF CommandInv
  <2>2. r.err = "nil"
    <3>. SUFFICES ASSUME r.err # "nil" PROVE FALSE
      OBVIOUS
    <3>1. pipeline = "clone" /\ r.status = "unprotected"
      BY <2>1, ErrorsGoThrough, EndIs
    <3>. QED  BY <2>1, <3>1 DEF Outcome, CloneResponse
  <2>. QED  BY <1>1, <2>1, <2>2, NilIsRead DEF CommandInv
<1>2. CommandInv => NilMeansDone
  BY <1>1 DEF NilMeansDone
<1>. QED  BY <1>2, CommandInvariance, PTL

(* A command the server does not know is told from one it refuses, and a    *)
(* caller without a connection learns that unless the command could not be *)
(* encoded, through whatever pipeline.                                     *)
THEOREM RefusalsGoThrough == CmdSpec => []RefusalsAreTold
<1>1. ASSUME CommandInv, step = "done", out # "invalid"
      PROVE  /\ r.err = "einval" /\ r.status = "missing" => out = "NotImplementedError"
             /\ ~conn => out = IF r.err = "marshal" THEN "marshal" ELSE "ErrNotConnected"
  <2>1. /\ pipeline \in Names /\ r \in Told /\ out = Outcome(pipeline, r)
        /\ ~conn => r.err \in {"ErrNotConnected", "marshal"} /\ r.status = ""
    BY <1>1 DEF CommandInv
  <2>. QED  BY <2>1, ErrorsGoThrough, EndIs
<1>2. CommandInv => RefusalsAreTold
  BY <1>1 DEF RefusalsAreTold
<1>. QED  BY <1>2, CommandInvariance, PTL

(* Of all commands ResizeSubVolume alone can stop the caller, and only when *)
(* the server answers it with an empty list and nothing else.              *)
THEOREM PanicsAreKnown ==
    CmdSpec => [](out = "panic" =>
        pipeline = "resize" /\ conn /\ executed /\ r.status = "" /\ r.body = "[]")
<1>1. ASSUME CommandInv, out = "panic"
      PROVE  pipeline = "resize" /\ conn /\ executed /\ r.status = "" /\ r.body = "[]"
  <2>1. /\ step = "done" /\ pipeline \in Names /\ r \in Told
        /\ Outcome(pipeline, r) = "panic"
    BY <1>1 DEF CommandInv
  <2>2. pipeline = "resize" /\ r.err = "nil" /\ r.status = "" /\ r.body = "[]"
    BY <2>1, PanicIs
  <2>3. executed
    BY <1>1, <2>1, <2>2 DEF CommandInv
  <2>4. conn
    BY <1>1, <2>1, <2>2 DEF CommandInv
  <2>. QED  BY <2>2, <2>3, <2>4
<1>2. CommandInv => (out = "panic" =>
          pipeline = "resize" /\ conn /\ executed /\ r.status = "" /\ r.body = "[]")
  BY <1>1
<1>. QED  BY <1>2, CommandInvariance, PTL
=============================================================================
