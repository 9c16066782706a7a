---------------------------- MODULE WatcherProofs ----------------------------
(***************************************************************************)
(* Safety of Watcher for any number of watchers, librados threads and      *)
(* goroutines.                                                             *)
(***************************************************************************)
EXTENDS Watcher, TLAPS

(* What a goroutine in the middle of Delete has closed so far.             *)
ClosedAt(pc) ==
    {ch \in Channel : \/ ch = "done" /\ pc \in {"closeEvents", "closeErrors"}
                      \/ ch = "events" /\ pc = "closeErrors"}

(* Watch works under the lock on a watcher nobody has seen yet.            *)
WatchInv ==
    /\ \A a \in App : app[a].pc \in {"watch", "register"} => mtx = a
    /\ \A a \in App : app[a].pc = "register" =>
                         app[a].w \in rados /\ app[a].w \notin returned
    /\ \A w \in W : w \notin returned => closed[w] = {}

(* Delete owns the watcher it has taken out of the map.                    *)
DeleteInv ==
    /\ \A a \in App : app[a].pc \in Deleting =>
          /\ app[a].w \in returned /\ app[a].w \notin watchers
          /\ closed[app[a].w] = ClosedAt(app[a].pc)
    /\ \A a, b \in App :
          app[a].pc \in Deleting /\ app[b].pc \in Deleting /\ app[a].w = app[b].w
          => a = b

(* Callbacks only get past the lookup with a watcher Watch has returned,    *)
(* and w.done is the first channel to be closed.                            *)
CallbackInv ==
    /\ \A c \in CB : cb[c].pc \in {"select", "blocked"} => cb[c].w \in returned
    /\ \A w \in W : closed[w] # {} => "done" \in closed[w]

(* The inductive invariant.                                                *)
IInv == /\ TypeOK /\ RegisteredIsLive /\ NoDoubleClose /\ BlockedIsOpen
        /\ WatchInv /\ DeleteInv /\ CallbackInv

(* The invariant holds at the start.                                       *)
LEMMA InitIInv == Init => IInv
BY NoThreadAssumption
   DEF Init, IInv, TypeOK, RegisteredIsLive, NoDoubleClose, BlockedIsOpen,
       WatchInv, DeleteInv, CallbackInv, Channel, Stream, CBState, CBIdle,
       AppState, AppIdle, Deleting, ConsumerState

(* Every step keeps it: one step of the proof per action of the module, and *)
(* under it one per conjunct of the invariant the action can disturb.       *)
LEMMA NextIInv == IInv /\ [Next]_vars => IInv'
<1>. SUFFICES ASSUME IInv, [Next]_vars PROVE IInv'
  OBVIOUS
<1>1. ASSUME NEW a \in App, WatchLock(a)
      PROVE  IInv'
  <2>1. TypeOK'
    BY <1>1 DEF IInv, TypeOK, WatchLock, AppState, Deleting
  <2>2. WatchInv'
    BY <1>1, NoThreadAssumption DEF IInv, WatchInv, WatchLock, Unlocked
  <2>3. DeleteInv'
    BY <1>1 DEF IInv, DeleteInv, WatchLock, RegisteredIsLive, Deleting
  <2>4. RegisteredIsLive' /\ NoDoubleClose' /\ BlockedIsOpen' /\ CallbackInv'
    BY <1>1 DEF IInv, RegisteredIsLive, NoDoubleClose, BlockedIsOpen,
       CallbackInv, WatchLock
  <2>. QED  BY <2>1, <2>2, <2>3, <2>4 DEF IInv
<1>2. ASSUME NEW a \in App, RadosWatch3(a)
      PROVE  IInv'
  <2>1. TypeOK'
    BY <1>2 DEF IInv, TypeOK, RadosWatch3, AppState
  <2>2. RegisteredIsLive'
    BY <1>2 DEF IInv, RegisteredIsLive, RadosWatch3
  <2>3. WatchInv'
    BY <1>2 DEF IInv, WatchInv, RadosWatch3
  <2>4. DeleteInv'
    BY <1>2 DEF IInv, DeleteInv, RadosWatch3, Deleting
  <2>5. NoDoubleClose' /\ BlockedIsOpen' /\ CallbackInv'
    BY <1>2 DEF IInv, NoDoubleClose, BlockedIsOpen, CallbackInv, RadosWatch3
  <2>. QED  BY <2>1, <2>2, <2>3, <2>4, <2>5 DEF IInv
<1>3. ASSUME NEW a \in App, RadosWatch3Fails(a)
      PROVE  IInv'
  <2>1. TypeOK'
    BY <1>3 DEF IInv, TypeOK, RadosWatch3Fails, AppState, AppIdle
  <2>2. WatchInv'
    BY <1>3 DEF IInv, WatchInv, RadosWatch3Fails, TypeOK, AppIdle
  <2>3. DeleteInv'
    BY <1>3 DEF IInv, DeleteInv, RadosWatch3Fails, AppIdle, Deleting
  <2>4. RegisteredIsLive' /\ NoDoubleClose' /\ BlockedIsOpen' /\ CallbackInv'
    BY <1>3 DEF IInv, RegisteredIsLive, NoDoubleClose, BlockedIsOpen,
       CallbackInv, RadosWatch3Fails
  <2>. QED  BY <2>1, <2>2, <2>3, <2>4 DEF IInv
<1>4. ASSUME NEW a \in App, Register(a)
      PROVE  IInv'
  <2>1. TypeOK'
    BY <1>4 DEF IInv, TypeOK, Register, AppState, AppIdle
  <2>2. RegisteredIsLive'
    BY <1>4 DEF IInv, RegisteredIsLive, Register, TypeOK, WatchInv
  <2>3. WatchInv'
    BY <1>4 DEF IInv, WatchInv, Register, TypeOK, AppIdle
  <2>4. DeleteInv'
    BY <1>4 DEF IInv, DeleteInv, Register, WatchInv, AppIdle, Deleting
  <2>5. CallbackInv'
    BY <1>4 DEF IInv, CallbackInv, Register
  <2>6. NoDoubleClose' /\ BlockedIsOpen'
    BY <1>4 DEF IInv, NoDoubleClose, BlockedIsOpen, Register
  <2>. QED  BY <2>1, <2>2, <2>3, <2>4, <2>5, <2>6 DEF IInv
<1>5. ASSUME NEW a \in App, NEW w \in W, DeleteEntry(a, w)
      PROVE  IInv'
  <2>1. TypeOK'
    BY <1>5 DEF IInv, TypeOK, DeleteEntry, AppState, Deleting
  <2>2. RegisteredIsLive'
    BY <1>5 DEF IInv, RegisteredIsLive, DeleteEntry
  <2>3. WatchInv'
    BY <1>5 DEF IInv, WatchInv, DeleteEntry
  <2>4. DeleteInv'
    BY <1>5 DEF IInv, DeleteInv, DeleteEntry, RegisteredIsLive, ClosedAt
  <2>5. NoDoubleClose' /\ BlockedIsOpen' /\ CallbackInv'
    BY <1>5 DEF IInv, NoDoubleClose, BlockedIsOpen, CallbackInv, DeleteEntry
  <2>. QED  BY <2>1, <2>2, <2>3, <2>4, <2>5 DEF IInv
<1>6. ASSUME NEW a \in App, NEW w \in W, DeleteGone(a, w)
      PROVE  IInv'
  <2>1. TypeOK'
    BY <1>6 DEF IInv, TypeOK, DeleteGone
  <2>2. (RegisteredIsLive /\ NoDoubleClose /\ BlockedIsOpen
       /\ WatchInv /\ DeleteInv /\ CallbackInv)'
    BY <1>6 DEF IInv, RegisteredIsLive, NoDoubleClose, BlockedIsOpen,
       WatchInv, DeleteInv, CallbackInv, DeleteGone
  <2>. QED  BY <2>1, <2>2 DEF IInv
<1>7. ASSUME NEW a \in App, RadosUnwatch2(a)
      PROVE  IInv'
  <2>1. TypeOK'
    BY <1>7 DEF IInv, TypeOK, RadosUnwatch2, AppState, Deleting
  <2>2. RegisteredIsLive'
    BY <1>7 DEF IInv, RegisteredIsLive, RadosUnwatch2
  <2>3. WatchInv'
    BY <1>7 DEF IInv, WatchInv, RadosUnwatch2, DeleteInv, Deleting
  <2>4. DeleteInv'
    BY <1>7 DEF IInv, DeleteInv, RadosUnwatch2, TypeOK, ClosedAt, Deleting
  <2>5. NoDoubleClose' /\ BlockedIsOpen' /\ CallbackInv'
    BY <1>7 DEF IInv, NoDoubleClose, BlockedIsOpen, CallbackInv, RadosUnwatch2
  <2>. QED  BY <2>1, <2>2, <2>3, <2>4, <2>5 DEF IInv
<1>8. ASSUME NEW a \in App, RadosUnwatch2Fails(a)
      PROVE  IInv'
  <2>1. TypeOK'
    BY <1>8 DEF IInv, TypeOK, RadosUnwatch2Fails, AppState, AppIdle
  <2>2. RegisteredIsLive'
    BY <1>8 DEF IInv, RegisteredIsLive, RadosUnwatch2Fails
  <2>3. WatchInv'
    BY <1>8 DEF IInv, WatchInv, RadosUnwatch2Fails, DeleteInv, AppIdle,
       Deleting
  <2>4. DeleteInv'
    BY <1>8 DEF IInv, DeleteInv, RadosUnwatch2Fails, TypeOK, AppIdle, Deleting
  <2>5. NoDoubleClose' /\ BlockedIsOpen' /\ CallbackInv'
    BY <1>8 DEF IInv, NoDoubleClose, BlockedIsOpen, CallbackInv,
       RadosUnwatch2Fails
  <2>. QED  BY <2>1, <2>2, <2>3, <2>4, <2>5 DEF IInv
<1>9. ASSUME NEW a \in App, CloseDone(a)
      PROVE  IInv'
  <2>1. TypeOK'
    BY <1>9 DEF IInv, TypeOK, CloseDone, Close, Channel, AppState, Deleting,
       CBState
  <2>2. RegisteredIsLive'
    BY <1>9 DEF IInv, RegisteredIsLive, CloseDone, Close, DeleteInv, Deleting
  <2>3. NoDoubleClose'
    BY <1>9 DEF IInv, NoDoubleClose, CloseDone, Close, TypeOK, DeleteInv,
       ClosedAt, Deleting
  <2>4. BlockedIsOpen'
    BY <1>9 DEF IInv, BlockedIsOpen, CloseDone, Close, CBIdle
  <2>5. WatchInv'
    BY <1>9 DEF IInv, WatchInv, CloseDone, Close, DeleteInv, Deleting
  <2>6. DeleteInv'
    BY <1>9 DEF IInv, DeleteInv, CloseDone, Close, TypeOK, ClosedAt, Channel,
       Deleting
  <2>7. CallbackInv'
    BY <1>9 DEF IInv, CallbackInv, CloseDone, Close, CBIdle
  <2>. QED  BY <2>1, <2>2, <2>3, <2>4, <2>5, <2>6, <2>7 DEF IInv
<1>10. ASSUME NEW a \in App, CloseEvents(a)
      PROVE  IInv'
  <2>1. TypeOK'
    BY <1>10 DEF IInv, TypeOK, CloseEvents, Close, Channel, Stream, AppState,
       Deleting
  <2>2. RegisteredIsLive'
    BY <1>10 DEF IInv, RegisteredIsLive, CloseEvents, Close, DeleteInv,
       Deleting
  <2>3. NoDoubleClose'
    BY <1>10 DEF IInv, NoDoubleClose, CloseEvents, Close, TypeOK, DeleteInv,
       ClosedAt, Deleting
  <2>4. BlockedIsOpen'
    BY <1>10 DEF IInv, BlockedIsOpen, CloseEvents, Close, DeleteInv, ClosedAt,
       Channel, Deleting
  <2>5. WatchInv'
    BY <1>10 DEF IInv, WatchInv, CloseEvents, Close, DeleteInv, Deleting
  <2>6. DeleteInv'
    BY <1>10 DEF IInv, DeleteInv, CloseEvents, Close, TypeOK, ClosedAt,
       Channel, Stream, Deleting
  <2>7. CallbackInv'
    BY <1>10 DEF IInv, CallbackInv, CloseEvents, Close, DeleteInv, ClosedAt,
       Channel, Deleting
  <2>. QED  BY <2>1, <2>2, <2>3, <2>4, <2>5, <2>6, <2>7 DEF IInv
<1>11. ASSUME NEW a \in App, CloseErrors(a)
      PROVE  IInv'
  <2>1. TypeOK'
    BY <1>11 DEF IInv, TypeOK, CloseErrors, Close, Channel, Stream, AppState,
       AppIdle
  <2>2. RegisteredIsLive'
    BY <1>11 DEF IInv, RegisteredIsLive, CloseErrors, Close, DeleteInv,
       Deleting
  <2>3. NoDoubleClose'
    BY <1>11 DEF IInv, NoDoubleClose, CloseErrors, Close, RegisteredIsLive,
       DeleteInv, ClosedAt, Deleting
  <2>4. BlockedIsOpen'
    BY <1>11 DEF IInv, BlockedIsOpen, CloseErrors, Close, DeleteInv, ClosedAt,
       Channel, Deleting
  <2>5. WatchInv'
    BY <1>11 DEF IInv, WatchInv, CloseErrors, Close, DeleteInv, AppIdle,
       Deleting
  <2>6. DeleteInv'
    BY <1>11 DEF IInv, DeleteInv, CloseErrors, Close, TypeOK, AppIdle,
       Deleting
  <2>7. CallbackInv'
    BY <1>11 DEF IInv, CallbackInv, CloseErrors, Close, DeleteInv, ClosedAt,
       Channel, Deleting
  <2>. QED  BY <2>1, <2>2, <2>3, <2>4, <2>5, <2>6, <2>7 DEF IInv
<1>12. ASSUME NEW a \in App, FlushCall(a)
      PROVE  IInv'
  <2>1. TypeOK'
    BY <1>12 DEF IInv, TypeOK, FlushCall, AppState, Deleting
  <2>2. WatchInv'
    BY <1>12 DEF IInv, WatchInv, FlushCall
  <2>3. DeleteInv'
    BY <1>12 DEF IInv, DeleteInv, FlushCall, Deleting
  <2>4. RegisteredIsLive' /\ NoDoubleClose' /\ BlockedIsOpen' /\ CallbackInv'
    BY <1>12 DEF IInv, RegisteredIsLive, NoDoubleClose, BlockedIsOpen,
       CallbackInv, FlushCall
  <2>. QED  BY <2>1, <2>2, <2>3, <2>4 DEF IInv
<1>13. ASSUME NEW a \in App, FlushReturn(a)
      PROVE  IInv'
  <2>1. TypeOK'
    BY <1>13 DEF IInv, TypeOK, FlushReturn, AppState, AppIdle
  <2>2. WatchInv'
    BY <1>13 DEF IInv, WatchInv, FlushReturn, AppIdle
  <2>3. DeleteInv'
    BY <1>13 DEF IInv, DeleteInv, FlushReturn, BlockedIsOpen, AppIdle,
       Deleting
  <2>4. RegisteredIsLive' /\ NoDoubleClose' /\ BlockedIsOpen' /\ CallbackInv'
    BY <1>13 DEF IInv, RegisteredIsLive, NoDoubleClose, BlockedIsOpen,
       CallbackInv, FlushReturn
  <2>. QED  BY <2>1, <2>2, <2>3, <2>4 DEF IInv
<1>14. ASSUME NEW a \in App, DestroyIOContext(a)
      PROVE  IInv'
  <2>1. TypeOK'
    BY <1>14 DEF IInv, TypeOK, DestroyIOContext
  <2>2. (RegisteredIsLive /\ NoDoubleClose /\ BlockedIsOpen
       /\ WatchInv /\ DeleteInv /\ CallbackInv)'
    BY <1>14 DEF IInv, RegisteredIsLive, NoDoubleClose, BlockedIsOpen,
       WatchInv, DeleteInv, CallbackInv, DestroyIOContext
  <2>. QED  BY <2>1, <2>2 DEF IInv
<1>15. ASSUME NEW c \in CB, NEW w \in W, NEW ch \in Stream, RadosCallback(c, w, ch)
      PROVE  IInv'
  <2>1. TypeOK'
    BY <1>15 DEF IInv, TypeOK, RadosCallback, CBState
  <2>2. BlockedIsOpen'
    BY <1>15 DEF IInv, BlockedIsOpen, RadosCallback
  <2>3. CallbackInv'
    BY <1>15 DEF IInv, CallbackInv, RadosCallback
  <2>4. RegisteredIsLive' /\ NoDoubleClose' /\ WatchInv' /\ DeleteInv'
    BY <1>15 DEF IInv, RegisteredIsLive, NoDoubleClose, WatchInv, DeleteInv,
       RadosCallback
  <2>. QED  BY <2>1, <2>2, <2>3, <2>4 DEF IInv
<1>16. ASSUME NEW c \in CB, CbLookup(c)
      PROVE  IInv'
  <2>1. TypeOK'
    BY <1>16 DEF IInv, TypeOK, CbLookup, CBState, CBIdle
  <2>2. BlockedIsOpen'
    BY <1>16 DEF IInv, BlockedIsOpen, CbLookup, CBIdle
  <2>3. CallbackInv'
    BY <1>16 DEF IInv, CallbackInv, CbLookup, RegisteredIsLive, CBIdle
  <2>4. RegisteredIsLive' /\ NoDoubleClose' /\ WatchInv' /\ DeleteInv'
    BY <1>16 DEF IInv, RegisteredIsLive, NoDoubleClose, WatchInv, DeleteInv,
       CbLookup
  <2>. QED  BY <2>1, <2>2, <2>3, <2>4 DEF IInv
<1>17. ASSUME NEW c \in CB, CbUnblocked(c)
      PROVE  IInv'
  <2>1. TypeOK'
    BY <1>17 DEF IInv, TypeOK, CbUnblocked, CBState
  <2>2. BlockedIsOpen'
    BY <1>17 DEF IInv, BlockedIsOpen, CbUnblocked, CBIdle
  <2>3. CallbackInv'
    BY <1>17 DEF IInv, CallbackInv, CbUnblocked, CBIdle
  <2>4. RegisteredIsLive' /\ NoDoubleClose' /\ WatchInv' /\ DeleteInv'
    BY <1>17 DEF IInv, RegisteredIsLive, NoDoubleClose, WatchInv, DeleteInv,
       CbUnblocked
  <2>. QED  BY <2>1, <2>2, <2>3, <2>4 DEF IInv
<1>18. ASSUME NEW c \in CB, CbSend(c)
      PROVE  IInv'
  <2>1. TypeOK'
    BY <1>18 DEF IInv, TypeOK, CbSend, CBState, ConsumerState
  <2>2. BlockedIsOpen'
    BY <1>18 DEF IInv, BlockedIsOpen, CbSend, CBIdle
  <2>3. CallbackInv'
    BY <1>18 DEF IInv, CallbackInv, CbSend, CBIdle
  <2>4. RegisteredIsLive' /\ NoDoubleClose' /\ WatchInv' /\ DeleteInv'
    BY <1>18 DEF IInv, RegisteredIsLive, NoDoubleClose, WatchInv, DeleteInv,
       CbSend
  <2>. QED  BY <2>1, <2>2, <2>3, <2>4 DEF IInv
<1>19. ASSUME NEW c \in CB, CbSendOnClosed(c)
      PROVE  IInv'
  <2>1. TypeOK'
    BY <1>19 DEF IInv, TypeOK, CbSendOnClosed
  <2>2. NoDoubleClose'
    BY <1>19 DEF NoDoubleClose, CbSendOnClosed
  <2>3. (RegisteredIsLive /\ BlockedIsOpen
       /\ WatchInv /\ DeleteInv /\ CallbackInv)'
    BY <1>19 DEF IInv, RegisteredIsLive, BlockedIsOpen, WatchInv, DeleteInv,
       CallbackInv, CbSendOnClosed
  <2>. QED  BY <2>1, <2>2, <2>3 DEF IInv
<1>20. ASSUME NEW c \in CB, CbBlock(c)
      PROVE  IInv'
  <2>1. TypeOK'
    BY <1>20 DEF IInv, TypeOK, CbBlock, WatchInv, CBState, CBIdle
  <2>2. BlockedIsOpen'
    BY <1>20 DEF IInv, BlockedIsOpen, CbBlock, TypeOK, CallbackInv
  <2>3. CallbackInv'
    BY <1>20 DEF IInv, CallbackInv, CbBlock
  <2>4. RegisteredIsLive' /\ NoDoubleClose' /\ WatchInv' /\ DeleteInv'
    BY <1>20 DEF IInv, RegisteredIsLive, NoDoubleClose, WatchInv, DeleteInv,
       CbBlock
  <2>. QED  BY <2>1, <2>2, <2>3, <2>4 DEF IInv
<1>21. ASSUME NEW w \in W, NEW ch \in Stream, StartConsumer(w, ch)
      PROVE  IInv'
  <2>1. TypeOK'
    BY <1>21 DEF IInv, TypeOK, StartConsumer, Consume, ConsumerState
  <2>2. (RegisteredIsLive /\ NoDoubleClose /\ BlockedIsOpen
       /\ WatchInv /\ DeleteInv /\ CallbackInv)'
    BY <1>21 DEF IInv, RegisteredIsLive, NoDoubleClose, BlockedIsOpen,
       WatchInv, DeleteInv, CallbackInv, StartConsumer, Consume
  <2>. QED  BY <2>1, <2>2 DEF IInv
<1>22. ASSUME NEW w \in W, NEW ch \in Stream, ConsumerStep(w, ch)
      PROVE  IInv'
  <2>1. UNCHANGED <<mtx, watchers, rados, returned, deleted, closed, cb, app,
                    ioctx, panic>>
    BY <1>22 DEF ConsumerStep, Consume, RangeEnds, Handled, AckLookup,
       RadosNotifyAck
  <2>2. \E to \in ConsumerState : consumer' = [consumer EXCEPT ![w][ch] = to]
    <3>1. CASE RangeEnds(w, ch) \/ Handled(w, ch)
      BY <3>1 DEF RangeEnds, Handled, Consume, ConsumerState
    <3>2. CASE ch = "events" /\ (AckLookup(w) \/ RadosNotifyAck(w))
      BY <3>2 DEF AckLookup, RadosNotifyAck, Consume, ConsumerState
    <3>. QED  BY <1>22, <3>1, <3>2 DEF ConsumerStep
  <2>3. TypeOK'
    BY <2>1, <2>2 DEF IInv, TypeOK
  <2>4. (RegisteredIsLive /\ NoDoubleClose /\ BlockedIsOpen
       /\ WatchInv /\ DeleteInv /\ CallbackInv)'
    BY <2>1 DEF IInv, RegisteredIsLive, NoDoubleClose, BlockedIsOpen,
       WatchInv, DeleteInv, CallbackInv
  <2>. QED  BY <2>3, <2>4 DEF IInv
<1>23. CASE UNCHANGED vars
  BY <1>23 DEF vars, IInv, TypeOK, RegisteredIsLive, NoDoubleClose,
     BlockedIsOpen, WatchInv, DeleteInv, CallbackInv
<1>24. ASSUME NEW a \in App, AppStep(a) \/ AppCall(a)
      PROVE  IInv'
  BY <1>24, <1>1, <1>2, <1>3, <1>4, <1>5, <1>6, <1>7, <1>8, <1>9, <1>10,
     <1>11, <1>12, <1>13, <1>14 DEF AppStep, AppCall
<1>25. ASSUME NEW c \in CB,
             CbStep(c) \/ \E w \in W, ch \in Stream : RadosCallback(c, w, ch)
      PROVE  IInv'
  BY <1>25, <1>15, <1>16, <1>17, <1>18, <1>19, <1>20 DEF CbStep
<1>. QED  BY <1>21, <1>22, <1>23, <1>24, <1>25 DEF Next

(* The inductive invariant is an invariant.                                *)
THEOREM Invariance == Spec => []IInv
BY InitIInv, NextIInv, PTL DEF Spec

(* Type correctness of Watcher.                                            *)
THEOREM TypeCorrect == Spec => []TypeOK
<1>1. IInv => TypeOK
  BY DEF IInv
<1>. QED  BY <1>1, Invariance, PTL

(* However many goroutines delete a watcher, no channel is closed twice.   *)
THEOREM CloseOnce == Spec => []NoDoubleClose
<1>1. IInv => NoDoubleClose
  BY DEF IInv
<1>. QED  BY <1>1, Invariance, PTL

(* A watcher found in the map is usable.                                   *)
THEOREM MapIsLive == Spec => []RegisteredIsLive
<1>1. IInv => RegisteredIsLive
  BY DEF IInv
<1>. QED  BY <1>1, Invariance, PTL

(* A blocked callback is never overtaken by the close of its channel.      *)
THEOREM BlockedAreSafe == Spec => []BlockedIsOpen
<1>1. IInv => BlockedIsOpen
  BY DEF IInv
<1>. QED  BY <1>1, Invariance, PTL

(* No callback reaches its select on a watcher that has a closed channel.  *)
THEOREM SelectOnlyOpen == Spec => NoNewSelectAfterClose
<1>. DEFINE A == \A c \in CB : cb[c].pc # "select" /\ cb'[c].pc = "select"
                              => closed[cb'[c].w] = {}
<1>1. IInv /\ [Next]_vars => [A]_vars
  <2>. SUFFICES ASSUME IInv, Next, NEW d \in CB,
                       cb[d].pc # "select", cb'[d].pc = "select"
                PROVE  closed[cb'[d].w] = {}
    OBVIOUS
  <2>1. ASSUME NEW a \in App, AppStep(a) \/ AppCall(a)
        PROVE  FALSE
    BY <2>1 DEF IInv, TypeOK, CBIdle, AppStep, AppCall, WatchLock, RadosWatch3,
       RadosWatch3Fails, Register, DeleteEntry, DeleteGone, RadosUnwatch2,
       RadosUnwatch2Fails, CloseDone, CloseEvents, CloseErrors, FlushCall,
       FlushReturn, DestroyIOContext
  <2>2. ASSUME NEW w \in W, NEW ch \in Stream,
               StartConsumer(w, ch) \/ ConsumerStep(w, ch)
        PROVE  FALSE
    BY <2>2 DEF StartConsumer, ConsumerStep, RangeEnds, Handled, AckLookup,
       RadosNotifyAck, Consume
  <2>3. ASSUME NEW c \in CB, NEW w \in W, NEW ch \in Stream,
               RadosCallback(c, w, ch)
        PROVE  FALSE
    BY <2>3 DEF IInv, TypeOK, RadosCallback
  <2>4. ASSUME NEW c \in CB, CbStep(c)
        PROVE  closed[cb'[d].w] = {}
    <3>1. CASE CbLookup(c)
      BY <3>1 DEF IInv, TypeOK, RegisteredIsLive, CbLookup, CBIdle, CBState
    <3>2. CASE CbUnblocked(c) \/ CbSend(c) \/ CbSendOnClosed(c) \/ CbBlock(c)
      BY <3>2 DEF IInv, TypeOK, CbUnblocked, CbSend, CbSendOnClosed, CbBlock, CBIdle
    <3>. QED  BY <2>4, <3>1, <3>2 DEF CbStep
  <2>. QED  BY <2>1, <2>2, <2>3, <2>4 DEF Next
<1>. QED  BY <1>1, Invariance, PTL DEF Spec, NoNewSelectAfterClose

(* The process is stopped by nothing but the callback that was between its  *)
(* lookup and its select when Delete closed the channels.                  *)
THEOREM OnlyThatPanic == Spec => [](panic # "none" => Stopped)
<1>. DEFINE Only == panic # "none" => Stopped
<1>1. Init => Only
  BY DEF Init
<1>2. IInv /\ IInv' /\ Only /\ [Next]_vars => Only'
  <2>. SUFFICES ASSUME IInv, IInv', Only, [Next]_vars PROVE Only'
    OBVIOUS
  <2>1. ASSUME NEW a \in App, CloseDone(a)
        PROVE  panic' = panic
    <3>1. \A c \in CB : cb[c].pc = "blocked" => cb[c].ch # "done"
      BY DEF IInv, TypeOK, CBState, CBIdle, Stream
    <3>2. "done" \notin closed[app[a].w]
      BY <2>1 DEF CloseDone, IInv, DeleteInv, ClosedAt, Deleting
    <3>. QED  BY <2>1, <3>1, <3>2 DEF CloseDone, Close
  <2>2. ASSUME NEW a \in App, NEW ch \in Stream, Close(app[a].w, ch),
               app[a].pc \in {"closeEvents", "closeErrors"}
        PROVE  panic' = panic
    <3>1. app[a].w \in W /\ closed[app[a].w] = ClosedAt(app[a].pc)
      BY <2>2 DEF IInv, TypeOK, AppState, DeleteInv, Deleting
    <3>2. \A c \in CB : ~(cb[c].pc = "blocked" /\ cb[c].w = app[a].w)
      BY <2>2, <3>1 DEF IInv, BlockedIsOpen, ClosedAt, Channel
    <3>3. ch \notin closed[app[a].w]
      BY <2>2 DEF Close, IInv, NoDoubleClose
    <3>. QED  BY <2>2, <3>2, <3>3 DEF Close
  <2>3. ASSUME NEW a \in App, CloseEvents(a) \/ CloseErrors(a)
        PROVE  panic' = panic
    BY <2>2, <2>3 DEF CloseEvents, CloseErrors, Stream
  <2>4. ASSUME NEW c \in CB, CbSendOnClosed(c)
        PROVE  Stopped'
    BY <2>4 DEF CbSendOnClosed, Stopped
  <2>5. ASSUME panic = "none", panic' = panic
        PROVE  Only'
    BY <2>5
  <2>6. ASSUME UNCHANGED vars
        PROVE  Only'
    BY <2>6 DEF vars, Stopped
  <2>7. ASSUME NEW a \in App, AppStep(a) \/ AppCall(a), panic = "none"
        PROVE  Only'
    BY <2>1, <2>3, <2>5, <2>7 DEF AppStep, AppCall, WatchLock, RadosWatch3,
       RadosWatch3Fails, Register, RadosUnwatch2, RadosUnwatch2Fails, FlushCall,
       FlushReturn, DestroyIOContext, DeleteEntry, DeleteGone
  <2>8. ASSUME NEW c \in CB, panic = "none",
               CbStep(c) \/ \E w \in W, ch \in Stream : RadosCallback(c, w, ch)
        PROVE  Only'
    BY <2>4, <2>5, <2>8 DEF CbStep, CbLookup, CbUnblocked, CbSend, CbBlock, RadosCallback
  <2>9. ASSUME NEW w \in W, NEW ch \in Stream, panic = "none",
               StartConsumer(w, ch) \/ ConsumerStep(w, ch)
        PROVE  Only'
    BY <2>5, <2>9 DEF StartConsumer, ConsumerStep, RangeEnds, Handled, AckLookup,
       RadosNotifyAck, Consume
  <2>. QED  BY <2>6, <2>7, <2>8, <2>9 DEF Next
<1>. QED  BY <1>1, <1>2, Invariance, PTL DEF Spec

(* The lock and the channels make no circle.  Whoever has the lock is in    *)
(* rados_watch3 or about to put the watcher in the map, and waits for no    *)
(* callback; and a callback of a watcher that is being closed waits for the *)
(* lock at most, never for a reader of its channel: w.done is closed, and   *)
(* its select listens to that.                                             *)
THEOREM NoLockCycle == Spec => [](
    /\ mtx # NoThread => app[mtx].pc \in {"watch", "register"}
    /\ \A c \in CB : InFlight(c) /\ closed[cb[c].w] # {} =>
          \/ cb[c].pc = "lookup"
          \/ cb[c].pc = "select" /\ "done" \in closed[cb[c].w])
<1>. DEFINE Holder == mtx # NoThread => app[mtx].pc \in {"watch", "register"}
            Waits == \A c \in CB : InFlight(c) /\ closed[cb[c].w] # {} =>
                        \/ cb[c].pc = "lookup"
                        \/ cb[c].pc = "select" /\ "done" \in closed[cb[c].w]
<1>1. Init => Holder
  BY DEF Init
<1>2. IInv /\ Holder /\ [Next]_vars => Holder'
  <2>. SUFFICES ASSUME IInv, Holder, [Next]_vars PROVE Holder'
    OBVIOUS
  <2>1. ASSUME NEW a \in App, AppStep(a) \/ AppCall(a)
        PROVE  Holder'
    <3>1. CASE WatchLock(a) \/ RadosWatch3(a) \/ RadosWatch3Fails(a) \/ Register(a)
      <4>1. CASE WatchLock(a)
        BY <4>1 DEF WatchLock, IInv, TypeOK
      <4>2. CASE RadosWatch3(a)
        <5>1. app'[a].pc = "register" /\ mtx' = mtx /\ mtx = a
          BY <4>2 DEF RadosWatch3, IInv, TypeOK, WatchInv
        <5>. QED  BY <5>1
      <4>3. CASE RadosWatch3Fails(a) \/ Register(a)
        BY <4>3 DEF RadosWatch3Fails, Register
      <4>. QED  BY <3>1, <4>1, <4>2, <4>3
    <3>2. CASE ~(WatchLock(a) \/ RadosWatch3(a) \/ RadosWatch3Fails(a) \/ Register(a))
      <4>1. mtx' = mtx /\ (app[a].pc \in {"watch", "register"} => app' = app)
        BY <2>1, <3>2 DEF AppStep, AppCall, RadosUnwatch2, RadosUnwatch2Fails, CloseDone,
           CloseEvents, CloseErrors, FlushCall, FlushReturn, DestroyIOContext,
           DeleteEntry, DeleteGone
      <4>2. \A b \in App : b # a => app'[b] = app[b]
        BY <2>1, <3>2 DEF AppStep, AppCall, RadosUnwatch2, RadosUnwatch2Fails, CloseDone,
           CloseEvents, CloseErrors, FlushCall, FlushReturn, DestroyIOContext,
           DeleteEntry, DeleteGone, IInv, TypeOK
      <4>. QED  BY <4>1, <4>2 DEF IInv, TypeOK
    <3>. QED  BY <3>1, <3>2
  <2>2. ASSUME UNCHANGED <<mtx, app>>
        PROVE  Holder'
    BY <2>2
  <2>3. ASSUME NEW c \in CB,
               CbStep(c) \/ \E w \in W, ch \in Stream : RadosCallback(c, w, ch)
        PROVE  Holder'
    BY <2>2, <2>3 DEF CbStep, CbLookup, CbUnblocked, CbSend, CbSendOnClosed, CbBlock,
       RadosCallback
  <2>4. ASSUME NEW w \in W, NEW ch \in Stream, StartConsumer(w, ch) \/ ConsumerStep(w, ch)
        PROVE  Holder'
    BY <2>2, <2>4 DEF StartConsumer, ConsumerStep, RangeEnds, Handled, AckLookup,
       RadosNotifyAck, Consume
  <2>5. CASE UNCHANGED vars
    BY <2>2, <2>5 DEF vars
  <2>. QED  BY <2>1, <2>3, <2>4, <2>5 DEF Next
<1>3. IInv => Waits
  <2>. SUFFICES ASSUME IInv, NEW c \in CB, InFlight(c), closed[cb[c].w] # {}
                PROVE  \/ cb[c].pc = "lookup"
                       \/ cb[c].pc = "select" /\ "done" \in closed[cb[c].w]
    OBVIOUS
  <2>1. cb[c].pc \in {"lookup", "select"} /\ cb[c].w \in W
    BY DEF IInv, TypeOK, CBState, CBIdle, InFlight, BlockedIsOpen
  <2>. QED  BY <2>1 DEF IInv, CallbackInv
<1>. QED  BY <1>1, <1>2, <1>3, Invariance, PTL DEF Spec

----------------------------------------------------------------------------
(* Watcher implements WatchService.                                        *)

Closing == {"closeDone", "closeEvents", "closeErrors"}

(* A watcher librados knows, or has a callback in the lookup for, has been *)
(* returned by Watch or is about to be put in the map under the lock.      *)
KnownInv ==
    /\ \A w \in rados : w \in returned \/ \E a \in App : app[a] = [pc |-> "register", w |-> w]
    /\ \A c \in CB : cb[c].pc = "lookup" =>
          \/ cb[c].w \in returned
          \/ \E a \in App : app[a] = [pc |-> "register", w |-> cb[c].w]

(* librados has forgotten a watcher before any of its channels is closed.  *)
ForgottenInv ==
    /\ \A a \in App : app[a].pc \in Closing => app[a].w \notin rados
    /\ \A w \in W : closed[w] # {} => w \notin rados

(* What the refinement needs beyond IInv.                                  *)
RInv == KnownInv /\ ForgottenInv

(* It holds at the start.                                                  *)
LEMMA InitRInv == Init => RInv
BY DEF Init, RInv, KnownInv, ForgottenInv, CBIdle, AppIdle, Closing

(* Every step keeps it.                                                    *)
LEMMA NextRInv == IInv /\ RInv /\ [Next]_vars => RInv'
<1>. SUFFICES ASSUME IInv, RInv, [Next]_vars PROVE RInv'
  OBVIOUS
<1>. USE DEF IInv, RInv
<1>1. ASSUME NEW a \in App, WatchLock(a)
      PROVE  RInv'
  BY <1>1 DEF WatchLock, KnownInv, ForgottenInv, TypeOK, AppState, Closing
<1>2. ASSUME NEW a \in App, RadosWatch3(a)
      PROVE  RInv'
  <2>1. PICK w \in W \ (rados \union returned) :
           rados' = rados \union {w} /\ app' = [app EXCEPT ![a] = [pc |-> "register", w |-> w]]
    BY <1>2 DEF RadosWatch3
  <2>2. KnownInv'
    BY <1>2, <2>1 DEF RadosWatch3, KnownInv, TypeOK
  <2>3. closed[w] = {}
    BY <2>1 DEF WatchInv
  <2>4. \A b \in App : app[b].pc \in Closing => app[b].w \in returned
    BY DEF DeleteInv, Closing, Deleting
  <2>5. ForgottenInv'
    BY <1>2, <2>1, <2>3, <2>4 DEF RadosWatch3, ForgottenInv, TypeOK, Closing
  <2>. QED  BY <2>2, <2>5
<1>3. ASSUME NEW a \in App, RadosWatch3Fails(a)
      PROVE  RInv'
  BY <1>3 DEF RadosWatch3Fails, KnownInv, ForgottenInv, TypeOK, AppIdle, Closing
<1>4. ASSUME NEW a \in App, Register(a)
      PROVE  RInv'
  BY <1>4 DEF Register, KnownInv, ForgottenInv, TypeOK, AppIdle, Closing
<1>5. ASSUME NEW a \in App, RadosUnwatch2(a)
      PROVE  RInv'
  BY <1>5 DEF RadosUnwatch2, KnownInv, ForgottenInv, TypeOK, AppState, Deleting, Closing
<1>6. ASSUME NEW a \in App, RadosUnwatch2Fails(a)
      PROVE  RInv'
  BY <1>6 DEF RadosUnwatch2Fails, KnownInv, ForgottenInv, TypeOK, AppIdle, Closing
<1>7. ASSUME NEW a \in App, CloseDone(a) \/ CloseEvents(a) \/ CloseErrors(a)
      PROVE  RInv'
  <2>1. app[a].w \notin rados /\ app[a].w \in W
    BY <1>7 DEF CloseDone, CloseEvents, CloseErrors, ForgottenInv, Closing,
       TypeOK, AppState, Deleting
  <2>2. /\ rados' = rados /\ returned' = returned
        /\ \A w \in W : w # app[a].w => closed'[w] = closed[w]
    BY <1>7 DEF CloseDone, CloseEvents, CloseErrors, Close, TypeOK
  <2>6. /\ \A b \in App : b # a => app'[b] = app[b]
        /\ app[a].pc \in Closing
        /\ app'[a] = AppIdle \/ (app'[a].w = app[a].w /\ app'[a].pc \in Closing)
    BY <1>7 DEF CloseDone, CloseEvents, CloseErrors, Closing, TypeOK, AppState,
       Deleting
  <2>3. \A c \in CB : cb'[c] = cb[c] \/ cb'[c] = CBIdle
    BY <1>7 DEF CloseDone, CloseEvents, CloseErrors, TypeOK
  <2>7. \A w \in W : app[a] # [pc |-> "register", w |-> w]
    BY <2>6 DEF Closing
  <2>4. KnownInv'
    <3>1. \A b \in App, w \in W : app[b] = [pc |-> "register", w |-> w]
                                 => app'[b] = [pc |-> "register", w |-> w]
      BY <2>6, <2>7
    <3>2. \A c \in CB : cb'[c].pc = "lookup" => cb'[c] = cb[c]
      BY <2>3 DEF CBIdle
    <3>3. \A c \in CB : cb[c].pc = "lookup" => cb[c].w \in W
      BY DEF TypeOK, CBState, CBIdle
    <3>4. rados \subseteq W
      BY DEF TypeOK
    <3>. QED  BY <2>2, <3>1, <3>2, <3>3, <3>4 DEF KnownInv
  <2>5. ForgottenInv'
    BY <2>1, <2>2, <2>6 DEF ForgottenInv, Closing, TypeOK, AppIdle
  <2>. QED  BY <2>4, <2>5
<1>8. ASSUME NEW a \in App, FlushCall(a) \/ FlushReturn(a) \/ DestroyIOContext(a)
      PROVE  RInv'
  BY <1>8 DEF FlushCall, FlushReturn, DestroyIOContext, KnownInv, ForgottenInv,
     TypeOK, AppIdle, AppState, Closing
<1>9. ASSUME NEW a \in App, NEW w \in W, DeleteEntry(a, w) \/ DeleteGone(a, w)
      PROVE  RInv'
  BY <1>9 DEF DeleteEntry, DeleteGone, KnownInv, ForgottenInv, TypeOK, Closing
<1>10. ASSUME NEW c \in CB, CbStep(c)
       PROVE  RInv'
  <2>1. UNCHANGED <<rados, returned, closed, app>>
    BY <1>10 DEF CbStep, CbLookup, CbUnblocked, CbSend, CbSendOnClosed, CbBlock
  <2>2. \A d \in CB : cb'[d] = cb[d] \/ cb'[d].pc # "lookup"
    BY <1>10 DEF CbStep, CbLookup, CbUnblocked, CbSend, CbSendOnClosed, CbBlock,
       TypeOK, CBIdle, CBState
  <2>. QED  BY <2>1, <2>2 DEF KnownInv, ForgottenInv
<1>11. ASSUME NEW c \in CB, NEW w \in W, NEW ch \in Stream, RadosCallback(c, w, ch)
       PROVE  RInv'
  BY <1>11 DEF RadosCallback, KnownInv, ForgottenInv, TypeOK
<1>12. ASSUME NEW w \in W, NEW ch \in Stream, StartConsumer(w, ch) \/ ConsumerStep(w, ch)
       PROVE  RInv'
  BY <1>12 DEF StartConsumer, ConsumerStep, RangeEnds, Handled, AckLookup,
     RadosNotifyAck, Consume, KnownInv, ForgottenInv
<1>13. CASE UNCHANGED vars
  BY <1>13 DEF vars, KnownInv, ForgottenInv
<1>. QED
  BY <1>1, <1>2, <1>3, <1>4, <1>5, <1>6, <1>7, <1>8, <1>9, <1>10, <1>11, <1>12,
     <1>13 DEF Next, AppStep, AppCall

(***************************************************************************)
(* The refinement itself: every step of Watcher is one of WatchService, or *)
(* leaves what WatchService talks about alone.                             *)
(***************************************************************************)
LifeMap == [w \in W |-> Life(w)]
NoteMap == [c \in CB |-> Note(c)]
HandlingMap == [w \in W |-> [ch \in Stream |-> consumer[w][ch] \in {"handle", "ack"}]]

(* The initial states correspond.                                          *)
LEMMA InitService == Init => Service!Init
<1>. SUFFICES ASSUME Init PROVE Service!Init
  OBVIOUS
<1>1. \A w \in W : Life(w) = "none"
  BY DEF Init, Life
<1>2. \A c \in CB : Note(c) = NoWatcher
  BY DEF Init, Note, InFlight, CBIdle
<1>3. \A w \in W : \A ch \in Stream : (consumer[w][ch] \in {"handle", "ack"}) = FALSE
  BY DEF Init
<1>4. HandlingMap = [w \in W |-> [ch \in Stream |-> FALSE]]
  BY <1>3, Zenon DEF HandlingMap
<1>5. LifeMap = [w \in W |-> "none"] /\ NoteMap = [c \in CB |-> NoWatcher]
  BY <1>1, <1>2 DEF LifeMap, NoteMap
<1>. QED  BY <1>4, <1>5, Zenon DEF Service!Init, HandlingMap, LifeMap, NoteMap

(* What a watcher's life depends on.                                       *)
LEMMA SameLife ==
    ASSUME NEW w \in W,
           w \in returned' <=> w \in returned,
           w \in watchers' <=> w \in watchers,
           Stream \subseteq closed'[w] <=> Stream \subseteq closed[w]
    PROVE  Life(w)' = Life(w)
BY DEF Life

(* Goroutines in Watch, Delete, WatcherFlush and Destroy.                  *)
LEMMA AppService ==
    ASSUME IInv, RInv, NEW a \in App, AppStep(a) \/ AppCall(a)
    PROVE  Service!Next \/ UNCHANGED Service!vars
<1>. USE DEF IInv, RInv
<1>. SUFFICES Service!Next \/ UNCHANGED <<LifeMap, NoteMap, HandlingMap>>
  BY DEF Service!vars, LifeMap, NoteMap, HandlingMap
<1>1. ASSUME UNCHANGED <<watchers, returned, closed, cb, consumer>>
      PROVE  UNCHANGED <<LifeMap, NoteMap, HandlingMap>>
  BY <1>1 DEF LifeMap, NoteMap, HandlingMap, Life, Note, InFlight
<1>2. CASE \/ WatchLock(a) \/ RadosWatch3(a) \/ RadosWatch3Fails(a)
           \/ RadosUnwatch2(a) \/ RadosUnwatch2Fails(a)
           \/ FlushCall(a) \/ FlushReturn(a) \/ DestroyIOContext(a)
           \/ \E w \in W : DeleteGone(a, w)
  BY <1>1, <1>2 DEF WatchLock, RadosWatch3, RadosWatch3Fails, RadosUnwatch2,
     RadosUnwatch2Fails, FlushCall, FlushReturn, DestroyIOContext, DeleteGone
<1>3. CASE Register(a)
  <2>1. PICK v \in W : v = app[a].w /\ v \notin returned
    BY <1>3 DEF Register, TypeOK, AppState, Deleting, WatchInv
  <2>2. Life(v) = "none" /\ Life(v)' = "open"
    BY <1>3, <2>1 DEF Register, Life
  <2>3. \A w \in W : w # v => Life(w)' = Life(w)
    BY <1>3, <2>1, SameLife DEF Register
  <2>4. UNCHANGED <<NoteMap, HandlingMap>>
    BY <1>3 DEF Register, NoteMap, HandlingMap, Note, InFlight
  <2>5. Service!Open(v)
    BY <2>1, <2>2, <2>3, <2>4 DEF Service!Open, NoteMap, HandlingMap
  <2>. QED  BY <2>1, <2>5 DEF Service!Next
<1>4. ASSUME NEW v \in W, DeleteEntry(a, v)
      PROVE  Service!Next
  <2>1. Life(v) = "open" /\ Life(v)' = "deleting"
    BY <1>4 DEF DeleteEntry, Life, RegisteredIsLive, Stream
  <2>2. \A w \in W : w # v => Life(w)' = Life(w)
    BY <1>4, SameLife DEF DeleteEntry
  <2>3. UNCHANGED <<NoteMap, HandlingMap>>
    BY <1>4 DEF DeleteEntry, NoteMap, HandlingMap, Note, InFlight
  <2>4. Service!Delete(v)
    BY <2>1, <2>2, <2>3 DEF Service!Delete, NoteMap, HandlingMap
  <2>. QED  BY <2>4 DEF Service!Next
<1>5. CASE CloseDone(a)
  <2>. DEFINE v == app[a].w
              D == {c \in CB : cb[c].pc = "blocked" /\ cb[c].w = v}
  <2>1. v \in W /\ v \in returned /\ v \notin watchers
    BY <1>5 DEF CloseDone, TypeOK, AppState, Deleting, DeleteInv
  <2>2. \A w \in W : Stream \subseteq closed'[w] <=> Stream \subseteq closed[w]
    BY <1>5, <2>1 DEF CloseDone, Close, TypeOK, Stream
  <2>3. \A w \in W : Life(w)' = Life(w)
    BY <1>5, <2>2, SameLife DEF CloseDone
  <2>4. Life(v) \in {"deleting", "closed"}
    BY <2>1 DEF Life
  <2>5. \A c \in D : \E ch \in Stream : Note(c) = <<v, ch>>
    BY DEF Note, InFlight, TypeOK, CBState, CBIdle
  <2>6. \A c \in CB : Note(c)' = IF c \in D THEN NoWatcher ELSE Note(c)
    BY <1>5 DEF CloseDone, Note, InFlight, CBIdle
  <2>7. UNCHANGED HandlingMap
    BY <1>5 DEF CloseDone, HandlingMap
  <2>8. Service!Drop(D, v)
    BY <2>1, <2>3, <2>4, <2>5, <2>6, <2>7 DEF Service!Drop, HandlingMap
  <2>. QED  BY <2>1, <2>8 DEF Service!Next
<1>6. CASE CloseEvents(a)
  <2>1. app[a].w \in W /\ closed[app[a].w] = {"done"}
    BY <1>6 DEF CloseEvents, TypeOK, AppState, Deleting, DeleteInv, ClosedAt,
       Channel, Stream
  <2>2. \A w \in W : Stream \subseteq closed'[w] <=> Stream \subseteq closed[w]
    BY <1>6, <2>1 DEF CloseEvents, Close, TypeOK, Stream
  <2>3. \A w \in W : Life(w)' = Life(w)
    BY <1>6, <2>2, SameLife DEF CloseEvents
  <2>. QED  BY <1>6, <2>3 DEF CloseEvents, LifeMap, NoteMap, HandlingMap, Note, InFlight
<1>7. CASE CloseErrors(a)
  <2>1. PICK v \in W : /\ v = app[a].w /\ v \in returned /\ v \notin watchers
                       /\ closed[v] = {"done", "events"}
    BY <1>7 DEF CloseErrors, TypeOK, AppState, Deleting, DeleteInv, ClosedAt,
       Channel, Stream
  <2>2. /\ closed'[v] = {"done", "events", "errors"}
        /\ \A w \in W : w # v => closed'[w] = closed[w]
    BY <1>7, <2>1 DEF CloseErrors, Close, TypeOK
  <2>3. Life(v) = "deleting" /\ Life(v)' = "closed"
    BY <1>7, <2>1, <2>2 DEF CloseErrors, Life, Stream
  <2>4. \A w \in W : w # v => Life(w)' = Life(w)
    BY <1>7, <2>1, <2>2, SameLife DEF CloseErrors
  <2>5. UNCHANGED <<NoteMap, HandlingMap>>
    BY <1>7 DEF CloseErrors, NoteMap, HandlingMap, Note, InFlight
  <2>6. Service!Close(v)
    BY <2>1, <2>3, <2>4, <2>5 DEF Service!Close, NoteMap, HandlingMap
  <2>. QED  BY <2>1, <2>6 DEF Service!Next
<1>. QED  BY <1>2, <1>3, <1>4, <1>5, <1>6, <1>7 DEF AppStep, AppCall

(* Dropping what one callback has in hand.                                 *)
LEMMA DropOne ==
    ASSUME NEW c \in CB, NEW v \in W, NEW ch \in Stream,
           Note(c) = <<v, ch>>, Life(v) \in {"deleting", "closed"},
           cb' = [cb EXCEPT ![c] = CBIdle], cb \in [CB -> CBState],
           UNCHANGED <<watchers, returned, closed, consumer>>
    PROVE  Service!Drop({c}, v)
<1>1. Note(c)' = NoWatcher /\ \A d \in CB : d # c => Note(d)' = Note(d)
  BY DEF Note, InFlight, CBIdle
<1>2. UNCHANGED <<LifeMap, HandlingMap>>
  BY DEF LifeMap, HandlingMap, Life
<1>. QED  BY <1>1, <1>2 DEF Service!Drop, LifeMap, HandlingMap

(* Callbacks.                                                              *)
LEMMA CallbackService ==
    ASSUME IInv, RInv, NEW c \in CB, CbStep(c)
    PROVE  Service!Next \/ UNCHANGED Service!vars
<1>. USE DEF IInv, RInv
<1>. SUFFICES Service!Next \/ UNCHANGED <<LifeMap, NoteMap, HandlingMap>>
  BY DEF Service!vars, LifeMap, NoteMap, HandlingMap
<1>1. cb[c].pc # "idle" /\ cb[c] # CBIdle
  BY DEF CbStep, CbLookup, CbUnblocked, CbSend, CbSendOnClosed, CbBlock, CBIdle
<1>2. PICK v \in W, ch \in Stream : v = cb[c].w /\ ch = cb[c].ch
  BY <1>1 DEF TypeOK, CBState
<1>3. Note(c) = <<v, ch>>
  BY <1>1, <1>2 DEF Note, InFlight
<1>4. ASSUME cb' = [cb EXCEPT ![c] = CBIdle], Life(v) \in {"deleting", "closed"},
             UNCHANGED <<watchers, returned, closed, consumer>>
      PROVE  Service!Next
  BY <1>3, <1>4, DropOne DEF Service!Next, TypeOK
<1>5. ASSUME \/ cb' = [cb EXCEPT ![c].pc = "select"]
             \/ cb' = [cb EXCEPT ![c].pc = "blocked"],
             UNCHANGED <<watchers, returned, closed, consumer>>
      PROVE  UNCHANGED <<LifeMap, NoteMap, HandlingMap>>
  <2>1. \A d \in CB : Note(d)' = Note(d)
    BY <1>1, <1>5 DEF TypeOK, CBState, CBIdle, Note, InFlight
  <2>. QED  BY <1>5, <2>1 DEF LifeMap, NoteMap, HandlingMap, Life
<1>6. CASE CbLookup(c)
  <2>1. CASE v \in watchers
    <3>1. cb' = [cb EXCEPT ![c].pc = "select"]
      BY <1>2, <1>6, <2>1 DEF CbLookup
    <3>2. UNCHANGED <<watchers, returned, closed, consumer>>
      BY <1>6 DEF CbLookup
    <3>. QED  BY <1>5, <3>1, <3>2
  <2>2. CASE v \notin watchers
    <3>1. v \in returned
      <4>1. cb[c].pc = "lookup" /\ mtx = NoThread
        BY <1>6 DEF CbLookup, Unlocked
      <4>2. \A a \in App : app[a].pc # "register"
        BY <4>1, NoThreadAssumption DEF WatchInv
      <4>3. \/ cb[c].w \in returned
            \/ \E a \in App : app[a] = [pc |-> "register", w |-> cb[c].w]
        BY <4>1 DEF KnownInv
      <4>4. ASSUME NEW a \in App, app[a] = [pc |-> "register", w |-> cb[c].w]
            PROVE  FALSE
        BY <4>2, <4>4
      <4>. QED  BY <1>2, <4>3, <4>4
    <3>2. Life(v) \in {"deleting", "closed"}
      BY <2>2, <3>1 DEF Life
    <3>. QED  BY <1>2, <1>4, <1>6, <2>2, <3>2 DEF CbLookup
  <2>. QED  BY <2>1, <2>2
<1>7. CASE CbUnblocked(c)
  <2>1. v \in returned /\ v \notin watchers
    BY <1>2, <1>7 DEF CbUnblocked, CallbackInv, RegisteredIsLive
  <2>2. Life(v) \in {"deleting", "closed"}
    BY <2>1 DEF Life
  <2>. QED  BY <1>4, <1>7, <2>2 DEF CbUnblocked
<1>8. CASE CbSend(c)
  <2>1. v \in returned /\ ch \notin closed[v]
    BY <1>2, <1>8 DEF CbSend, CallbackInv
  <2>2. Life(v) \in {"open", "deleting"}
    BY <2>1 DEF Life
  <2>3. /\ consumer[v][ch] = "recv"
        /\ consumer' = [consumer EXCEPT ![v][ch] = "handle"]
    BY <1>2, <1>8 DEF CbSend
  <2>4. HandlingMap' = [HandlingMap EXCEPT ![v][ch] = TRUE]
    <3>1. \A w \in W : \A x \in Stream :
             (consumer'[w][x] \in {"handle", "ack"})
             = IF w = v /\ x = ch THEN TRUE ELSE consumer[w][x] \in {"handle", "ack"}
      BY <2>3 DEF TypeOK
    <3>. QED  BY <3>1 DEF HandlingMap
  <2>5. NoteMap' = [NoteMap EXCEPT ![c] = NoWatcher]
    BY <1>8 DEF CbSend, NoteMap, Note, InFlight, CBIdle, TypeOK
  <2>6. UNCHANGED LifeMap
    BY <1>8 DEF CbSend, LifeMap, Life
  <2>7. Service!Deliver(c, v, ch)
    BY <1>3, <2>2, <2>3, <2>4, <2>5, <2>6 DEF Service!Deliver, LifeMap, NoteMap,
       HandlingMap
  <2>. QED  BY <2>7 DEF Service!Next
<1>9. CASE CbSendOnClosed(c)
  BY <1>9 DEF CbSendOnClosed, LifeMap, NoteMap, HandlingMap, Life, Note, InFlight
<1>10. CASE CbBlock(c)
  <2>1. cb' = [cb EXCEPT ![c].pc = "blocked"] /\ UNCHANGED <<watchers, returned, closed, consumer>>
    BY <1>10 DEF CbBlock
  <2>. QED  BY <1>5, <2>1
<1>. QED  BY <1>6, <1>7, <1>8, <1>9, <1>10 DEF CbStep

(* librados runs a callback.                                               *)
LEMMA OfferService ==
    ASSUME IInv, RInv, NEW c \in CB, NEW v \in W, NEW ch \in Stream,
           RadosCallback(c, v, ch)
    PROVE  Service!Next
<1>. USE DEF IInv, RInv
<1>1. closed[v] = {}
  BY DEF RadosCallback, ForgottenInv
<1>2. Note(c) = NoWatcher /\ Life(v) # "closed"
  BY <1>1 DEF RadosCallback, Note, Life, Stream
<1>3. NoteMap' = [NoteMap EXCEPT ![c] = <<v, ch>>]
  BY DEF RadosCallback, NoteMap, Note, InFlight, TypeOK
<1>4. UNCHANGED <<LifeMap, HandlingMap>>
  BY DEF RadosCallback, LifeMap, HandlingMap, Life
<1>5. Service!Offer(c, v, ch)
  BY <1>2, <1>3, <1>4 DEF Service!Offer, LifeMap, NoteMap, HandlingMap
<1>. QED  BY <1>5 DEF Service!Next

(* The loops over the channels.                                            *)
LEMMA ConsumerService ==
    ASSUME IInv, NEW v \in W, NEW ch \in Stream,
           StartConsumer(v, ch) \/ ConsumerStep(v, ch)
    PROVE  Service!Next \/ UNCHANGED Service!vars
<1>. USE DEF IInv
<1>1. PICK from \in ConsumerState, to \in ConsumerState :
         /\ Consume(v, ch, from, to)
         /\ to \in {"handle", "ack"} => from \in {"handle", "ack"}
  BY DEF StartConsumer, ConsumerStep, RangeEnds, Handled, AckLookup,
     RadosNotifyAck, ConsumerState
<1>2. UNCHANGED <<LifeMap, NoteMap>>
  BY <1>1 DEF Consume, LifeMap, NoteMap, Life, Note, InFlight
<1>3. \A w \in W : \A x \in Stream :
         (consumer'[w][x] \in {"handle", "ack"})
         = IF w = v /\ x = ch THEN to \in {"handle", "ack"}
           ELSE consumer[w][x] \in {"handle", "ack"}
  BY <1>1 DEF Consume, TypeOK
<1>4. CASE (from \in {"handle", "ack"}) = (to \in {"handle", "ack"})
  <2>1. \A w \in W : \A x \in Stream :
           (consumer'[w][x] \in {"handle", "ack"}) = (consumer[w][x] \in {"handle", "ack"})
    BY <1>1, <1>3, <1>4 DEF Consume
  <2>2. UNCHANGED HandlingMap
    BY <2>1, Zenon DEF HandlingMap
  <2>. QED  BY <1>2, <2>2 DEF Service!vars, LifeMap, NoteMap, HandlingMap
<1>5. CASE from \in {"handle", "ack"} /\ to \notin {"handle", "ack"}
  <2>1. consumer[v][ch] \in {"handle", "ack"}
    BY <1>1, <1>5 DEF Consume
  <2>2. HandlingMap' = [HandlingMap EXCEPT ![v][ch] = FALSE]
    <3>1. (to \in {"handle", "ack"}) = FALSE
      BY <1>5
    <3>2. \A w \in W : \A x \in Stream :
             (consumer'[w][x] \in {"handle", "ack"})
             = IF w = v /\ x = ch THEN FALSE ELSE consumer[w][x] \in {"handle", "ack"}
      BY <1>3, <3>1
    <3>. QED  BY <3>2 DEF HandlingMap
  <2>3. Service!Done(v, ch)
    BY <1>2, <2>1, <2>2 DEF Service!Done, LifeMap, NoteMap, HandlingMap
  <2>. QED  BY <2>3 DEF Service!Next
<1>. QED  BY <1>1, <1>4, <1>5

(* Watcher implements WatchService: a notification librados offers is       *)
(* delivered to its watcher's handler, unless Delete has been called.      *)
THEOREM Implementation == Spec => ImplementsService
<1>1. Spec => [](IInv /\ RInv)
  <2>1. Init => RInv
    BY InitRInv
  <2>2. IInv /\ RInv /\ [Next]_vars => RInv'
    BY NextRInv
  <2>. QED  BY <2>1, <2>2, Invariance, PTL DEF Spec
<1>2. IInv /\ RInv /\ [Next]_vars => [Service!Next]_(Service!vars)
  <2>. SUFFICES ASSUME IInv, RInv, [Next]_vars
                PROVE  Service!Next \/ UNCHANGED Service!vars
    OBVIOUS
  <2>1. CASE UNCHANGED vars
    BY <2>1 DEF vars, Service!vars, Life, Note, InFlight
  <2>2. CASE Next
    BY <2>2, AppService, CallbackService, OfferService, ConsumerService DEF Next
  <2>. QED  BY <2>1, <2>2
<1>. QED  BY <1>1, <1>2, InitService, PTL DEF Spec, ImplementsService, Service!Spec
----------------------------------------------------------------------------
(* The IOContext of the watchers.  An application that destroys it after    *)
(* every watcher has been deleted, as the comment of Watch asks, may have   *)
(* goroutines of its own in Delete and Ack still.                           *)

(* Nobody can get a watcher again for which a Delete has returned nil, and  *)
(* none is made on a context that has been destroyed.                       *)
ContextInv ==
    /\ deleted \subseteq returned /\ deleted \intersect watchers = {}
    /\ ~ioctx => returned \subseteq deleted
    /\ ~ioctx => \A a \in App : app[a].pc \notin {"watch", "register"}

(* It holds at the start.                                                  *)
LEMMA InitContext == Init => ContextInv
BY DEF Init, ContextInv

(* Every step keeps it.                                                    *)
LEMMA NextContext == IInv /\ ContextInv /\ [Next]_vars => ContextInv'
<1>. SUFFICES ASSUME IInv, ContextInv, [Next]_vars PROVE ContextInv'
  OBVIOUS
<1>1. ASSUME NEW a \in App, WatchLock(a)
      PROVE  ContextInv'
  BY <1>1 DEF WatchLock, ContextInv
<1>2. ASSUME NEW a \in App, RadosWatch3(a) \/ RadosWatch3Fails(a)
      PROVE  ContextInv'
  <2>1. app[a].pc = "watch" /\ UNCHANGED <<watchers, returned, deleted, ioctx>>
    BY <1>2 DEF RadosWatch3, RadosWatch3Fails
  <2>. QED  BY <2>1 DEF ContextInv
<1>3. ASSUME NEW a \in App, Register(a)
      PROVE  ContextInv'
  <2>1. app[a].pc = "register" /\ app[a].w \notin returned
    BY <1>3 DEF Register, IInv, WatchInv
  <2>2. /\ watchers' = watchers \union {app[a].w}
        /\ returned' = returned \union {app[a].w}
        /\ UNCHANGED <<deleted, ioctx>>
    BY <1>3 DEF Register
  <2>. QED  BY <2>1, <2>2 DEF ContextInv
<1>4. ASSUME NEW a \in App,
             \/ RadosUnwatch2(a) \/ RadosUnwatch2Fails(a) \/ CloseDone(a)
             \/ CloseEvents(a) \/ FlushCall(a) \/ FlushReturn(a)
             \/ \E w \in W : DeleteEntry(a, w)
      PROVE  ContextInv'
  <2>1. /\ watchers' \subseteq watchers /\ UNCHANGED <<returned, deleted, ioctx>>
        /\ app'[a].pc \notin {"watch", "register"}
        /\ \A b \in App : b # a => app'[b] = app[b]
    <3>1. CASE RadosUnwatch2(a) \/ RadosUnwatch2Fails(a) \/ CloseDone(a) \/ CloseEvents(a)
      BY <3>1 DEF RadosUnwatch2, RadosUnwatch2Fails, CloseDone, CloseEvents, IInv,
         TypeOK, AppState, Deleting, AppIdle
    <3>2. CASE FlushCall(a) \/ FlushReturn(a)
      BY <3>2 DEF FlushCall, FlushReturn, IInv, TypeOK, AppState, AppIdle
    <3>3. CASE \E w \in W : DeleteEntry(a, w)
      BY <3>3 DEF DeleteEntry, IInv, TypeOK
    <3>. QED  BY <1>4, <3>1, <3>2, <3>3
  <2>. QED  BY <2>1 DEF ContextInv
<1>5. ASSUME NEW a \in App, CloseErrors(a)
      PROVE  ContextInv'
  <2>1. app[a].w \in returned /\ app[a].w \notin watchers
    BY <1>5 DEF CloseErrors, IInv, DeleteInv, Deleting
  <2>2. /\ deleted' = deleted \union {app[a].w}
        /\ app' = [app EXCEPT ![a] = AppIdle]
        /\ UNCHANGED <<watchers, returned, ioctx>>
    BY <1>5 DEF CloseErrors
  <2>. QED  BY <2>1, <2>2 DEF ContextInv, IInv, TypeOK, AppIdle
<1>6. ASSUME NEW a \in App, NEW w \in W, DeleteGone(a, w)
      PROVE  ContextInv'
  BY <1>6 DEF DeleteGone, ContextInv
<1>7. ASSUME NEW a \in App, DestroyIOContext(a)
      PROVE  ContextInv'
  BY <1>7 DEF DestroyIOContext, ContextInv
<1>8. ASSUME UNCHANGED <<watchers, returned, deleted, app, ioctx>>
      PROVE  ContextInv'
  BY <1>8 DEF ContextInv
<1>9. ASSUME NEW c \in CB,
             CbStep(c) \/ \E w \in W, ch \in Stream : RadosCallback(c, w, ch)
      PROVE  ContextInv'
  BY <1>8, <1>9 DEF CbStep, CbLookup, CbUnblocked, CbSend, CbSendOnClosed, CbBlock,
     RadosCallback
<1>10. ASSUME NEW w \in W, NEW ch \in Stream, StartConsumer(w, ch) \/ ConsumerStep(w, ch)
       PROVE  ContextInv'
  BY <1>8, <1>10 DEF StartConsumer, ConsumerStep, RangeEnds, Handled, AckLookup,
     RadosNotifyAck, Consume
<1>11. CASE UNCHANGED vars
  BY <1>8, <1>11 DEF vars
<1>. QED
  BY <1>1, <1>2, <1>3, <1>4, <1>5, <1>6, <1>7, <1>9, <1>10, <1>11
     DEF Next, AppStep, AppCall

(* Once the context is destroyed the map is empty, nobody is making a       *)
(* watcher, and no Ack finds one; an Ack that is yet to call C had found    *)
(* its watcher before.  And whoever is yet to call rados_unwatch2 on the    *)
(* destroyed context has been overtaken: another Delete of the same watcher *)
(* has returned nil while it was between the lock and the call.             *)
THEOREM OnlyOvertakenCallsAreLate ==
    Spec => /\ [](~ioctx =>
                    /\ watchers = {}
                    /\ \A a \in App : app[a].pc \notin {"watch", "register"}
                    /\ \A a \in App : app[a].pc = "unwatch" => app[a].w \in deleted)
            /\ [][~ioctx => \A w \in W : consumer'[w]["events"] = "ack"
                                          => consumer[w]["events"] = "ack"]_vars
<1>. DEFINE Late == ~ioctx =>
                      /\ watchers = {}
                      /\ \A a \in App : app[a].pc \notin {"watch", "register"}
                      /\ \A a \in App : app[a].pc = "unwatch" => app[a].w \in deleted
            NoNewAck == ~ioctx => \A w \in W : consumer'[w]["events"] = "ack"
                                                => consumer[w]["events"] = "ack"
<1>1. IInv /\ ContextInv => Late
  <2>. SUFFICES ASSUME IInv, ContextInv, ~ioctx
                PROVE  /\ watchers = {}
                       /\ \A a \in App : app[a].pc \notin {"watch", "register"}
                       /\ \A a \in App : app[a].pc = "unwatch" => app[a].w \in deleted
    OBVIOUS
  <2>1. watchers = {}
    BY DEF IInv, RegisteredIsLive, ContextInv
  <2>2. \A a \in App : app[a].pc = "unwatch" => app[a].w \in returned
    BY DEF IInv, DeleteInv, Deleting
  <2>. QED  BY <2>1, <2>2 DEF ContextInv
<1>2. IInv /\ Late /\ [Next]_vars => [NoNewAck]_vars
  <2>. SUFFICES ASSUME IInv, Next, ~ioctx, watchers = {}, NEW v \in W,
                       consumer'[v]["events"] = "ack"
                PROVE  consumer[v]["events"] = "ack"
    OBVIOUS
  <2>1. ASSUME NEW a \in App, AppStep(a) \/ AppCall(a)
        PROVE  consumer' = consumer
    BY <2>1 DEF AppStep, AppCall, WatchLock, RadosWatch3, RadosWatch3Fails, Register,
       DeleteEntry, DeleteGone, RadosUnwatch2, RadosUnwatch2Fails, CloseDone,
       CloseEvents, CloseErrors, FlushCall, FlushReturn, DestroyIOContext
  <2>2. ASSUME NEW c \in CB, CbSend(c)
        PROVE  consumer[v]["events"] = "ack"
    <3>1. consumer' = [consumer EXCEPT ![cb[c].w][cb[c].ch] = "handle"]
      BY <2>2 DEF CbSend
    <3>. QED  BY <3>1 DEF IInv, TypeOK, Stream
  <2>3. ASSUME NEW c \in CB,
               \/ CbLookup(c) \/ CbUnblocked(c) \/ CbSendOnClosed(c) \/ CbBlock(c)
               \/ \E w \in W, ch \in Stream : RadosCallback(c, w, ch)
        PROVE  consumer' = consumer
    BY <2>3 DEF CbLookup, CbUnblocked, CbSendOnClosed, CbBlock, RadosCallback
  <2>4. ASSUME NEW w \in W, NEW ch \in Stream, NEW to \in {"recv", "ended"},
               consumer' = [consumer EXCEPT ![w][ch] = to]
        PROVE  consumer[v]["events"] = "ack"
    BY <2>4 DEF IInv, TypeOK, Stream
  <2>5. ASSUME NEW w \in W, NEW ch \in Stream, StartConsumer(w, ch) \/ ConsumerStep(w, ch)
        PROVE  \E to \in {"recv", "ended"}, d \in Stream :
                   consumer' = [consumer EXCEPT ![w][d] = to]
    BY <2>5 DEF StartConsumer, ConsumerStep, RangeEnds, Handled, AckLookup,
       RadosNotifyAck, Consume, Stream
  <2>. QED  BY <2>1, <2>2, <2>3, <2>4, <2>5 DEF Next, CbStep
<1>3. IInv /\ ContextInv /\ [Next]_vars => ContextInv'
  BY NextContext
<1>. QED  BY <1>1, <1>2, <1>3, InitContext, Invariance, PTL DEF Spec
=============================================================================
