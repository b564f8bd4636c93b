----------------------------- MODULE AioProofs ------------------------------
(***************************************************************************)
(* Proofs about Aio for every accepted configuration of an asynchronous    *)
(* engine: every queue depth, block size, duration and region.             *)
(***************************************************************************)
EXTENDS Aio, FiniteSetTheorems, TLAPS

LEMMA AioConfigFacts ==
  ASSUME NEW c \in Configs
  PROVE  /\ c.queue_depth \in Nat
         /\ c.block_size \in Nat \ {0}
         /\ c.duration \in Nat
  BY AioConfigsAssumption DEF ConfigType

\* One more operation never takes the volume back.
LEMMA OneMore ==
  ASSUME NEW m \in Nat, NEW b \in Nat, NEW d \in Nat, m * b >= d
  PROVE  (m + 1) * b >= d
<1>1. (m + 1) * b = m * b + b
  OBVIOUS
<1>2. m * b \in Nat
  OBVIOUS
<1> QED
  BY <1>1, <1>2

\* No step changes the configuration, so the slots stay the same.
LEMMA SameSlots ==
  ASSUME [AioNext]_aioVars
  PROVE  cfg' = cfg /\ Slots' = Slots /\ Depth' = Depth
<1>1. cfg' = cfg
  BY DEF AioNext, Thread, Fault, Device, Notify, MainStops, aioVars, kept, Exits,
         Others, OthersCount, OthersRefused, OthersEnd, Setup, SetupRefused, SetupFails, Fill, ClaimOp, OpRefused, Submit,
         SubmitFails, Test, AioSuspend, EpollWait, EpollInterrupted,
         EventfdRead, GetEvents, WaitFails, Reap, ReapFails, Skip, LookEnds,
         VoidRead, Complete
<1> QED
  BY <1>1 DEF Slots, Depth

LEMMA AioTypeInit == AioInit => AioTypeOK
<1> SUFFICES ASSUME AioInit PROVE AioTypeOK
  OBVIOUS
<1>1. cfg \in Configs /\ cfg.queue_depth \in Nat
  BY AioConfigFacts DEF AioInit
<1>2. i \in 0 .. Depth /\ (pc \in {"claim", "op"} => i < Depth)
  BY <1>1 DEF AioInit, Depth
<1>3. slot \in [Slots -> SlotState]
  BY DEF AioInit, SlotState
<1>4. status \in {"running", "exit", "crash"} /\ ops \in Nat /\ pushed \in Nat
  BY DEF AioInit
<1>5. /\ is_done \in BOOLEAN /\ refused \in BOOLEAN /\ filled \in BOOLEAN
      /\ owed \in Nat /\ signalled \in BOOLEAN /\ edge \in BOOLEAN
  BY DEF AioInit
<1>6. pc = "setup" /\ others \in Nat /\ elsewhere \in BOOLEAN
  BY DEF AioInit
<1> QED
  BY <1>1, <1>2, <1>3, <1>4, <1>5, <1>6 DEF AioTypeOK

LEMMA AioTypeStep == AioTypeOK /\ [AioNext]_aioVars => AioTypeOK'
<1> SUFFICES ASSUME AioTypeOK, [AioNext]_aioVars PROVE AioTypeOK'
  OBVIOUS
<1>0. /\ cfg' = cfg /\ Slots' = Slots /\ Depth' = Depth
      /\ Depth \in Nat /\ Slots = 0 .. Depth - 1
  BY SameSlots, AioConfigFacts DEF AioTypeOK, Depth, Slots
<1> USE <1>0 DEF AioTypeOK, Waiting, SlotState, Step, kept, around, wakeup
<1>1. CASE Setup
  BY <1>1 DEF Setup
<1>2. CASE SetupRefused
  BY <1>2 DEF SetupRefused, Exits
<1>3. CASE Fill
  BY <1>3 DEF Fill, MoreToFill
<1>4. CASE ClaimOp
  BY <1>4 DEF ClaimOp
<1>5. CASE OpRefused
  BY <1>5 DEF OpRefused
<1>6. CASE Submit
  BY <1>6 DEF Submit, Submitted
<1>7. CASE Test
  BY <1>7 DEF Test
<1>8. CASE AioSuspend
  BY <1>8 DEF AioSuspend
<1>9. CASE EpollWait
  BY <1>9 DEF EpollWait
<1>10. CASE EventfdRead
  BY <1>10 DEF EventfdRead
<1>11. CASE GetEvents
  BY <1>11 DEF GetEvents
<1>12. CASE Skip
  BY <1>12 DEF Skip
<1>13. CASE LookEnds
  BY <1>13 DEF LookEnds
<1>14. CASE Fault
  BY <1>14 DEF Fault, SetupFails, SubmitFails, EpollInterrupted, WaitFails,
               ReapFails, VoidRead, Exits
<1>15. CASE Notify
  BY <1>15 DEF Notify
<1>16. CASE MainStops
  BY <1>16 DEF MainStops
<1>17. ASSUME NEW s \in Slots, Reap(s) PROVE AioTypeOK'
  BY <1>17 DEF Reap, AfterReap, Freed, ToSlot
<1>18. ASSUME NEW s \in Slots, Complete(s) PROVE AioTypeOK'
  BY <1>18 DEF Complete
<1>19. CASE UNCHANGED aioVars
  BY <1>19 DEF aioVars
<1>20. CASE OthersCount
  BY <1>20 DEF OthersCount
<1>21. CASE OthersRefused
  BY <1>21 DEF OthersRefused
<1>22. CASE OthersEnd
  BY <1>22 DEF OthersEnd
<1> QED
  BY <1>1, <1>2, <1>3, <1>4, <1>5, <1>6, <1>7, <1>8, <1>9, <1>10,
     <1>11, <1>12, <1>13, <1>14, <1>15, <1>16, <1>17, <1>18, <1>19, <1>20,
     <1>21, <1>22
  DEF AioNext, Thread, Device, Others

\* Every variable keeps its type and the loops stay inside the arrays, for
\* every configuration (io_engines.cc:186-224 and 290-338).
THEOREM AioTypeCorrect == AioSpec => []AioTypeOK
  BY AioTypeInit, AioTypeStep, PTL DEF AioSpec

-----------------------------------------------------------------------------
(* The queue.  While it is being filled the free slots are those from i on; *)
(* after that the only free slot is the one whose result has just been     *)
(* taken, until its next submission.                                       *)
Queue ==
  /\ IF filled
       THEN \A s \in Slots :
              slot[s] = "free" <=> s = i /\ (pc \in {"claim", "op"} \/ refused)
       ELSE \A s \in Slots : slot[s] = "free" <=> s >= i
  /\ pc \in {"setup", "fill"} => ~ filled
  /\ pc \in Waiting \cup {"look"} => filled
  /\ pc = "exited" => filled \/ refused
  /\ refused => pc = "exited" /\ i < Depth

LEMMA QueueInit == AioInit => Queue
<1> SUFFICES ASSUME AioInit PROVE Queue
  OBVIOUS
<1>1. cfg.queue_depth \in Nat
  BY AioConfigFacts DEF AioInit
<1> QED
  BY <1>1 DEF AioInit, Queue, Slots, Depth, Waiting

LEMMA QueueStep == AioTypeOK /\ Queue /\ [AioNext]_aioVars => Queue'
<1> SUFFICES ASSUME AioTypeOK, Queue, [AioNext]_aioVars PROVE Queue'
  OBVIOUS
<1>0. /\ cfg' = cfg /\ Slots' = Slots /\ Depth' = Depth
      /\ Depth \in Nat /\ Slots = 0 .. Depth - 1
      /\ slot \in [Slots -> SlotState] /\ i \in 0 .. Depth
      /\ filled \in BOOLEAN /\ refused \in BOOLEAN
      /\ pc \in {"claim", "op"} => i < Depth
  BY SameSlots, AioConfigFacts DEF AioTypeOK, Depth, Slots
<1> USE <1>0 DEF Queue, Waiting, Step, kept, wakeup
<1>1. CASE Setup \/ SetupRefused \/ ClaimOp \/ OpRefused
  BY <1>1 DEF Setup, SetupRefused, ClaimOp, OpRefused, Exits
<1>2. CASE Fill
  BY <1>2 DEF Fill, MoreToFill
<1>3. CASE Submit
  <2>1. slot[i] = "free" /\ slot'[i] # "free" /\ i \in Slots
    BY <1>3 DEF Submit, Submitted
  <2>2. \A s \in Slots : s # i => slot'[s] = slot[s]
    BY <1>3 DEF Submit
  <2> QED
    BY <1>3, <2>1, <2>2 DEF Submit
<1>4. CASE Test \/ AioSuspend \/ EpollWait \/ EventfdRead \/ Skip \/ LookEnds
  BY <1>4 DEF Test, AioSuspend, EpollWait, EventfdRead, Skip, LookEnds
<1>5. CASE GetEvents
  <2>1. \A s \in Slots : slot'[s] = "free" <=> slot[s] = "free"
    BY <1>5 DEF GetEvents
  <2> QED
    BY <1>5, <2>1 DEF GetEvents
<1>6. ASSUME NEW s \in Slots, Reap(s) PROVE Queue'
  <2>1. slot'[s] = "free" /\ \A u \in Slots : u # s => slot'[u] = slot[u]
    BY <1>6 DEF Reap, Freed
  <2> QED
    BY <1>6, <2>1 DEF Reap, AfterReap, ToSlot
<1>7. CASE Fault
  BY <1>7 DEF Fault, SetupFails, SubmitFails, EpollInterrupted, WaitFails,
              ReapFails, VoidRead, Exits
<1>8. ASSUME NEW s \in Slots, Complete(s) PROVE Queue'
  <2>1. \A u \in Slots : slot'[u] = "free" <=> slot[u] = "free"
    BY <1>8 DEF Complete
  <2> QED
    BY <1>8, <2>1 DEF Complete
<1>9. CASE Notify \/ MainStops \/ Others
  BY <1>9 DEF Notify, MainStops, Others, OthersCount, OthersRefused, OthersEnd
<1>10. CASE UNCHANGED aioVars
  BY <1>10 DEF aioVars
<1> QED
  BY <1>1, <1>2, <1>3, <1>4, <1>5, <1>6, <1>7, <1>8, <1>9, <1>10
  DEF AioNext, Thread, Device

LEMMA QueueAlways == AioSpec => [](AioTypeOK /\ Queue)
  BY AioTypeInit, AioTypeStep, QueueInit, QueueStep, PTL DEF AioSpec

\* What is not free is an AIO call, but for the events taken from the kernel
\* that the thread has still to look at, and for trims.
CallsOnly ==
  /\ pc \in {"read", "get"} => ~ Paio
  /\ (\E s \in Slots : slot[s] = "batch") =>
       ~ Paio /\ filled /\ pc \notin Waiting
  /\ cfg.operation # "trim" => \A s \in Slots : slot[s] # "void"

LEMMA CallsOnlyStep ==
  AioTypeOK /\ Queue /\ CallsOnly /\ [AioNext]_aioVars => CallsOnly'
<1> SUFFICES ASSUME AioTypeOK, Queue, CallsOnly, [AioNext]_aioVars
             PROVE  CallsOnly'
  OBVIOUS
<1>0. /\ cfg' = cfg /\ Slots' = Slots /\ Paio' = Paio
      /\ slot \in [Slots -> SlotState] /\ filled \in BOOLEAN
      /\ pc \in {"setup", "fill"} => ~ filled
  BY SameSlots DEF AioTypeOK, Queue, Paio
<1> USE <1>0 DEF CallsOnly, Waiting, Step, kept, wakeup
<1>1. CASE Setup \/ SetupRefused \/ Fill \/ ClaimOp \/ OpRefused
  BY <1>1 DEF Setup, SetupRefused, Fill, ClaimOp, OpRefused, Exits
<1>2. CASE Submit
  <2>1. /\ \A s \in Slots : slot'[s] \in {slot[s], Submitted}
        /\ pc = "op" /\ pc' \in {"look", "fill"} /\ filled' = filled
    BY <1>2 DEF Submit
  <2>2. cfg.operation # "trim" => Submitted = "flight"
    BY DEF Submitted
  <2>3. Submitted # "batch"
    BY DEF Submitted
  <2> QED
    BY <2>1, <2>2, <2>3
<1>3. CASE Test \/ AioSuspend \/ EpollWait \/ EventfdRead \/ Skip \/ LookEnds
  BY <1>3 DEF Test, AioSuspend, EpollWait, EventfdRead, Skip, LookEnds
<1>4. CASE GetEvents
  <2>1. /\ \A s \in Slots : slot'[s] \in {slot[s], "batch"}
        /\ pc' = "look" /\ filled' = filled /\ ~ Paio
    BY <1>4 DEF GetEvents
  <2>2. filled
    BY <1>4 DEF GetEvents, Queue
  <2> QED
    BY <2>1, <2>2
<1>5. ASSUME NEW s \in Slots, Reap(s) PROVE CallsOnly'
  <2>1. /\ \A u \in Slots : slot'[u] \in {slot[u], "free"}
        /\ pc' = "claim" /\ filled' = filled
    BY <1>5 DEF Reap, AfterReap, Freed
  <2> QED
    BY <2>1
<1>6. CASE Fault
  BY <1>6 DEF Fault, SetupFails, SubmitFails, EpollInterrupted, WaitFails,
              ReapFails, VoidRead, Exits
<1>7. ASSUME NEW s \in Slots, Complete(s) PROVE CallsOnly'
  <2>1. /\ \A u \in Slots : slot'[u] \in {slot[u], "complete"}
        /\ pc' = pc /\ filled' = filled
    BY <1>7 DEF Complete
  <2> QED
    BY <2>1
<1>8. CASE Notify \/ MainStops \/ Others
  BY <1>8 DEF Notify, MainStops, Others, OthersCount, OthersRefused, OthersEnd
<1>9. CASE UNCHANGED aioVars
  BY <1>9 DEF aioVars
<1> QED
  BY <1>1, <1>2, <1>3, <1>4, <1>5, <1>6, <1>7, <1>8, <1>9
  DEF AioNext, Thread, Device

\* Whenever the thread waits, every slot is a read or a write that the device
\* has or has answered.  Nothing is claimed of trims, which are submitted nowhere.
THEOREM QueueKeptFull == AioSpec => []KeepsFull
<1>1. AioInit => CallsOnly
  BY DEF AioInit, CallsOnly
<1>2. AioTypeOK /\ Queue /\ CallsOnly => KeepsFull
  <2> SUFFICES ASSUME AioTypeOK, Queue, CallsOnly, cfg.operation # "trim",
                      pc \in Waiting, NEW s \in Slots
               PROVE  slot[s] \in {"flight", "complete"}
    BY DEF KeepsFull, Calls
  <2>1. slot[s] \in SlotState
    BY DEF AioTypeOK
  <2>2. slot[s] # "free"
    BY DEF Queue, Waiting
  <2>3. slot[s] # "batch" /\ slot[s] # "void"
    BY DEF CallsOnly
  <2> QED
    BY <2>1, <2>2, <2>3 DEF SlotState
<1> QED
  BY <1>1, <1>2, CallsOnlyStep, AioTypeInit, AioTypeStep, QueueInit, QueueStep, PTL
  DEF AioSpec

\* No submission takes a request or a buffer that an operation still uses.
THEOREM SlotIsOwn == AioSpec => []OwnSlot
<1>1. AioTypeOK /\ Queue => OwnSlot
  <2> SUFFICES ASSUME AioTypeOK, Queue, pc \in {"claim", "op"}
               PROVE  slot[i] = "free"
    BY DEF OwnSlot
  <2>1. Depth \in Nat /\ i \in Slots
    BY AioConfigFacts DEF AioTypeOK, Slots, Depth
  <2> QED
    BY <2>1 DEF Queue, AioTypeOK
<1> QED
  BY <1>1, QueueAlways, PTL

-----------------------------------------------------------------------------
(* What is counted. *)

LEMMA OutstandingFinite ==
  ASSUME AioTypeOK
  PROVE  /\ Depth \in Nat
         /\ IsFiniteSet(Slots) /\ Cardinality(Slots) = Depth
         /\ IsFiniteSet(Outstanding) /\ Cardinality(Outstanding) \in Nat
<1>1. Depth \in Nat
  BY AioConfigFacts DEF AioTypeOK, Depth
<1>2. IsFiniteSet(Slots) /\ Cardinality(Slots) = Depth
  <2>1. IsFiniteSet(0 .. Depth - 1)
        /\ Cardinality(0 .. Depth - 1) = IF 0 > Depth - 1 THEN 0 ELSE Depth - 1 - 0 + 1
    BY <1>1, FS_Interval
  <2> QED
    BY <1>1, <2>1 DEF Slots
<1>3. IsFiniteSet(Outstanding)
  BY <1>2, FS_Subset DEF Outstanding
<1> QED
  BY <1>1, <1>2, <1>3, FS_CardinalityType

LEMMA AccountingInit == AioInit => Accounting
<1> SUFFICES ASSUME AioInit PROVE Accounting
  OBVIOUS
<1>1. Outstanding = {}
  BY DEF AioInit, Outstanding
<1>2. Cardinality(Outstanding) = 0
  BY <1>1, FS_EmptySet
<1> QED
  BY <1>2 DEF AioInit, Accounting

LEMMA AccountingStep ==
  AioTypeOK /\ Queue /\ Accounting /\ [AioNext]_aioVars => Accounting'
<1> SUFFICES ASSUME AioTypeOK, Queue, Accounting, [AioNext]_aioVars
             PROVE  Accounting'
  OBVIOUS
<1> DEFINE card == Cardinality(Outstanding)
<1>0. /\ Slots' = Slots /\ card \in Nat /\ IsFiniteSet(Outstanding)
      /\ ops \in Nat /\ pushed \in Nat
      /\ slot \in [Slots -> SlotState]
      /\ refused => pc = "exited"
  BY SameSlots, OutstandingFinite DEF AioTypeOK, Queue
<1>1. ops = pushed + card + (IF refused \/ pc = "op" THEN 1 ELSE 0)
  BY DEF Accounting
<1>2. ASSUME Outstanding' = Outstanding, UNCHANGED <<ops, pushed, refused>>,
             pc' = "op" <=> pc = "op"
      PROVE  Accounting'
  BY <1>0, <1>1, <1>2 DEF Accounting
<1>3. CASE ClaimOp
  BY <1>0, <1>1, <1>3 DEF ClaimOp, Step, Accounting, Outstanding, wakeup
<1>4. CASE OpRefused
  BY <1>0, <1>1, <1>4 DEF OpRefused, Step, Accounting, Outstanding, wakeup
<1>5. CASE Submit
  <2>1. i \in Slots /\ slot[i] = "free" /\ slot' = [slot EXCEPT ![i] = Submitted]
    BY <1>5, OutstandingFinite
    DEF Submit, Step, Queue, AioTypeOK, Slots
  <2>2. Outstanding' = Outstanding \cup {i} /\ i \notin Outstanding
    BY <1>0, <2>1 DEF Outstanding, Submitted
  <2>3. Cardinality(Outstanding') = card + 1
    BY <1>0, <2>2, FS_AddElement
  <2> QED
    BY <1>0, <1>1, <1>5, <2>3 DEF Submit, Step, Accounting, wakeup
<1>6. ASSUME NEW s \in Slots, Reap(s) PROVE Accounting'
  <2>1. slot[s] # "free" /\ slot' = [slot EXCEPT ![s] = "free"]
    BY <1>6 DEF Reap, Ready, Freed
  <2>2. Outstanding' = Outstanding \ {s} /\ s \in Outstanding
    BY <1>0, <2>1 DEF Outstanding
  <2>3. Cardinality(Outstanding') = card - 1
    BY <1>0, <2>2, FS_RemoveElement
  <2> QED
    BY <1>0, <1>1, <1>6, <2>3 DEF Reap, Step, AfterReap, Accounting, wakeup
<1>7. CASE GetEvents
  <2>1. Outstanding' = Outstanding
    BY <1>0, <1>7 DEF GetEvents, Outstanding
  <2> QED
    BY <1>2, <1>7, <2>1 DEF GetEvents, Step, wakeup
<1>8. ASSUME NEW s \in Slots, Complete(s) PROVE Accounting'
  <2>1. Outstanding' = Outstanding
    BY <1>0, <1>8 DEF Complete, Outstanding
  <2> QED
    BY <1>2, <1>8, <2>1 DEF Complete
<1>9. CASE Setup \/ SetupRefused \/ Fill \/ Test \/ AioSuspend \/ EpollWait
  <2>1. Outstanding' = Outstanding
    BY <1>0, <1>9 DEF Setup, SetupRefused, Fill, Test, AioSuspend, EpollWait,
                      Exits, Outstanding
  <2> QED
    BY <1>2, <1>9, <2>1 DEF Setup, SetupRefused, Fill, Test, AioSuspend,
                            EpollWait, Exits, Step, wakeup
<1>10. CASE EventfdRead \/ Skip \/ LookEnds \/ Notify \/ MainStops
            \/ UNCHANGED aioVars
  <2>1. Outstanding' = Outstanding
    BY <1>0, <1>10 DEF EventfdRead, Skip, LookEnds, Notify, MainStops, aioVars,
                       Outstanding
  <2> QED
    BY <1>2, <1>10, <2>1 DEF EventfdRead, Skip, LookEnds, Notify, MainStops,
                             aioVars, Step, wakeup
<1>12. CASE Others
  <2>1. Outstanding' = Outstanding
    BY <1>0, <1>12 DEF Others, OthersCount, OthersRefused, OthersEnd, Outstanding
  <2> QED
    BY <1>2, <1>12, <2>1 DEF Others, OthersCount, OthersRefused, OthersEnd
<1>11. CASE Fault
  <2>1. Outstanding' = Outstanding
    BY <1>0, <1>11 DEF Fault, SetupFails, SubmitFails, EpollInterrupted,
                       WaitFails, ReapFails, VoidRead, Exits, Outstanding
  <2> QED
    BY <1>2, <1>11, <2>1 DEF Fault, SetupFails, SubmitFails, EpollInterrupted,
                             WaitFails, ReapFails, VoidRead, Exits, Step, wakeup
<1> QED
  BY <1>3, <1>4, <1>5, <1>6, <1>7, <1>8, <1>9, <1>10, <1>11, <1>12
  DEF AioNext, Thread, Device

LEMMA CountedAlways == AioSpec => [](AioTypeOK /\ Queue /\ Accounting)
  BY AioTypeInit, AioTypeStep, QueueInit, QueueStep, AccountingInit,
     AccountingStep, PTL DEF AioSpec

\* The thread's count is the latencies known, the operations the device still
\* has or has answered unheard (or, of trims, was never given), and the one
\* refused or being made.
THEOREM EveryOpAccounted == AioSpec => []Accounting
  BY CountedAlways, PTL

\* A thread that was told to stop leaves exactly queue_depth operations behind,
\* one that was refused its next operation at most as many.
THEOREM LeftBehind == AioSpec => []AtExit
<1>1. AioTypeOK /\ Queue /\ Accounting => AtExit
  <2> SUFFICES ASSUME AioTypeOK, Queue, Accounting, pc = "exited"
               PROVE  IF refused THEN ops - pushed \in 1 .. Depth
                                 ELSE ops - pushed = Depth
    BY DEF AtExit
  <2>0. /\ ops \in Nat /\ pushed \in Nat /\ i \in 0 .. Depth /\ filled \in BOOLEAN
        /\ Slots = 0 .. Depth - 1
    BY DEF AioTypeOK, Slots
  <2>1. CASE ~ refused
    <3>1. Outstanding = Slots
      BY <2>1 DEF Queue, Outstanding
    <3> QED
      BY <2>0, <2>1, <3>1, OutstandingFinite DEF Accounting
  <2>2. CASE refused
    <3>1. i \in Slots /\ slot[i] = "free"
      BY <2>0, <2>2, OutstandingFinite DEF Queue
    <3>2. Outstanding # Slots /\ Outstanding \in SUBSET Slots
      BY <3>1 DEF Outstanding
    <3>3. Cardinality(Outstanding) <= Depth /\ Cardinality(Outstanding) # Depth
      BY <3>2, OutstandingFinite, FS_Subset
    <3> QED
      BY <2>0, <2>2, <3>3, OutstandingFinite DEF Accounting
  <2> QED
    BY <2>1, <2>2
<1> QED
  BY <1>1, CountedAlways, PTL

-----------------------------------------------------------------------------
(* The volume.  Main's test looks at a sum of counters that only grow. *)

VolumeSeen ==
  /\ pc = "exited" => is_done
  /\ is_done /\ ~ refused /\ ~ elsewhere /\ cfg.duration_unit = "space" =>
       VolumeReached

LEMMA VolumeSeenStep == AioTypeOK /\ VolumeSeen /\ [AioNext]_aioVars => VolumeSeen'
<1> SUFFICES ASSUME AioTypeOK, VolumeSeen, [AioNext]_aioVars
             PROVE  VolumeSeen'
  OBVIOUS
<1>0. /\ cfg' = cfg /\ ops \in Nat /\ others \in Nat
      /\ cfg.block_size \in Nat \ {0} /\ cfg.duration \in Nat
  BY SameSlots, AioConfigFacts DEF AioTypeOK
<1>1. ASSUME UNCHANGED <<ops, refused, is_done, around>>,
             pc' = "exited" => is_done
      PROVE  VolumeSeen'
  BY <1>0, <1>1 DEF VolumeSeen, VolumeReached, around
<1>2. CASE ClaimOp \/ OthersCount
  <2>1. ops' + others' = (ops + others) + 1
    BY <1>0, <1>2 DEF ClaimOp, OthersCount, kept, around
  <2>2. VolumeReached => VolumeReached'
    BY <1>0, <2>1, OneMore DEF VolumeReached
  <2> QED
    BY <1>0, <1>2, <2>2 DEF ClaimOp, OthersCount, Step, VolumeSeen, kept, around
<1>3. CASE OpRefused \/ OthersRefused
  BY <1>3 DEF OpRefused, OthersRefused, VolumeSeen
<1>4. CASE MainStops
  BY <1>0, <1>4 DEF MainStops, VolumeSeen, VolumeReached, kept, around
<1>5. CASE Test
  BY <1>1, <1>5 DEF Test, Step, kept
<1>6. CASE Setup \/ SetupRefused \/ Fill \/ Submit \/ AioSuspend \/ EpollWait
  BY <1>1, <1>6 DEF Setup, SetupRefused, Fill, Submit, AioSuspend, EpollWait,
                    Exits, Step, VolumeSeen, kept
<1>7. CASE EventfdRead \/ GetEvents \/ Skip \/ LookEnds \/ Notify \/ Device
           \/ (\E s \in Slots : Reap(s)) \/ UNCHANGED aioVars
  BY <1>1, <1>7 DEF EventfdRead, GetEvents, Skip, LookEnds, Notify, Device,
                    Complete, Reap, AfterReap, aioVars, Step, VolumeSeen, kept,
                    around
<1>8. CASE Fault \/ OthersEnd
  BY <1>1, <1>8 DEF Fault, SetupFails, SubmitFails, EpollInterrupted, WaitFails,
                    ReapFails, VoidRead, OthersEnd, Exits, Step, VolumeSeen, kept
<1> QED
  BY <1>2, <1>3, <1>4, <1>5, <1>6, <1>7, <1>8 DEF AioNext, Thread, Others

\* Of a workload stopped at its volume each thread has processed what it
\* submitted but for a queue: with what the others submitted, the volume.
THEOREM VolumeShortByAQueue == AioSpec => []VolumeNearlyMet
<1>1. AioInit => VolumeSeen
  BY DEF AioInit, VolumeSeen
<1>2. AioTypeOK /\ VolumeSeen /\ AtExit => VolumeNearlyMet
  <2> SUFFICES ASSUME AioTypeOK, VolumeSeen, AtExit, pc = "exited", ~ refused,
                      ~ elsewhere, cfg.duration_unit = "space"
               PROVE  (pushed + Depth + others) * cfg.block_size >= cfg.duration
    BY DEF VolumeNearlyMet
  <2>1. /\ ops - pushed = Depth /\ ops \in Nat /\ pushed \in Nat
        /\ Depth \in Nat /\ others \in Nat
    BY OutstandingFinite DEF AtExit, AioTypeOK
  <2>2. ops + others = pushed + Depth + others
    BY <2>1
  <2> QED
    BY <2>2 DEF VolumeSeen, VolumeReached
<1> QED
  BY <1>1, <1>2, AioTypeInit, AioTypeStep, VolumeSeenStep, LeftBehind, PTL
  DEF AioSpec
=============================================================================
