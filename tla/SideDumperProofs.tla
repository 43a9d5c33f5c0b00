-------------------------- MODULE SideDumperProofs --------------------------
(***************************************************************************)
(* Safety of the side dumper, for any number of processes, devices and     *)
(* captured urbs: first the types, the semaphore and the locks, then who   *)
(* owns what it allocates, so that no TWorkItem and no transfer_buffer is  *)
(* leaked or used after its kfree, and what the log gets, so that the      *)
(* dumper implements DumpFifo.                                             *)
(***************************************************************************)
EXTENDS SideDumper, SequenceTheorems, TLAPS

-----------------------------------------------------------------------------
(* Numbers and records.                                                    *)

(* The number generator stays in its span, and zero is a number and a      *)
(* device.                                                                 *)
LEMMA NumberFacts ==
  /\ \A n \in Nat : n % NumberSpan \in Number
  /\ Number \subseteq Nat
  /\ 0 \in Number /\ 0 \in Table
  BY NumberAssumption DEF Number, Table

(* The operators on mini urbs return mini urbs, and a dump of one is a log *)
(* entry.                                                                  *)
LEMMA MiniFacts ==
  /\ NoMini \in Mini
  /\ \A i \in Nat, n \in Number, d \in Table, b \in Pointer : NewMini(i, n, d, b) \in Mini
  /\ \A m \in Mini, n \in Number : Numbered(m, n) \in Mini
  /\ \A m \in Mini : /\ WithBuffer(m) \in Mini
                    /\ Dump(m) \in Entry
                    /\ m.id \in Nat
  <1>1. ASSUME NEW i \in Nat, NEW n \in Number, NEW d \in Table, NEW b \in Pointer
        PROVE NewMini(i, n, d, b) \in Mini
    BY DEF NewMini, Mini, Pointer
  <1>2. NoMini \in Mini
    BY <1>1, NumberFacts DEF NoMini, Pointer
  <1>3. ASSUME NEW m \in Mini, NEW n \in Number PROVE Numbered(m, n) \in Mini
    BY DEF Numbered, Mini
  <1>4. ASSUME NEW m \in Mini
        PROVE WithBuffer(m) \in Mini /\ Dump(m) \in Entry /\ m.id \in Nat
    BY DEF WithBuffer, Dump, Entry, Mini, Pointer
  <1>5. QED BY <1>1, <1>2, <1>3, <1>4

-----------------------------------------------------------------------------
(* Type correctness.                                                       *)

(* The initial state is well typed.                                        *)
LEMMA TypeInit == Init => TypeOK
  <1> SUFFICES ASSUME Init PROVE TypeOK
    OBVIOUS
  <1> USE DEF Init
  <1>1. SeqType
    BY DEF SeqType
  <1>2. NumberType
    BY NumberFacts, NumberAssumption DEF NumberType
  <1>3. LifeType
    BY DEF LifeType, Settings
  <1>4. WorkerType /\ LocalType
    BY MiniFacts DEF WorkerType, LocalType
  <1>5. SemType /\ PcType /\ HeapType
    BY DEF SemType, PcType, HeapType
  <1>6. QED
    BY <1>1, <1>2, <1>3, <1>4, <1>5 DEF TypeOK

(* A step of start-up or of the removal keeps the types.                   *)
LEMMA TypeLife ==
  TypeOK /\ (InstallDumper \/ HcFoundFails \/ RemoveDumper \/ Remover) => TypeOK'
  <1> SUFFICES ASSUME TypeOK, InstallDumper \/ HcFoundFails \/ RemoveDumper \/ Remover
               PROVE  TypeOK'
    OBVIOUS
  <1> USE DEF TypeOK, Runs, Keeps, Yields, NumberAfter, QueuedTail,
      UpListAccess, UpItemsQueued, InitThread, StopThread, FreeItem, KeepQueued, lifeVars, queueVars, workerVars, procVars, heapVars
  <1>1. CASE InstallDumper
    <2> USE DEF InstallDumper
    <2>1. LifeType' BY <1>1 DEF LifeType
    <2>2. SemType' BY <1>1 DEF SemType
    <2>3. NumberType' BY <1>1, NumberFacts DEF NumberType
    <2>4. SeqType' BY <1>1 DEF SeqType
    <2>5. WorkerType' BY <1>1 DEF WorkerType
    <2>6. PcType' /\ LocalType' /\ HeapType'
      BY <1>1 DEF PcType, LocalType, HeapType
    <2>7. QED BY <2>1, <2>2, <2>3, <2>4, <2>5, <2>6
  <1>2. CASE HcFoundFails
    <2> USE DEF HcFoundFails
    <2>1. LifeType' BY <1>2 DEF LifeType
    <2>2. SemType' BY <1>2 DEF SemType
    <2>3. NumberType' /\ SeqType' /\ WorkerType' /\ PcType' /\ LocalType' /\ HeapType'
      BY <1>2 DEF NumberType, SeqType, WorkerType, PcType, LocalType, HeapType
    <2>4. QED BY <2>1, <2>2, <2>3
  <1>3. CASE RemoveDumper
    <2> USE DEF RemoveDumper
    <2>1. LifeType' BY <1>3 DEF LifeType
    <2>2. SemType' BY <1>3 DEF SemType
    <2>3. NumberType' /\ SeqType' /\ WorkerType' /\ PcType' /\ LocalType' /\ HeapType'
      BY <1>3 DEF NumberType, SeqType, WorkerType, PcType, LocalType, HeapType
    <2>4. QED BY <2>1, <2>2, <2>3
  <1>4. CASE RemoveJoin
    <2> USE DEF RemoveJoin
    <2>1. LifeType' BY <1>4 DEF LifeType
    <2>2. SemType' BY <1>4 DEF SemType
    <2>3. NumberType' /\ SeqType' /\ WorkerType' /\ PcType' /\ LocalType' /\ HeapType'
      BY <1>4 DEF NumberType, SeqType, WorkerType, PcType, LocalType, HeapType
    <2>4. QED BY <2>1, <2>2, <2>3
  <1>5. CASE RemoveDrain
    <2> USE DEF RemoveDrain
    <2>1. LifeType' BY <1>5 DEF LifeType
    <2>2. SeqType' BY <1>5 DEF SeqType
    <2>3. HeapType' BY <1>5 DEF HeapType
    <2>4. SemType' /\ NumberType' /\ WorkerType' /\ PcType' /\ LocalType'
      BY <1>5 DEF SemType, NumberType, WorkerType, PcType, LocalType
    <2>5. QED BY <2>1, <2>2, <2>3, <2>4
  <1>6. CASE RemoveProcFs
    <2> USE DEF RemoveProcFs
    <2>1. LifeType' BY <1>6 DEF LifeType
    <2>2. SemType' /\ NumberType' /\ SeqType' /\ WorkerType' /\ PcType' /\ LocalType' /\ HeapType'
      BY <1>6 DEF SemType, NumberType, SeqType, WorkerType, PcType, LocalType, HeapType
    <2>3. QED BY <2>1, <2>2
  <1>7. QED BY <1>1, <1>2, <1>3, <1>4, <1>5, <1>6 DEF Remover

(* A step of a process inside a submission keeps the types.                *)
LEMMA TypeProc == ASSUME NEW p \in Procs PROVE TypeOK /\ Proc(p) => TypeOK'
  <1> SUFFICES ASSUME TypeOK, Proc(p) PROVE TypeOK'
    OBVIOUS
  <1> USE DEF TypeOK, Goto, Runs, Keeps, Yields, NumberAfter, QueuedTail,
      UpListAccess, UpItemsQueued, InitThread, StopThread, FreeItem, KeepQueued, Forget, AfterInitMini, lifeVars, queueVars, workerVars, procVars, heapVars
  <1>1. mini[p] \in Mini /\ mini[p].id \in Nat /\ Dump(mini[p]) \in Entry
    BY MiniFacts DEF LocalType
  <1>2. CASE QueueAlloc(p)
    <2> USE DEF QueueAlloc
    <2>1. LifeType' BY <1>2 DEF LifeType
    <2>2. PcType' BY <1>2 DEF PcType
    <2>3. LocalType' BY <1>2, MiniFacts DEF LocalType
    <2>4. HeapType' BY <1>2, <1>1 DEF HeapType
    <2>5. SemType' /\ NumberType' /\ SeqType' /\ WorkerType'
      BY <1>2 DEF SemType, NumberType, SeqType, WorkerType
    <2>6. QED BY <2>1, <2>2, <2>3, <2>4, <2>5
  <1>3. CASE NumberLoad(p)
    <2> USE DEF NumberLoad
    <2>1. Numbered(mini[p], uUrbNumGenerator) \in Mini
      BY <1>1, MiniFacts DEF NumberType
    <2>2. LifeType' BY <1>3 DEF LifeType
    <2>3. PcType' BY <1>3 DEF PcType
    <2>4. LocalType' BY <1>3, <2>1 DEF LocalType
    <2>5. SemType' /\ NumberType' /\ SeqType' /\ WorkerType' /\ HeapType'
      BY <1>3 DEF SemType, NumberType, SeqType, WorkerType, HeapType
    <2>6. QED BY <2>2, <2>3, <2>4, <2>5
  <1>4. CASE NumberStore(p)
    <2> USE DEF NumberStore
    <2>1. (mini[p].num + 1) % NumberSpan \in Number
      <3>1. mini[p].num \in Number
        BY <1>1 DEF Mini
      <3>2. mini[p].num + 1 \in Nat
        BY <3>1, NumberAssumption DEF Number
      <3>3. QED BY <3>2, NumberFacts
    <2>2. LifeType' BY <1>4 DEF LifeType
    <2>3. PcType' BY <1>4 DEF PcType
    <2>4. NumberType' BY <1>4, <2>1 DEF NumberType
    <2>5. SemType' /\ SeqType' /\ WorkerType' /\ LocalType' /\ HeapType'
      BY <1>4 DEF SemType, SeqType, WorkerType, LocalType, HeapType
    <2>6. QED BY <2>2, <2>3, <2>4, <2>5
  <1>5. CASE CopyTb(p)
    <2> USE DEF CopyTb
    <2>1. WithBuffer(mini[p]) \in Mini
      BY <1>1, MiniFacts
    <2>2. LifeType' BY <1>5 DEF LifeType
    <2>3. PcType' BY <1>5 DEF PcType
    <2>4. LocalType' BY <1>5, <2>1 DEF LocalType
    <2>5. HeapType' BY <1>5, <1>1 DEF HeapType
    <2>6. SemType' /\ NumberType' /\ SeqType' /\ WorkerType'
      BY <1>5 DEF SemType, NumberType, SeqType, WorkerType
    <2>7. QED BY <2>2, <2>3, <2>4, <2>5, <2>6
  <1>6. CASE ListDown(p)
    <2> USE DEF ListDown
    <2>1. LifeType' BY <1>6 DEF LifeType
    <2>2. PcType' BY <1>6 DEF PcType
    <2>3. SemType' BY <1>6 DEF SemType
    <2>4. NumberType' /\ SeqType' /\ WorkerType' /\ LocalType' /\ HeapType'
      BY <1>6 DEF NumberType, SeqType, WorkerType, LocalType, HeapType
    <2>5. QED BY <2>1, <2>2, <2>3, <2>4
  <1>7. CASE ListAdd(p)
    <2> USE DEF ListAdd
    <2>1. LifeType' BY <1>7 DEF LifeType
    <2>2. PcType' BY <1>7 DEF PcType
    <2>3. SemType' BY <1>7 DEF SemType
    <2>4. SeqType' BY <1>7, <1>1 DEF SeqType
    <2>5. NumberType' /\ WorkerType' /\ LocalType' /\ HeapType'
      BY <1>7 DEF NumberType, WorkerType, LocalType, HeapType
    <2>6. QED BY <2>1, <2>2, <2>3, <2>4, <2>5
  <1>8. CASE Signal(p)
    <2> USE DEF Signal
    <2>1. LifeType' BY <1>8 DEF LifeType
    <2>2. PcType' BY <1>8 DEF PcType
    <2>3. SemType' BY <1>8 DEF SemType
    <2>4. LocalType' BY <1>8, MiniFacts DEF LocalType
    <2>5. NumberType' /\ SeqType' /\ WorkerType' /\ HeapType'
      BY <1>8 DEF NumberType, SeqType, WorkerType, HeapType
    <2>6. QED BY <2>1, <2>2, <2>3, <2>4, <2>5
  <1>9. CASE ProcessMini(p)
    <2> USE DEF ProcessMini
    <2>1. LifeType' BY <1>9 DEF LifeType
    <2>2. PcType' BY <1>9 DEF PcType
    <2>3. SemType' /\ NumberType' /\ SeqType' /\ WorkerType' /\ LocalType' /\ HeapType'
      BY <1>9 DEF SemType, NumberType, SeqType, WorkerType, LocalType, HeapType
    <2>4. QED BY <2>1, <2>2, <2>3
  <1>10. CASE DumpUrbToPrintk(p)
    <2> USE DEF DumpUrbToPrintk
    <2>1. LifeType' BY <1>10 DEF LifeType
    <2>2. PcType' BY <1>10 DEF PcType
    <2>3. SeqType' BY <1>10, <1>1, SMTT(30) DEF SeqType
    <2>4. SemType' /\ NumberType' /\ WorkerType' /\ LocalType' /\ HeapType'
      BY <1>10 DEF SemType, NumberType, WorkerType, LocalType, HeapType
    <2>5. QED BY <2>1, <2>2, <2>3, <2>4
  <1>11. CASE CleanMini(p)
    <2> USE DEF CleanMini
    <2>1. LifeType' BY <1>11 DEF LifeType
    <2>2. PcType' BY <1>11 DEF PcType
    <2>3. HeapType' BY <1>11 DEF HeapType
    <2>4. LocalType' BY <1>11, MiniFacts DEF LocalType
    <2>5. SemType' /\ NumberType' /\ SeqType' /\ WorkerType'
      BY <1>11 DEF SemType, NumberType, SeqType, WorkerType
    <2>6. QED BY <2>1, <2>2, <2>3, <2>4, <2>5
  <1>12. QED BY <1>2, <1>3, <1>4, <1>5, <1>6, <1>7, <1>8, <1>9, <1>10, <1>11 DEF Proc

(* Capturing in the interrupt handler, or starting to in a process.        *)
LEMMA TypeCapture ==
  ASSUME TypeOK, NEW d \in DevNums
  PROVE  /\ \A p \in Procs : OnSubmit(p, d) => TypeOK'
         /\ InterruptNoBuf(d) => TypeOK'
         /\ \A tb \in Pointer : InterruptQueue(d, tb) => TypeOK'
         /\ InterruptProcess(d) => TypeOK'
  <1> USE DEF TypeOK, Goto, Runs, Interrupt, Captures, NumberAfter, QueuedTail,
      UpItemsQueued, lifeVars, queueVars, workerVars, procVars, heapVars
  <1>1. captured + 1 \in Nat /\ (captured < MaxUrbs => captured + 1 \in 0 .. MaxUrbs)
    BY NumberAssumption DEF NumberType
  <1>2. (uUrbNumGenerator + 1) % NumberSpan \in Number
    BY NumberFacts DEF NumberType
  <1>3. ASSUME d \in Table
        PROVE  /\ NewMini(captured + 1, 0, d, "NULL") \in Mini
               /\ \A tb \in Pointer : /\ InterruptMini(d, tb) \in Mini
                                      /\ Dump(InterruptMini(d, tb)) \in Entry
    <2>1. NewMini(captured + 1, 0, d, "NULL") \in Mini
      BY <1>1, <1>3, MiniFacts, NumberFacts DEF Pointer
    <2>2. ASSUME NEW tb \in Pointer PROVE InterruptMini(d, tb) \in Mini
      BY <1>1, <1>3, MiniFacts DEF InterruptMini, NumberType
    <2>3. QED BY <2>1, <2>2, MiniFacts
  <1>4. ASSUME NEW p \in Procs, OnSubmit(p, d) PROVE TypeOK'
    <2> USE DEF OnSubmit
    <2>1. LifeType' BY <1>4 DEF LifeType
    <2>2. PcType' BY <1>4 DEF PcType
    <2>3. NumberType' BY <1>4, <1>1 DEF NumberType
    <2>4. LocalType'
      <3>1. NewMini(captured + 1, 0, d, "NULL") \in Mini
        BY <1>4, <1>3
      <3>2. aDevSettings[d].oAsync \in BOOLEAN
        BY <1>4 DEF LifeType, Settings
      <3>3. QED BY <1>4, <3>1, <3>2 DEF LocalType
    <2>5. SemType' /\ SeqType' /\ WorkerType' /\ HeapType'
      BY <1>4 DEF SemType, SeqType, WorkerType, HeapType
    <2>6. QED BY <2>1, <2>2, <2>3, <2>4, <2>5
  <1>5. ASSUME InterruptNoBuf(d) PROVE TypeOK'
    <2> USE DEF InterruptNoBuf
    <2>1. LifeType' BY <1>5 DEF LifeType
    <2>2. NumberType' BY <1>5, <1>1, <1>2 DEF NumberType
    <2>3. HeapType' BY <1>5, <1>1 DEF HeapType
    <2>4. SemType' /\ SeqType' /\ WorkerType' /\ PcType' /\ LocalType'
      BY <1>5 DEF SemType, SeqType, WorkerType, PcType, LocalType
    <2>5. QED BY <2>1, <2>2, <2>3, <2>4
  <1>6. ASSUME NEW tb \in Pointer, InterruptQueue(d, tb) PROVE TypeOK'
    <2> USE DEF InterruptQueue
    <2>1. LifeType' BY <1>6 DEF LifeType
    <2>2. SemType'
      <3>1. semItemsQueued' \in {semItemsQueued, semItemsQueued + 1}
        BY <1>6
      <3>2. semListAccess' = semListAccess /\ semExitSignal' = semExitSignal
        BY <1>6
      <3>3. QED BY <3>1, <3>2 DEF SemType
    <2>3. NumberType' BY <1>6, <1>1, <1>2 DEF NumberType
    <2>4. SeqType'
      <3>1. InterruptMini(d, tb) \in Mini
        BY <1>6, <1>3
      <3>2. list' \in {list, Append(list, InterruptMini(d, tb))} /\ log' = log
        BY <1>6
      <3>3. QED BY <3>1, <3>2 DEF SeqType
    <2>5. HeapType' BY <1>6, <1>1 DEF HeapType
    <2>6. WorkerType' /\ PcType' /\ LocalType'
      BY <1>6 DEF WorkerType, PcType, LocalType
    <2>7. QED BY <2>1, <2>2, <2>3, <2>4, <2>5, <2>6
  <1>7. ASSUME InterruptProcess(d) PROVE TypeOK'
    <2> USE DEF InterruptProcess
    <2>1. NumberType' BY <1>7, <1>1, <1>2 DEF NumberType
    <2>2. SeqType'
      <3>1. Dump(InterruptMini(d, "NULL")) \in Entry
        BY <1>7, <1>3 DEF Pointer
      <3>2. QED BY <1>7, <3>1 DEF SeqType
    <2>3. LifeType' /\ SemType' /\ WorkerType' /\ PcType' /\ LocalType' /\ HeapType'
      BY <1>7 DEF LifeType, SemType, WorkerType, PcType, LocalType, HeapType
    <2>4. QED BY <2>1, <2>2, <2>3
  <1>8. QED BY <1>4, <1>5, <1>6, <1>7

(* A step of the worker keeps the types.                                   *)
LEMMA TypeWorker == TypeOK /\ WorkerThread => TypeOK'
  <1> SUFFICES ASSUME TypeOK, WorkerThread PROVE TypeOK'
    OBVIOUS
  <1> USE DEF TypeOK, WGoto, Runs, Keeps, Yields, NumberAfter, QueuedTail,
      UpListAccess, UpItemsQueued, InitThread, StopThread, FreeItem, KeepQueued, lifeVars, queueVars, workerVars, procVars, heapVars
  <1>1. Dump(wItem) \in Entry
    BY MiniFacts DEF WorkerType
  <1>2. CASE WorkerDown
    <2> USE DEF WorkerDown
    <2>1. LifeType' BY <1>2 DEF LifeType
    <2>2. SemType' BY <1>2 DEF SemType
    <2>3. WorkerType' BY <1>2 DEF WorkerType
    <2>4. NumberType' /\ SeqType' /\ PcType' /\ LocalType' /\ HeapType'
      BY <1>2 DEF NumberType, SeqType, PcType, LocalType, HeapType
    <2>5. QED BY <2>1, <2>2, <2>3, <2>4
  <1>3. CASE WorkerSleep
    <2> USE DEF WorkerSleep
    <2>1. LifeType' BY <1>3 DEF LifeType
    <2>2. SemType' /\ NumberType' /\ SeqType' /\ WorkerType' /\ PcType' /\ LocalType' /\ HeapType'
      BY <1>3 DEF SemType, NumberType, SeqType, WorkerType, PcType, LocalType, HeapType
    <2>3. QED BY <2>1, <2>2
  <1>4. CASE WorkerCheck
    <2> USE DEF WorkerCheck
    <2>1. LifeType' BY <1>4 DEF LifeType
    <2>2. WorkerType' BY <1>4 DEF WorkerType
    <2>3. SemType' /\ NumberType' /\ SeqType' /\ PcType' /\ LocalType' /\ HeapType'
      BY <1>4 DEF SemType, NumberType, SeqType, PcType, LocalType, HeapType
    <2>4. QED BY <2>1, <2>2, <2>3
  <1>5. CASE WorkerListDown
    <2> USE DEF WorkerListDown
    <2>1. LifeType' BY <1>5 DEF LifeType
    <2>2. SemType' BY <1>5 DEF SemType
    <2>3. WorkerType' BY <1>5 DEF WorkerType
    <2>4. NumberType' /\ SeqType' /\ PcType' /\ LocalType' /\ HeapType'
      BY <1>5 DEF NumberType, SeqType, PcType, LocalType, HeapType
    <2>5. QED BY <2>1, <2>2, <2>3, <2>4
  <1>6. CASE WorkerTake
    <2> USE DEF WorkerTake
    <2>1. list # <<>> => Head(list) \in Mini /\ Tail(list) \in Seq(Mini)
      BY DEF SeqType
    <2>2. LifeType' BY <1>6 DEF LifeType
    <2>3. SemType' BY <1>6 DEF SemType
    <2>4. WorkerType' BY <1>6, <2>1 DEF WorkerType
    <2>5. SeqType' BY <1>6, <2>1 DEF SeqType
    <2>6. NumberType' /\ PcType' /\ LocalType' /\ HeapType'
      BY <1>6 DEF NumberType, PcType, LocalType, HeapType
    <2>7. QED BY <2>2, <2>3, <2>4, <2>5, <2>6
  <1>7. CASE WorkerProcessMini
    <2> USE DEF WorkerProcessMini
    <2>1. LifeType' BY <1>7 DEF LifeType
    <2>2. WorkerType' BY <1>7 DEF WorkerType
    <2>3. SemType' /\ NumberType' /\ SeqType' /\ PcType' /\ LocalType' /\ HeapType'
      BY <1>7 DEF SemType, NumberType, SeqType, PcType, LocalType, HeapType
    <2>4. QED BY <2>1, <2>2, <2>3
  <1>8. CASE WorkerDump
    <2> USE DEF WorkerDump
    <2>1. LifeType' BY <1>8 DEF LifeType
    <2>2. WorkerType' BY <1>8 DEF WorkerType
    <2>3. SeqType' BY <1>8, <1>1 DEF SeqType
    <2>4. SemType' /\ NumberType' /\ PcType' /\ LocalType' /\ HeapType'
      BY <1>8 DEF SemType, NumberType, PcType, LocalType, HeapType
    <2>5. QED BY <2>1, <2>2, <2>3, <2>4
  <1>9. CASE WorkerClean
    <2> USE DEF WorkerClean
    <2>1. LifeType' BY <1>9 DEF LifeType
    <2>2. WorkerType' BY <1>9, MiniFacts DEF WorkerType
    <2>3. HeapType' BY <1>9 DEF HeapType
    <2>4. SemType' /\ NumberType' /\ SeqType' /\ PcType' /\ LocalType'
      BY <1>9 DEF SemType, NumberType, SeqType, PcType, LocalType
    <2>5. QED BY <2>1, <2>2, <2>3, <2>4
  <1>10. CASE WorkerExit
    <2> USE DEF WorkerExit
    <2>1. LifeType' BY <1>10 DEF LifeType
    <2>2. SemType' BY <1>10 DEF SemType
    <2>3. WorkerType' BY <1>10 DEF WorkerType
    <2>4. NumberType' /\ SeqType' /\ PcType' /\ LocalType' /\ HeapType'
      BY <1>10 DEF NumberType, SeqType, PcType, LocalType, HeapType
    <2>5. QED BY <2>1, <2>2, <2>3, <2>4
  <1>11. QED BY <1>2, <1>3, <1>4, <1>5, <1>6, <1>7, <1>8, <1>9, <1>10 DEF WorkerThread

(* A write of the settings keeps the types.                                *)
LEMMA TypeSettings ==
  ASSUME TypeOK, NEW d \in DevNums, Enable(d) \/ Disable(d) \/ SetDeviceSettings(d)
  PROVE  TypeOK'
  <1> USE DEF TypeOK
  <1>1. ASSUME NEW s \in Settings, SetSettings(d, s) PROVE TypeOK'
    <2> USE DEF SetSettings, lifeVars, queueVars, workerVars, procVars, heapVars
    <2>1. LifeType' BY <1>1 DEF LifeType
    <2>2. SemType' /\ NumberType' /\ SeqType' /\ WorkerType' /\ PcType' /\ LocalType' /\ HeapType'
      BY <1>1 DEF SemType, NumberType, SeqType, WorkerType, PcType, LocalType, HeapType
    <2>3. QED BY <2>1, <2>2
  <1>2. ASSUME NEW b \in BOOLEAN, SetEnabled(d, b) PROVE TypeOK'
    <2>1. [oEnabled |-> b, oAsync |-> aDevSettings[d].oAsync] \in Settings
      BY <1>2 DEF SetEnabled, LifeType, Settings
    <2>2. QED BY <1>1, <1>2, <2>1 DEF SetEnabled
  <1>3. QED BY <1>1, <1>2 DEF Enable, Disable, SetDeviceSettings

(* Every step of every operation keeps each variable to its type.          *)
LEMMA TypeStep == TypeOK /\ [Next]_vars => TypeOK'
  <1> SUFFICES ASSUME TypeOK, [Next]_vars PROVE TypeOK'
    OBVIOUS
  <1>1. ASSUME UNCHANGED vars PROVE TypeOK'
    BY <1>1, ZenonT(30) DEF TypeOK, vars, lifeVars, queueVars, workerVars, procVars, heapVars, LifeType, SemType, NumberType, SeqType, WorkerType, PcType, LocalType, HeapType
  <1>2. QED
    BY <1>1, TypeLife, TypeProc, TypeCapture, TypeWorker, TypeSettings DEF Next

(* Type correctness, for every value of the constants.                     *)
THEOREM TypeCorrect == Spec => []TypeOK
  BY TypeInit, TypeStep, PTL DEF Spec

-----------------------------------------------------------------------------
(* The inductive invariant.                                                *)

(* A process that asks for semListAccess finds it up: whoever holds it      *)
(* holds the processor too.                                                *)
LEMMA NeverContended == IInv => ListNeverContended
  <1> SUFFICES ASSUME IInv PROVE ListNeverContended
    OBVIOUS
  <1> USE ThreadAssumption DEF IInv, CpuInv, LifeInv, LockInv, AtList
  <1>1. ASSUME NEW p \in Procs, pc[p] = "down"
        PROVE  semListAccess = 1
    BY <1>1
  <1>2. ASSUME wpc = "down"
        PROVE  semListAccess = 1
    BY <1>2
  <1>3. QED
    BY <1>1, <1>2 DEF ListNeverContended

(* Nobody else runs between two sleeping points of a process.              *)
LEMMA CpuStep == IInv /\ [Next]_vars => CpuInv'
  <1> SUFFICES ASSUME IInv, [Next]_vars PROVE CpuInv'
    OBVIOUS
  <1> USE ThreadAssumption DEF IInv, CpuInv, TypeOK, PcType, WorkerType, vars, lifeVars, queueVars, workerVars, procVars, heapVars,
      Goto, WGoto, Runs, Keeps, Yields, NumberAfter, QueuedTail,
      UpListAccess, UpItemsQueued, InitThread, StopThread, FreeItem, KeepQueued, AfterInitMini
  <1>1. CASE InstallDumper \/ HcFoundFails \/ RemoveDumper \/ Remover
    BY <1>1 DEF InstallDumper, HcFoundFails, RemoveDumper, Remover, RemoveJoin,
       RemoveDrain, RemoveProcFs
  <1>2. ASSUME NEW p \in Procs, Proc(p) \/ \E d \in DevNums : OnSubmit(p, d)
        PROVE  CpuInv'
    <2>1. CASE \E d \in DevNums : OnSubmit(p, d) BY <2>1 DEF OnSubmit
    <2>2. CASE QueueAlloc(p) BY <2>2 DEF QueueAlloc
    <2>3. CASE NumberLoad(p) BY <2>3 DEF NumberLoad
    <2>4. CASE NumberStore(p) BY <2>4 DEF NumberStore
    <2>5. CASE CopyTb(p) BY <2>5 DEF CopyTb
    <2>6. CASE ListDown(p)
      BY <2>6, NeverContended DEF ListDown, ListNeverContended
    <2>7. CASE ListAdd(p) BY <2>7 DEF ListAdd
    <2>8. CASE Signal(p) BY <2>8 DEF Signal
    <2>9. CASE ProcessMini(p) BY <2>9 DEF ProcessMini
    <2>10. CASE DumpUrbToPrintk(p) BY <2>10 DEF DumpUrbToPrintk
    <2>11. CASE CleanMini(p) BY <2>11 DEF CleanMini
    <2>12. QED
      BY <1>2, <2>1, <2>2, <2>3, <2>4, <2>5, <2>6, <2>7, <2>8, <2>9, <2>10, <2>11 DEF Proc
  <1>3. ASSUME NEW d \in DevNums,
               InterruptNoBuf(d) \/ InterruptProcess(d)
               \/ \E tb \in Pointer : InterruptQueue(d, tb)
        PROVE  CpuInv'
    BY <1>3 DEF Interrupt, InterruptNoBuf, InterruptQueue, InterruptProcess
  <1>4. CASE WorkerThread
    <2>1. CASE WorkerDown BY <2>1 DEF WorkerDown
    <2>2. CASE WorkerSleep BY <2>2 DEF WorkerSleep
    <2>3. CASE WorkerCheck BY <2>3 DEF WorkerCheck
    <2>4. CASE WorkerListDown
      BY <2>4, NeverContended DEF WorkerListDown, ListNeverContended
    <2>5. CASE WorkerTake BY <2>5 DEF WorkerTake
    <2>6. CASE WorkerProcessMini BY <2>6 DEF WorkerProcessMini
    <2>7. CASE WorkerDump BY <2>7 DEF WorkerDump
    <2>8. CASE WorkerClean BY <2>8 DEF WorkerClean
    <2>9. CASE WorkerExit BY <2>9 DEF WorkerExit
    <2>10. QED
      BY <1>4, <2>1, <2>2, <2>3, <2>4, <2>5, <2>6, <2>7, <2>8, <2>9 DEF WorkerThread
  <1>5. ASSUME NEW d \in DevNums, Enable(d) \/ Disable(d) \/ SetDeviceSettings(d)
        PROVE  CpuInv'
    BY <1>5 DEF Enable, Disable, SetEnabled, SetDeviceSettings, SetSettings
  <1>6. CASE UNCHANGED vars
    BY <1>6
  <1>7. QED
    BY <1>1, <1>2, <1>3, <1>4, <1>5, <1>6 DEF Next

(* The driver's life and the threads go together.                          *)
LEMMA LifeStep == IInv /\ [Next]_vars => LifeInv'
  <1> SUFFICES ASSUME IInv, [Next]_vars PROVE LifeInv'
    OBVIOUS
  <1> USE ThreadAssumption DEF IInv, LifeInv, TypeOK, LifeType, SemType, PcType, WorkerType, vars, lifeVars, queueVars, workerVars, procVars, heapVars,
      Goto, WGoto, Runs, Keeps, Yields, NumberAfter, QueuedTail,
      UpListAccess, UpItemsQueued, InitThread, StopThread, FreeItem, KeepQueued, AfterInitMini
  <1>1. CASE InstallDumper \/ HcFoundFails \/ RemoveDumper \/ Remover
    <2>1. CASE InstallDumper BY <2>1 DEF InstallDumper
    <2>2. CASE HcFoundFails BY <2>2 DEF HcFoundFails
    <2>3. CASE RemoveDumper BY <2>3 DEF RemoveDumper, CpuInv
    <2>4. CASE RemoveJoin BY <2>4 DEF RemoveJoin
    <2>5. CASE RemoveDrain BY <2>5 DEF RemoveDrain
    <2>6. CASE RemoveProcFs BY <2>6 DEF RemoveProcFs
    <2>7. QED BY <1>1, <2>1, <2>2, <2>3, <2>4, <2>5, <2>6 DEF Remover
  <1>2. ASSUME NEW p \in Procs, Proc(p) \/ \E d \in DevNums : OnSubmit(p, d)
        PROVE  LifeInv'
    <2>1. CASE \E d \in DevNums : OnSubmit(p, d) BY <2>1 DEF OnSubmit
    <2>2. CASE QueueAlloc(p) BY <2>2 DEF QueueAlloc
    <2>3. CASE NumberLoad(p) BY <2>3 DEF NumberLoad
    <2>4. CASE NumberStore(p) BY <2>4 DEF NumberStore
    <2>5. CASE CopyTb(p) BY <2>5 DEF CopyTb
    <2>6. CASE ListDown(p) BY <2>6 DEF ListDown
    <2>7. CASE ListAdd(p) BY <2>7 DEF ListAdd
    <2>8. CASE Signal(p) BY <2>8 DEF Signal
    <2>9. CASE ProcessMini(p) BY <2>9 DEF ProcessMini
    <2>10. CASE DumpUrbToPrintk(p) BY <2>10 DEF DumpUrbToPrintk
    <2>11. CASE CleanMini(p) BY <2>11 DEF CleanMini
    <2>12. QED
      BY <1>2, <2>1, <2>2, <2>3, <2>4, <2>5, <2>6, <2>7, <2>8, <2>9, <2>10, <2>11 DEF Proc
  <1>3. ASSUME NEW d \in DevNums,
               InterruptNoBuf(d) \/ InterruptProcess(d)
               \/ \E tb \in Pointer : InterruptQueue(d, tb)
        PROVE  LifeInv'
    BY <1>3 DEF Interrupt, InterruptNoBuf, InterruptQueue, InterruptProcess
  <1>4. CASE WorkerThread
    <2>1. CASE WorkerDown BY <2>1 DEF WorkerDown
    <2>2. CASE WorkerSleep BY <2>2 DEF WorkerSleep
    <2>3. CASE WorkerCheck BY <2>3 DEF WorkerCheck
    <2>4. CASE WorkerListDown BY <2>4 DEF WorkerListDown
    <2>5. CASE WorkerTake BY <2>5 DEF WorkerTake
    <2>6. CASE WorkerProcessMini BY <2>6 DEF WorkerProcessMini
    <2>7. CASE WorkerDump BY <2>7 DEF WorkerDump
    <2>8. CASE WorkerClean BY <2>8 DEF WorkerClean
    <2>9. CASE WorkerExit BY <2>9 DEF WorkerExit
    <2>10. QED
      BY <1>4, <2>1, <2>2, <2>3, <2>4, <2>5, <2>6, <2>7, <2>8, <2>9 DEF WorkerThread
  <1>5. ASSUME NEW d \in DevNums, Enable(d) \/ Disable(d) \/ SetDeviceSettings(d)
        PROVE  LifeInv'
    BY <1>5 DEF Enable, Disable, SetEnabled, SetDeviceSettings, SetSettings
  <1>6. CASE UNCHANGED vars
    BY <1>6
  <1>7. QED
    BY <1>1, <1>2, <1>3, <1>4, <1>5, <1>6 DEF Next

(* semListAccess is down exactly while somebody is at the list.            *)
LEMMA LockStep == IInv /\ [Next]_vars => LockInv'
  <1> SUFFICES ASSUME IInv, [Next]_vars PROVE LockInv'
    OBVIOUS
  <1> USE ThreadAssumption DEF IInv, LockInv, AtList, CpuInv, LifeInv, TypeOK, SemType, PcType, WorkerType,
      vars, lifeVars, queueVars, workerVars, procVars, heapVars, Goto, WGoto, Runs, Keeps, Yields, NumberAfter, QueuedTail,
      UpListAccess, UpItemsQueued, InitThread, StopThread, FreeItem, KeepQueued, AfterInitMini
  <1>1. CASE InstallDumper \/ HcFoundFails \/ RemoveDumper \/ Remover
    <2>1. CASE InstallDumper BY <2>1 DEF InstallDumper
    <2>2. CASE HcFoundFails BY <2>2 DEF HcFoundFails
    <2>3. CASE RemoveDumper BY <2>3 DEF RemoveDumper
    <2>4. CASE RemoveJoin BY <2>4 DEF RemoveJoin
    <2>5. CASE RemoveDrain BY <2>5 DEF RemoveDrain
    <2>6. CASE RemoveProcFs BY <2>6 DEF RemoveProcFs
    <2>7. QED BY <1>1, <2>1, <2>2, <2>3, <2>4, <2>5, <2>6 DEF Remover
  <1>2. ASSUME NEW p \in Procs, Proc(p) \/ \E d \in DevNums : OnSubmit(p, d)
        PROVE  LockInv'
    <2>1. CASE \E d \in DevNums : OnSubmit(p, d) BY <2>1 DEF OnSubmit
    <2>2. CASE QueueAlloc(p) BY <2>2 DEF QueueAlloc
    <2>3. CASE NumberLoad(p) BY <2>3 DEF NumberLoad
    <2>4. CASE NumberStore(p) BY <2>4 DEF NumberStore
    <2>5. CASE CopyTb(p) BY <2>5 DEF CopyTb
    <2>6. CASE ListDown(p) BY <2>6 DEF ListDown
    <2>7. CASE ListAdd(p) BY <2>7 DEF ListAdd
    <2>8. CASE Signal(p) BY <2>8 DEF Signal
    <2>9. CASE ProcessMini(p) BY <2>9 DEF ProcessMini
    <2>10. CASE DumpUrbToPrintk(p) BY <2>10 DEF DumpUrbToPrintk
    <2>11. CASE CleanMini(p) BY <2>11 DEF CleanMini
    <2>12. QED
      BY <1>2, <2>1, <2>2, <2>3, <2>4, <2>5, <2>6, <2>7, <2>8, <2>9, <2>10, <2>11 DEF Proc
  <1>3. ASSUME NEW d \in DevNums,
               InterruptNoBuf(d) \/ InterruptProcess(d)
               \/ \E tb \in Pointer : InterruptQueue(d, tb)
        PROVE  LockInv'
    BY <1>3 DEF Interrupt, InterruptNoBuf, InterruptQueue, InterruptProcess
  <1>4. CASE WorkerThread
    <2>1. CASE WorkerDown BY <2>1 DEF WorkerDown
    <2>2. CASE WorkerSleep BY <2>2 DEF WorkerSleep
    <2>3. CASE WorkerCheck BY <2>3 DEF WorkerCheck
    <2>4. CASE WorkerListDown BY <2>4 DEF WorkerListDown
    <2>5. CASE WorkerTake BY <2>5 DEF WorkerTake
    <2>6. CASE WorkerProcessMini BY <2>6 DEF WorkerProcessMini
    <2>7. CASE WorkerDump BY <2>7 DEF WorkerDump
    <2>8. CASE WorkerClean BY <2>8 DEF WorkerClean
    <2>9. CASE WorkerExit BY <2>9 DEF WorkerExit
    <2>10. QED
      BY <1>4, <2>1, <2>2, <2>3, <2>4, <2>5, <2>6, <2>7, <2>8, <2>9 DEF WorkerThread
  <1>5. ASSUME NEW d \in DevNums, Enable(d) \/ Disable(d) \/ SetDeviceSettings(d)
        PROVE  LockInv'
    BY <1>5 DEF Enable, Disable, SetEnabled, SetDeviceSettings, SetSettings
  <1>6. CASE UNCHANGED vars
    BY <1>6
  <1>7. QED
    BY <1>1, <1>2, <1>3, <1>4, <1>5, <1>6 DEF Next

(* No step loses or invents a token.                                       *)
LEMMA TokenStep == IInv /\ [Next]_vars => TokenBalance'
  <1> SUFFICES ASSUME IInv, [Next]_vars PROVE TokenBalance'
    OBVIOUS
  <1> USE ThreadAssumption DEF IInv, TokenBalance, Unsignalled, TokenHeld, StopToken, CpuInv,
      LifeInv, TypeOK, SemType, SeqType, PcType, WorkerType,
      vars, lifeVars, queueVars, workerVars, procVars, heapVars, Goto, WGoto, Runs, Keeps, Yields, NumberAfter, QueuedTail,
      UpListAccess, UpItemsQueued, InitThread, StopThread, FreeItem, KeepQueued, AfterInitMini
  <1>1. CASE InstallDumper \/ HcFoundFails \/ RemoveDumper \/ Remover
    <2>1. CASE InstallDumper BY <2>1 DEF InstallDumper
    <2>2. CASE HcFoundFails BY <2>2 DEF HcFoundFails
    <2>3. CASE RemoveDumper BY <2>3 DEF RemoveDumper
    <2>4. CASE RemoveJoin BY <2>4 DEF RemoveJoin
    <2>5. CASE RemoveDrain BY <2>5 DEF RemoveDrain
    <2>6. CASE RemoveProcFs BY <2>6 DEF RemoveProcFs
    <2>7. QED BY <1>1, <2>1, <2>2, <2>3, <2>4, <2>5, <2>6 DEF Remover
  <1>2. ASSUME NEW p \in Procs, Proc(p) \/ \E d \in DevNums : OnSubmit(p, d)
        PROVE  TokenBalance'
    <2>1. CASE \E d \in DevNums : OnSubmit(p, d) BY <2>1 DEF OnSubmit
    <2>2. CASE QueueAlloc(p) BY <2>2 DEF QueueAlloc
    <2>3. CASE NumberLoad(p) BY <2>3 DEF NumberLoad
    <2>4. CASE NumberStore(p) BY <2>4 DEF NumberStore
    <2>5. CASE CopyTb(p) BY <2>5 DEF CopyTb
    <2>6. CASE ListDown(p) BY <2>6 DEF ListDown
    <2>7. CASE ListAdd(p) BY <2>7 DEF ListAdd
    <2>8. CASE Signal(p) BY <2>8 DEF Signal
    <2>9. CASE ProcessMini(p) BY <2>9 DEF ProcessMini
    <2>10. CASE DumpUrbToPrintk(p) BY <2>10 DEF DumpUrbToPrintk
    <2>11. CASE CleanMini(p) BY <2>11 DEF CleanMini
    <2>12. QED
      BY <1>2, <2>1, <2>2, <2>3, <2>4, <2>5, <2>6, <2>7, <2>8, <2>9, <2>10, <2>11 DEF Proc
  <1>3. ASSUME NEW d \in DevNums,
               InterruptNoBuf(d) \/ InterruptProcess(d)
               \/ \E tb \in Pointer : InterruptQueue(d, tb)
        PROVE  TokenBalance'
    <2>1. CASE InterruptNoBuf(d) \/ InterruptProcess(d)
      BY <2>1 DEF Interrupt, InterruptNoBuf, InterruptProcess
    <2>2. ASSUME NEW tb \in Pointer, InterruptQueue(d, tb) PROVE TokenBalance'
      <3>1. \/ UNCHANGED <<list, semItemsQueued>>
            \/ Len(list') = Len(list) + 1 /\ semItemsQueued' = semItemsQueued + 1
        <4>1. \/ UNCHANGED <<list, semItemsQueued>>
              \/ /\ list' = Append(list, InterruptMini(d, tb))
                 /\ semItemsQueued' = semItemsQueued + 1
          BY <2>2 DEF InterruptQueue
        <4>2. Len(Append(list, InterruptMini(d, tb))) = Len(list) + 1
          BY DEF IInv, TypeOK, SeqType
        <4>3. QED BY <4>1, <4>2
      <3>2. UNCHANGED <<phase, wpc, pc>>
        BY <2>2 DEF InterruptQueue, Interrupt
      <3>3. QED BY <3>1, <3>2
    <2>3. QED BY <1>3, <2>1, <2>2
  <1>4. CASE WorkerThread
    <2>1. CASE WorkerDown BY <2>1 DEF WorkerDown
    <2>2. CASE WorkerSleep BY <2>2 DEF WorkerSleep
    <2>3. CASE WorkerCheck BY <2>3 DEF WorkerCheck
    <2>4. CASE WorkerListDown BY <2>4 DEF WorkerListDown
    <2>5. CASE WorkerTake BY <2>5 DEF WorkerTake
    <2>6. CASE WorkerProcessMini BY <2>6 DEF WorkerProcessMini
    <2>7. CASE WorkerDump BY <2>7 DEF WorkerDump
    <2>8. CASE WorkerClean BY <2>8 DEF WorkerClean
    <2>9. CASE WorkerExit BY <2>9 DEF WorkerExit
    <2>10. QED
      BY <1>4, <2>1, <2>2, <2>3, <2>4, <2>5, <2>6, <2>7, <2>8, <2>9 DEF WorkerThread
  <1>5. ASSUME NEW d \in DevNums, Enable(d) \/ Disable(d) \/ SetDeviceSettings(d)
        PROVE  TokenBalance'
    BY <1>5 DEF Enable, Disable, SetEnabled, SetDeviceSettings, SetSettings
  <1>6. CASE UNCHANGED vars
    BY <1>6
  <1>7. QED
    BY <1>1, <1>2, <1>3, <1>4, <1>5, <1>6 DEF Next

(* The initial state satisfies the invariant.                              *)
LEMMA InvInit == Init => IInv
  <1> SUFFICES ASSUME Init PROVE IInv
    OBVIOUS
  <1>1. TypeOK
    BY TypeInit
  <1>2. CpuInv /\ LockInv /\ LifeInv /\ TokenBalance
    BY DEF Init, CpuInv, LockInv, LifeInv, TokenBalance
  <1>3. QED BY <1>1, <1>2 DEF IInv

(* The invariant holds in every reachable state.                           *)
THEOREM Invariance == Spec => []IInv
  <1>1. IInv /\ [Next]_vars => IInv'
    <2> SUFFICES ASSUME IInv, [Next]_vars PROVE IInv'
      OBVIOUS
    <2>1. TypeOK'
      BY TypeStep DEF IInv
    <2>2. CpuInv' /\ LockInv' /\ LifeInv' /\ TokenBalance'
      BY CpuStep, LockStep, LifeStep, TokenStep
    <2>3. QED BY <2>1, <2>2 DEF IInv
  <1>2. QED
    BY InvInit, <1>1, PTL DEF Spec

-----------------------------------------------------------------------------
(* What follows from it.                                                   *)

(* semItemsQueued counts the list, whatever sleeps and interrupts come     *)
(* between adding and signalling, taking a token and taking an item.       *)
THEOREM TokensBalanced == Spec => []TokenBalance
  BY Invariance, PTL DEF IInv

(* The worker never reports "list empty": a token it took always has its   *)
(* item.                                                                   *)
THEOREM WorkerFindsItem == Spec => []NoEmptyWake
  <1>1. IInv => NoEmptyWake
    <2> SUFFICES ASSUME IInv, wpc = "locked" PROVE list # <<>>
      BY DEF NoEmptyWake
    <2>1. phase = "running"
      BY DEF IInv, LifeInv
    <2>2. semItemsQueued + 1 + Unsignalled = Len(list)
      BY <2>1 DEF IInv, TokenBalance, TokenHeld, StopToken, Unsignalled, TypeOK,
         SemType, SeqType
    <2>3. Len(list) > 0
      BY <2>2 DEF Unsignalled, IInv, TypeOK, SemType
    <2>4. QED BY <2>3
  <1>2. QED BY <1>1, Invariance, PTL

(* No process ever waits for semListAccess: only an interrupt can find it  *)
(* taken.                                                                  *)
THEOREM ListIsNeverContended == Spec => []ListNeverContended
  <1>1. QED BY NeverContended, Invariance, PTL

(* RemoveDumper walks the list when the worker has ended, nobody is in a   *)
(* submission and the semaphore is up.                                     *)
THEOREM DrainRunsAlone == Spec => []DrainIsAlone
  <1>1. IInv => DrainIsAlone
    BY DEF IInv, DrainIsAlone, LifeInv, LockInv, AtList
  <1>2. QED BY <1>1, Invariance, PTL

-----------------------------------------------------------------------------
(* Who owns what.                                                          *)

(* A mini urb has one owner: the process that fills it (until it has put   *)
(* it on the list), the list, or the worker.                               *)
Holds(p) == pc[p] \notin {"idle", "signal"}
WorkerHolds == wpc \in {"process", "dump", "clean"}

Logged(n) == \E i \in DOMAIN log : log[i].id = n

(* Every urb anybody knows of was captured.                                *)
IdsKnown ==
  /\ \A p \in Procs : Holds(p) => mini[p].id \in 1 .. captured
  /\ \A i \in DOMAIN list : list[i].id \in 1 .. captured
  /\ WorkerHolds => wItem.id \in 1 .. captured
  /\ \A i \in DOMAIN log : log[i].id \in 1 .. captured

(* No two owners have the same urb.                                        *)
OneOwner ==
  /\ \A p, q \in Procs : Holds(p) /\ Holds(q) /\ mini[p].id = mini[q].id => p = q
  /\ \A i, j \in DOMAIN list : list[i].id = list[j].id => i = j
  /\ \A p \in Procs, i \in DOMAIN list : Holds(p) => mini[p].id # list[i].id
  /\ WorkerHolds => /\ \A i \in DOMAIN list : wItem.id # list[i].id
                    /\ \A p \in Procs : Holds(p) => wItem.id # mini[p].id

(* Where a process is tells the mode it saw; who owns nothing points to    *)
(* nothing.                                                                *)
Modes ==
  /\ \A p \in Procs : /\ pc[p] = "idle" => mini[p] = NoMini
                      /\ pc[p] \in {"alloc", "down", "add", "signal"} => async[p]
                      /\ pc[p] \in {"process", "dump", "clean"} => ~ async[p]
  /\ ~ WorkerHolds => wItem = NoMini

(* What is still to be dumped has not been dumped.                         *)
NotLogged ==
  /\ \A p \in Procs : Holds(p) /\ pc[p] # "clean" => ~ Logged(mini[p].id)
  /\ \A i \in DOMAIN list : ~ Logged(list[i].id)
  /\ wpc \in {"process", "dump"} => ~ Logged(wItem.id)

Owned == IdsKnown /\ OneOwner /\ Modes /\ NotLogged
HeapInv == Owned /\ ItemsReachable /\ BuffersLive

-----------------------------------------------------------------------------
(* Sequences and mini urbs.                                                *)

(* What Append leaves where it was and what it adds.                       *)
LEMMA Appended ==
  ASSUME NEW S, NEW s \in Seq(S), NEW x
  PROVE  /\ DOMAIN Append(s, x) = DOMAIN s \cup {Len(s) + 1}
         /\ Len(s) + 1 \notin DOMAIN s
         /\ \A i \in DOMAIN s : Append(s, x)[i] = s[i]
         /\ Append(s, x)[Len(s) + 1] = x
  OBVIOUS

(* Where the elements of a list are once its head is gone.                 *)
LEMMA HeadGone ==
  ASSUME NEW S, NEW s \in Seq(S), s # <<>>
  PROVE  /\ 1 \in DOMAIN s /\ Head(s) = s[1]
         /\ \A i \in DOMAIN Tail(s) : i + 1 \in DOMAIN s /\ i + 1 # 1 /\ Tail(s)[i] = s[i + 1]
         /\ \A i \in DOMAIN s : i = 1 \/ i - 1 \in DOMAIN Tail(s)
         /\ \A i \in DOMAIN s : i \in Int
         /\ \A i \in DOMAIN Tail(s) : i \in Int
  OBVIOUS

(* The urbs of a list one longer, and of a list without its head.          *)
LEMMA QueuedAppended ==
  ASSUME list \in Seq(Mini), NEW m, list' = Append(list, m)
  PROVE  Queued' = Queued \cup {m.id}
  <1>1. /\ DOMAIN list' = DOMAIN list \cup {Len(list) + 1}
        /\ \A i \in DOMAIN list : list'[i] = list[i]
        /\ list'[Len(list) + 1] = m
    <2>1. /\ DOMAIN Append(list, m) = DOMAIN list \cup {Len(list) + 1}
          /\ Len(list) + 1 \notin DOMAIN list
          /\ \A i \in DOMAIN list : Append(list, m)[i] = list[i]
          /\ Append(list, m)[Len(list) + 1] = m
      BY Appended
    <2>2. QED BY <2>1
  <1>2. Queued' \subseteq Queued \cup {m.id}
    BY <1>1 DEF Queued
  <1>3. Queued \subseteq Queued' /\ m.id \in Queued'
    BY <1>1 DEF Queued
  <1>4. QED BY <1>2, <1>3

(* Likewise, when all the ids of the list differ.                          *)
LEMMA QueuedTaken ==
  ASSUME list \in Seq(Mini), list # <<>>, list' = Tail(list),
         \A i, j \in DOMAIN list : list[i].id = list[j].id => i = j
  PROVE  /\ Queued' = Queued \ {Head(list).id}
         /\ Head(list).id \in Queued
  <1>1. /\ 1 \in DOMAIN list /\ Head(list) = list[1]
        /\ \A i \in DOMAIN list' : i + 1 \in DOMAIN list /\ i + 1 # 1 /\ list'[i] = list[i + 1]
        /\ \A i \in DOMAIN list : i = 1 \/ (i - 1 \in DOMAIN list' /\ list'[i - 1] = list[i])
    BY HeadGone
  <1>2. Queued' \subseteq Queued \ {Head(list).id}
    BY <1>1 DEF Queued
  <1>3. ASSUME NEW i \in DOMAIN list, list[i].id # Head(list).id
        PROVE  list[i].id \in Queued'
    <2>1. i - 1 \in DOMAIN list' /\ list'[i - 1] = list[i]
      BY <1>1, <1>3
    <2>2. QED BY <2>1 DEF Queued
  <1>4. Head(list).id \in Queued
    BY <1>1 DEF Queued
  <1>5. Queued \ {Head(list).id} \subseteq Queued'
    BY <1>3 DEF Queued
  <1>6. QED BY <1>2, <1>4, <1>5

(* The fields of a mini urb through the operators on it.                   *)
LEMMA Fields ==
  /\ NoMini.id = 0 /\ NoMini.tb = "NULL"
  /\ \A i, n, d, b : NewMini(i, n, d, b).id = i /\ NewMini(i, n, d, b).tb = b
  /\ \A m \in Mini : \A n : Numbered(m, n).id = m.id /\ Numbered(m, n).tb = m.tb
  /\ \A m \in Mini : WithBuffer(m).id = m.id /\ WithBuffer(m).tb = "buffer"
  /\ \A m : Dump(m).id = m.id
  /\ \A d, b : InterruptMini(d, b).id = captured + 1 /\ InterruptMini(d, b).tb = b
  BY DEF NoMini, NewMini, Numbered, WithBuffer, Dump, Mini, InterruptMini

-----------------------------------------------------------------------------
(* The steps.                                                              *)

(* The initial state.                                                      *)
LEMMA HeapInit == Init => HeapInv
  BY Fields DEF Init, HeapInv, Owned, IdsKnown, OneOwner, Modes, NotLogged, Holds,
     WorkerHolds, Logged, ItemsReachable, BuffersLive, Queued, InWorker, HasItem

(* A step that moves none of the urbs nor what is allocated for them.      *)
LEMMA HeapElsewhere ==
  ASSUME HeapInv, panic' = panic,
         UNCHANGED <<list, pc, mini, async, wItem, liveItems, liveBufs, log, captured>>,
         \/ wpc' = wpc
         \/ ~ WorkerHolds /\ ~ WorkerHolds'
  PROVE  HeapInv'
  BY DEF HeapInv, Owned, IdsKnown, OneOwner, Modes, NotLogged, Holds,
     WorkerHolds, Logged, ItemsReachable, BuffersLive, Queued, InWorker, HasItem

(* A step of start-up, of the removal up to the clean-up loop, and a write *)
(* of the settings.                                                        *)
LEMMA HeapLife ==
  ASSUME IInv, HeapInv,
         \/ InstallDumper \/ HcFoundFails \/ RemoveDumper \/ RemoveJoin \/ RemoveProcFs
         \/ \E d \in DevNums : Enable(d) \/ Disable(d) \/ SetDeviceSettings(d)
         \/ UNCHANGED vars
  PROVE  HeapInv'
  <1> USE DEF vars, lifeVars, queueVars, workerVars, procVars, heapVars, Keeps, Yields, StopThread, WorkerHolds
  <1>1. CASE InstallDumper
    <2>1. list' = list
      BY <1>1 DEF InstallDumper, IInv, LifeInv
    <2>2. wpc = "none" /\ wpc' \in {"none", "wait"}
      BY <1>1 DEF InstallDumper, IInv, LifeInv
    <2>3. QED BY <1>1, <2>1, <2>2, HeapElsewhere DEF InstallDumper
  <1>2. CASE HcFoundFails \/ RemoveDumper \/ RemoveJoin \/ RemoveProcFs
    BY <1>2, HeapElsewhere DEF HcFoundFails, RemoveDumper, RemoveJoin, RemoveProcFs
  <1>3. CASE \E d \in DevNums : Enable(d) \/ Disable(d) \/ SetDeviceSettings(d)
    BY <1>3, HeapElsewhere DEF Enable, Disable, SetEnabled, SetDeviceSettings, SetSettings
  <1>4. CASE UNCHANGED vars
    BY <1>4, HeapElsewhere
  <1>5. QED BY <1>1, <1>2, <1>3, <1>4

(* A process that keeps or drops the urb it holds, and nothing else, leaves *)
(* the owners apart.                                                       *)
LEMMA ProcKeepsOwners ==
  ASSUME IInv, HeapInv, NEW p \in Procs,
         UNCHANGED <<list, wItem, wpc, log, captured>>,
         \A q \in Procs \ {p} : pc'[q] = pc[q] /\ mini'[q] = mini[q],
         Holds(p),
         ~ Holds(p)' \/ mini'[p].id = mini[p].id,
         pc[p] = "clean" => pc'[p] \in {"clean", "idle"}
  PROVE  IdsKnown' /\ OneOwner' /\ NotLogged'
  <1> USE DEF HeapInv, Owned, Holds, WorkerHolds, Logged
  <1>1. \A q \in Procs : Holds(q)' => Holds(q) /\ mini'[q].id = mini[q].id
    OBVIOUS
  <1>2. IdsKnown'
    BY <1>1 DEF IdsKnown
  <1>3. OneOwner'
    BY <1>1 DEF OneOwner
  <1>4. NotLogged'
    BY <1>1 DEF NotLogged
  <1>5. QED BY <1>2, <1>3, <1>4

(* A step of a process inside a submission.                                *)
LEMMA HeapProc ==
  ASSUME IInv, HeapInv, NEW p \in Procs, Proc(p)
  PROVE  HeapInv'
  <1> USE DEF HeapInv, Owned, Holds, WorkerHolds, Queued, InWorker, HasItem,
      vars, lifeVars, queueVars, workerVars, procVars, heapVars, Goto, Runs,
      Forget, KeepQueued, AfterInitMini
  <1>1. /\ pc \in [Procs -> {"idle", "alloc", "load", "store", "copy", "down",
                            "add", "signal", "process", "dump", "clean"}]
        /\ mini \in [Procs -> Mini] /\ async \in [Procs -> BOOLEAN]
        /\ list \in Seq(Mini) /\ log \in Seq(Entry)
        /\ liveItems \subseteq Nat /\ liveBufs \subseteq Nat
        /\ captured \in Nat
    BY NumberAssumption DEF IInv, TypeOK, PcType, LocalType, SeqType, HeapType, NumberType
  <1>3. \A q \in Procs \ {p} : /\ pc'[q] = pc[q] /\ mini'[q] = mini[q]
                             /\ async'[q] = async[q]
    BY <1>1 DEF Proc, QueueAlloc, NumberLoad, NumberStore, CopyTb, ListDown, ListAdd,
       Signal, ProcessMini, DumpUrbToPrintk, CleanMini
  <1>4. CASE QueueAlloc(p)
    <2>1. /\ UNCHANGED <<list, wItem, wpc, log, captured>>
          /\ pc[p] \notin {"idle", "signal"}
          /\ pc[p] = "clean" => pc'[p] \in {"clean", "idle"}
      BY <1>1, <1>4 DEF QueueAlloc
    <2>2. pc'[p] = "idle" \/ mini'[p].id = mini[p].id
      BY <1>1, <1>4, Fields DEF QueueAlloc
    <2>3. IdsKnown' /\ OneOwner' /\ NotLogged'
      BY <1>3, <2>1, <2>2, ProcKeepsOwners
    <2>4. Modes' BY <1>1, <1>4, Fields DEF Modes, QueueAlloc
    <2>5. ItemsReachable' BY <1>1, <1>4, Fields, SMTT(30) DEF ItemsReachable, OneOwner, Modes, QueueAlloc
    <2>6. BuffersLive' BY <1>1, <1>4, Fields DEF BuffersLive, OneOwner, Modes, IdsKnown, QueueAlloc
    <2>7. QED BY <2>3, <2>4, <2>5, <2>6
  <1>5. CASE NumberLoad(p)
    <2>1. /\ UNCHANGED <<list, wItem, wpc, log, captured>>
          /\ pc[p] \notin {"idle", "signal"}
          /\ pc[p] = "clean" => pc'[p] \in {"clean", "idle"}
      BY <1>1, <1>5 DEF NumberLoad
    <2>2. pc'[p] = "idle" \/ mini'[p].id = mini[p].id
      BY <1>1, <1>5, Fields DEF NumberLoad
    <2>3. IdsKnown' /\ OneOwner' /\ NotLogged'
      BY <1>3, <2>1, <2>2, ProcKeepsOwners
    <2>4. Modes' BY <1>1, <1>5, Fields DEF Modes, NumberLoad
    <2>5. ItemsReachable' BY <1>1, <1>5, Fields DEF ItemsReachable, OneOwner, Modes, NumberLoad
    <2>6. BuffersLive' BY <1>1, <1>5, Fields DEF BuffersLive, OneOwner, Modes, IdsKnown, NumberLoad
    <2>7. QED BY <2>3, <2>4, <2>5, <2>6
  <1>6. CASE NumberStore(p)
    <2>1. /\ UNCHANGED <<list, wItem, wpc, log, captured>>
          /\ pc[p] \notin {"idle", "signal"}
          /\ pc[p] = "clean" => pc'[p] \in {"clean", "idle"}
      BY <1>1, <1>6 DEF NumberStore
    <2>2. pc'[p] = "idle" \/ mini'[p].id = mini[p].id
      BY <1>1, <1>6, Fields DEF NumberStore
    <2>3. IdsKnown' /\ OneOwner' /\ NotLogged'
      BY <1>3, <2>1, <2>2, ProcKeepsOwners
    <2>4. Modes' BY <1>1, <1>6, Fields DEF Modes, NumberStore
    <2>5. ItemsReachable'
      <3>1. \A q \in Procs : HasItem(q)' <=> HasItem(q)
        BY <1>1, <1>3, <1>6 DEF NumberStore
      <3>2. UNCHANGED <<panic, mini, liveItems, list, wpc, wItem>>
        BY <1>6 DEF NumberStore
      <3>3. QED BY <3>1, <3>2 DEF ItemsReachable
    <2>6. BuffersLive' BY <1>1, <1>6, Fields DEF BuffersLive, OneOwner, Modes, IdsKnown, NumberStore
    <2>7. QED BY <2>3, <2>4, <2>5, <2>6
  <1>7. CASE CopyTb(p)
    <2> USE DEF CopyTb
    <2>1. CASE panic' = "memcpy to NULL" /\ UNCHANGED <<pc, mini, liveBufs>>
      <3>1. UNCHANGED <<list, wItem, wpc, log, captured, pc, mini, async, liveBufs>>
        BY <1>7, <2>1
      <3>2. IdsKnown' /\ OneOwner' /\ Modes' /\ NotLogged' /\ BuffersLive'
        BY <3>1 DEF IdsKnown, OneOwner, Modes, NotLogged, Logged, BuffersLive
      <3>3. QED BY <2>1, <3>2 DEF ItemsReachable
    <2>2. CASE /\ Goto(p, "copy", AfterInitMini(p))
               /\ mini' = [mini EXCEPT ![p] = WithBuffer(@)]
               /\ liveBufs' = liveBufs \cup {mini[p].id}
               /\ UNCHANGED panic
      <3>1. /\ UNCHANGED <<list, wItem, wpc, log, captured, async, liveItems>>
            /\ pc[p] = "copy"
            /\ pc'[p] = IF async[p] THEN "down" ELSE "process"
        BY <1>1, <1>7, <2>2
      <3>2. mini'[p].id = mini[p].id
        BY <1>1, <2>2, Fields
      <3>3. IdsKnown' /\ OneOwner' /\ NotLogged'
        BY <1>3, <3>1, <3>2, ProcKeepsOwners
      <3>4. Modes'
        BY <1>1, <1>3, <3>1 DEF Modes
      <3>5. ItemsReachable'
        <4>1. \A q \in Procs : /\ HasItem(q)' <=> HasItem(q)
                               /\ mini'[q].id = mini[q].id
          BY <1>1, <1>3, <3>1, <3>2
        <4>2. QED BY <2>2, <3>1, <4>1 DEF ItemsReachable
      <3>6. BuffersLive'
        BY <1>1, <1>3, <2>2, <3>1, <3>2 DEF BuffersLive
      <3>7. QED BY <3>3, <3>4, <3>5, <3>6
    <2>3. QED BY <1>7, <2>1, <2>2
  <1>8. CASE ListDown(p)
    <2>1. /\ UNCHANGED <<list, wItem, wpc, log, captured>>
          /\ pc[p] \notin {"idle", "signal"}
          /\ pc[p] = "clean" => pc'[p] \in {"clean", "idle"}
      BY <1>1, <1>8 DEF ListDown
    <2>2. pc'[p] = "idle" \/ mini'[p].id = mini[p].id
      BY <1>1, <1>8, Fields DEF ListDown
    <2>3. IdsKnown' /\ OneOwner' /\ NotLogged'
      BY <1>3, <2>1, <2>2, ProcKeepsOwners
    <2>4. Modes' BY <1>1, <1>8, Fields DEF Modes, ListDown
    <2>5. ItemsReachable' BY <1>1, <1>8, Fields DEF ItemsReachable, OneOwner, Modes, ListDown
    <2>6. BuffersLive' BY <1>1, <1>8, Fields DEF BuffersLive, OneOwner, Modes, IdsKnown, ListDown
    <2>7. QED BY <2>3, <2>4, <2>5, <2>6
  <1>9. CASE ProcessMini(p)
    <2>1. /\ UNCHANGED <<list, wItem, wpc, log, captured>>
          /\ pc[p] \notin {"idle", "signal"}
          /\ pc[p] = "clean" => pc'[p] \in {"clean", "idle"}
      BY <1>1, <1>9 DEF ProcessMini
    <2>2. pc'[p] = "idle" \/ mini'[p].id = mini[p].id
      BY <1>1, <1>9, Fields DEF ProcessMini
    <2>3. IdsKnown' /\ OneOwner' /\ NotLogged'
      BY <1>3, <2>1, <2>2, ProcKeepsOwners
    <2>4. Modes' BY <1>1, <1>9, Fields DEF Modes, ProcessMini
    <2>5. ItemsReachable' BY <1>1, <1>9, Fields DEF ItemsReachable, OneOwner, Modes, ProcessMini
    <2>6. BuffersLive' BY <1>1, <1>9, Fields DEF BuffersLive, OneOwner, Modes, IdsKnown, ProcessMini
    <2>7. QED BY <2>3, <2>4, <2>5, <2>6
  <1>10. CASE CleanMini(p)
    <2>1. /\ UNCHANGED <<list, wItem, wpc, log, captured>>
          /\ pc[p] \notin {"idle", "signal"}
          /\ pc[p] = "clean" => pc'[p] \in {"clean", "idle"}
      BY <1>1, <1>10 DEF CleanMini
    <2>2. pc'[p] = "idle" \/ mini'[p].id = mini[p].id
      BY <1>1, <1>10, Fields DEF CleanMini
    <2>3. IdsKnown' /\ OneOwner' /\ NotLogged'
      BY <1>3, <2>1, <2>2, ProcKeepsOwners
    <2>4. Modes' BY <1>1, <1>10, Fields DEF Modes, CleanMini
    <2>5. ItemsReachable' BY <1>1, <1>10, Fields DEF ItemsReachable, OneOwner, Modes, CleanMini
    <2>6. BuffersLive' BY <1>1, <1>10, Fields DEF BuffersLive, OneOwner, Modes, IdsKnown, CleanMini
    <2>7. QED BY <2>3, <2>4, <2>5, <2>6
  <1>11. CASE ListAdd(p)
    <2>1. IdsKnown' BY <1>1, <1>11, Fields, Appended DEF IdsKnown, ListAdd, QueuedTail
    <2>2. OneOwner' BY <1>1, <1>11, Fields, Appended DEF OneOwner, IdsKnown, ListAdd, QueuedTail
    <2>3. NotLogged' BY <1>1, <1>11, Fields, Appended, SMTT(30) DEF NotLogged, Logged, OneOwner, IdsKnown, ListAdd, QueuedTail
    <2>4. Modes' BY <1>1, <1>11, Fields, Appended DEF Modes, ListAdd, QueuedTail
    <2>5. ItemsReachable'
      <3>1. \A q \in Procs : HasItem(q)' <=> HasItem(q) /\ q # p
        BY <1>1, <1>3, <1>11 DEF ListAdd
      <3>2. HasItem(p)
        BY <1>1, <1>11 DEF ListAdd, Modes
      <3>3. Queued' = Queued \cup {mini[p].id}
        BY <1>1, <1>11, QueuedAppended DEF ListAdd, QueuedTail
      <3>4. UNCHANGED <<panic, mini, liveItems, wpc, wItem>>
        BY <1>11 DEF ListAdd
      <3>5. QED BY <3>1, <3>2, <3>3, <3>4 DEF ItemsReachable
    <2>6. BuffersLive' BY <1>1, <1>11, Fields, Appended DEF BuffersLive, OneOwner, Modes, IdsKnown, ListAdd, QueuedTail
    <2>7. QED BY <2>1, <2>2, <2>3, <2>4, <2>5, <2>6
  <1>12. CASE Signal(p)
    <2>1. IdsKnown' BY <1>1, <1>12, Fields DEF IdsKnown, Signal
    <2>2. OneOwner' BY <1>1, <1>12, Fields DEF OneOwner, IdsKnown, Signal
    <2>3. NotLogged' BY <1>1, <1>12, Fields DEF NotLogged, Logged, OneOwner, IdsKnown, Signal
    <2>4. Modes' BY <1>1, <1>12, Fields DEF Modes, Signal
    <2>5. ItemsReachable' BY <1>1, <1>12, Fields DEF ItemsReachable, OneOwner, Modes, Signal
    <2>6. BuffersLive' BY <1>1, <1>12, Fields DEF BuffersLive, OneOwner, Modes, IdsKnown, Signal
    <2>7. QED BY <2>1, <2>2, <2>3, <2>4, <2>5, <2>6
  <1>13. CASE DumpUrbToPrintk(p)
    <2> USE DEF DumpUrbToPrintk
    <2>1. /\ UNCHANGED <<panic, list, wItem, wpc, captured, mini, async, liveItems, liveBufs>>
          /\ pc[p] = "dump" /\ pc'[p] = "clean"
      BY <1>1, <1>13
    <2>2. \A q \in Procs : Holds(q)' <=> Holds(q)
      BY <1>3, <2>1
    <2>3. \A n : Logged(n)' => Logged(n) \/ n = mini[p].id
      <3>1. CASE log' = log
        BY <3>1 DEF Logged
      <3>2. CASE log' = Append(log, Dump(mini[p]))
        BY <1>1, <3>2, Appended, Fields DEF Logged
      <3>3. QED BY <1>13, <3>1, <3>2
    <2>4. IdsKnown'
      <3>1. ASSUME NEW n, Logged(n)' PROVE n \in 1 .. captured
        BY <1>13, <2>3, <2>1, <3>1 DEF Logged, IdsKnown
      <3>2. QED BY <2>1, <2>2, <3>1 DEF IdsKnown, Logged
    <2>5. OneOwner'
      BY <2>1, <2>2 DEF OneOwner
    <2>6. Modes' /\ BuffersLive'
      BY <1>3, <2>1 DEF Modes, BuffersLive
    <2>7. NotLogged'
      BY <1>3, <2>1, <2>2, <2>3 DEF NotLogged, OneOwner
    <2>8. ItemsReachable'
      <3>1. \A q \in Procs : HasItem(q)' <=> HasItem(q)
        BY <1>3, <2>1
      <3>2. QED BY <2>1, <3>1 DEF ItemsReachable
    <2>9. QED BY <2>4, <2>5, <2>6, <2>7, <2>8
  <1>14. QED BY <1>4, <1>5, <1>6, <1>7, <1>8, <1>9, <1>10, <1>11, <1>12, <1>13 DEF Proc

(* A process begins a submission: its urb is a new one.                    *)
LEMMA HeapSubmit ==
  ASSUME IInv, HeapInv, NEW p \in Procs, NEW d \in DevNums, OnSubmit(p, d)
  PROVE  HeapInv'
  <1> USE DEF HeapInv, Owned, Holds, WorkerHolds, Queued, InWorker, HasItem,
      lifeVars, queueVars, workerVars, procVars, heapVars, Goto, OnSubmit
  <1>1. /\ pc \in [Procs -> {"idle", "alloc", "load", "store", "copy", "down",
                            "add", "signal", "process", "dump", "clean"}]
        /\ mini \in [Procs -> Mini] /\ async \in [Procs -> BOOLEAN]
        /\ captured \in Nat
    BY NumberAssumption DEF IInv, TypeOK, PcType, LocalType, NumberType
  <1>2. /\ \A q \in Procs \ {p} : /\ pc'[q] = pc[q] /\ mini'[q] = mini[q]
                               /\ async'[q] = async[q]
        /\ pc[p] = "idle"
        /\ pc'[p] = IF aDevSettings[d].oAsync THEN "alloc" ELSE "load"
        /\ mini'[p].id = captured + 1 /\ mini'[p].tb = "NULL"
        /\ async'[p] = aDevSettings[d].oAsync
        /\ UNCHANGED <<panic, list, wpc, wItem, liveItems, liveBufs, log>>
        /\ captured' = captured + 1
    BY <1>1, Fields
  <1>3. captured + 1 \notin 1 .. captured /\ 1 .. captured \subseteq 1 .. captured'
        /\ captured + 1 \in 1 .. captured'
    BY <1>1, <1>2
  <1> HIDE DEF OnSubmit
  <1>4. IdsKnown'
    BY <1>2, <1>3 DEF IdsKnown
  <1>5. OneOwner'
    BY <1>2, <1>3 DEF OneOwner, IdsKnown
  <1>6. Modes'
    BY <1>2 DEF Modes
  <1>7. NotLogged'
    BY <1>2, <1>3 DEF NotLogged, Logged, IdsKnown
  <1>8. ItemsReachable'
    <2>1. \A q \in Procs : HasItem(q)' <=> HasItem(q)
      BY <1>2
    <2>2. \A q \in Procs : HasItem(q) => mini'[q] = mini[q]
      BY <1>2
    <2>3. {mini[q].id : q \in {r \in Procs : HasItem(r)}}' = {mini[q].id : q \in {r \in Procs : HasItem(r)}}
      BY <2>1, <2>2
    <2>4. QED BY <1>2, <2>3 DEF ItemsReachable
  <1>9. BuffersLive'
    BY <1>2 DEF BuffersLive
  <1>10. QED BY <1>4, <1>5, <1>6, <1>7, <1>8, <1>9

(* The interrupt handler captures an urb.                                  *)
LEMMA HeapInterrupt ==
  ASSUME IInv, HeapInv, NEW d \in DevNums,
         InterruptNoBuf(d) \/ InterruptProcess(d)
         \/ \E tb \in Pointer : InterruptQueue(d, tb)
  PROVE  HeapInv'
  <1> USE DEF HeapInv, Owned, Holds, WorkerHolds, InWorker, HasItem
  <1>1. captured \in Nat /\ list \in Seq(Mini) /\ log \in Seq(Entry)
    BY NumberAssumption DEF IInv, TypeOK, NumberType, SeqType
  <1>2. /\ UNCHANGED <<pc, mini, async, wpc, wItem>>
        /\ captured' = captured + 1
    BY DEF InterruptNoBuf, InterruptQueue, InterruptProcess, Interrupt, workerVars, procVars
  <1>3. /\ captured + 1 \notin 1 .. captured
        /\ captured + 1 \in 1 .. captured'
        /\ \A n \in 1 .. captured : n \in 1 .. captured'
    BY <1>1, <1>2
  <1>4. ASSUME UNCHANGED log
        PROVE  \A n : Logged(n)' <=> Logged(n)
    BY <1>4 DEF Logged
  <1>5. CASE InterruptNoBuf(d)
    <2>1. UNCHANGED <<list, log, liveBufs>> /\ panic' # "none"
      BY <1>5 DEF InterruptNoBuf
    <2>2. IdsKnown' /\ OneOwner' /\ Modes' /\ NotLogged' /\ BuffersLive'
      BY <1>2, <1>3, <1>4, <2>1 DEF IdsKnown, OneOwner, Modes, NotLogged, BuffersLive
    <2>3. QED BY <2>1, <2>2 DEF ItemsReachable
  <1>6. CASE InterruptProcess(d)
    <2>1. /\ UNCHANGED <<panic, list, liveItems, liveBufs>>
          /\ log' \in {log, Append(log, Dump(InterruptMini(d, "NULL")))}
      BY <1>6 DEF InterruptProcess, heapVars
    <2>2. \A n : Logged(n)' => Logged(n) \/ n = captured + 1
      <3>1. CASE log' = log
        BY <3>1 DEF Logged
      <3>2. CASE log' = Append(log, Dump(InterruptMini(d, "NULL")))
        BY <1>1, <3>2, Appended, Fields DEF Logged
      <3>3. QED BY <2>1, <3>1, <3>2
    <2>3. IdsKnown'
      <3>1. ASSUME NEW n, Logged(n)' PROVE n \in 1 .. captured'
        BY <1>3, <2>2, <3>1 DEF Logged, IdsKnown
      <3>2. QED BY <1>2, <1>3, <2>1, <3>1 DEF IdsKnown, Logged
    <2>4. OneOwner' /\ Modes' /\ BuffersLive'
      BY <1>2, <2>1 DEF OneOwner, Modes, BuffersLive
    <2>5. NotLogged'
      BY <1>2, <1>3, <2>1, <2>2 DEF NotLogged, IdsKnown
    <2>6. ItemsReachable'
      BY <1>2, <2>1 DEF ItemsReachable, Queued
    <2>7. QED BY <2>3, <2>4, <2>5, <2>6
  <1>7. ASSUME NEW tb \in Pointer, InterruptQueue(d, tb) PROVE HeapInv'
    <2>1. /\ UNCHANGED log
          /\ liveItems' = liveItems \cup {captured + 1}
          /\ liveBufs' = IF tb = "buffer" THEN liveBufs \cup {captured + 1} ELSE liveBufs
      BY <1>7 DEF InterruptQueue
    <2>2. CASE list' = Append(list, InterruptMini(d, tb)) /\ panic' = panic
      <3> DEFINE m == InterruptMini(d, tb)
      <3>1. m.id = captured + 1 /\ m.tb = tb
        BY Fields
      <3>2. /\ DOMAIN list' = DOMAIN list \cup {Len(list) + 1}
            /\ Len(list) + 1 \notin DOMAIN list
            /\ \A i \in DOMAIN list : list'[i] = list[i]
            /\ list'[Len(list) + 1] = m
        BY <1>1, <2>2, Appended
      <3>3. Queued' = Queued \cup {captured + 1}
        BY <1>1, <2>2, <3>1, QueuedAppended
      <3> HIDE DEF m
      <3>4. IdsKnown'
        BY <1>2, <1>3, <2>1, <3>1, <3>2 DEF IdsKnown
      <3>5. OneOwner'
        BY <1>2, <1>3, <3>1, <3>2 DEF OneOwner, IdsKnown
      <3>6. NotLogged'
        BY <1>2, <1>3, <1>4, <2>1, <3>1, <3>2 DEF NotLogged, IdsKnown, Logged
      <3>7. Modes' /\ BuffersLive'
        BY <1>2, <2>1, <3>1, <3>2 DEF Modes, BuffersLive
      <3>8. ItemsReachable'
        BY <1>2, <2>1, <2>2, <3>3 DEF ItemsReachable
      <3>9. QED BY <3>4, <3>5, <3>6, <3>7, <3>8
    <2>3. CASE UNCHANGED list /\ panic' # "none"
      <3>1. IdsKnown' /\ OneOwner' /\ Modes' /\ NotLogged' /\ BuffersLive'
        BY <1>2, <1>3, <1>4, <2>1, <2>3 DEF IdsKnown, OneOwner, Modes, NotLogged, BuffersLive
      <3>2. QED BY <2>3, <3>1 DEF ItemsReachable
    <2>4. QED BY <1>7, <2>2, <2>3 DEF InterruptQueue, QueuedTail
  <1>8. QED BY <1>5, <1>6, <1>7

(* A step of the worker.                                                   *)
LEMMA HeapWorker ==
  ASSUME IInv, HeapInv, WorkerThread
  PROVE  HeapInv'
  <1> USE DEF HeapInv, Owned, Holds, WorkerHolds, InWorker, HasItem, WGoto
  <1>1. /\ list \in Seq(Mini) /\ log \in Seq(Entry) /\ wItem \in Mini
        /\ liveItems \subseteq Nat /\ liveBufs \subseteq Nat
    BY DEF IInv, TypeOK, SeqType, WorkerType, HeapType
  <1>2. UNCHANGED <<pc, mini, async, captured>> /\ panic' = panic /\ panic = "none"
    BY DEF WorkerThread, WorkerDown, WorkerSleep, WorkerCheck, WorkerListDown, WorkerTake,
       WorkerProcessMini, WorkerDump, WorkerClean, WorkerExit, Runs, procVars, lifeVars
  <1>3. CASE WorkerDown \/ WorkerSleep \/ WorkerCheck \/ WorkerListDown \/ WorkerExit
    <2>1. /\ UNCHANGED <<list, wItem, liveItems, liveBufs, log>>
          /\ wpc' = wpc \/ (~ WorkerHolds /\ ~ WorkerHolds')
      BY <1>3 DEF WorkerDown, WorkerSleep, WorkerCheck, WorkerListDown, WorkerExit,
         workerVars, heapVars, queueVars
    <2>2. QED BY <1>2, <2>1, HeapElsewhere
  <1>4. CASE WorkerTake
    <2>1. /\ wpc = "locked" /\ UNCHANGED <<liveItems, liveBufs, log>>
          /\ wpc' = IF list = <<>> THEN "wait" ELSE "process"
          /\ IF list = <<>> THEN UNCHANGED <<wItem, list>>
                            ELSE wItem' = Head(list) /\ list' = Tail(list)
      BY <1>4 DEF WorkerTake, heapVars
    <2>2. CASE list = <<>>
      BY <1>2, <2>1, <2>2, HeapElsewhere
    <2>3. CASE list # <<>>
      <3>1. /\ 1 \in DOMAIN list /\ wItem' = list[1]
            /\ \A i \in DOMAIN list' : i + 1 \in DOMAIN list /\ i + 1 # 1 /\ list'[i] = list[i + 1]
            /\ \A i \in DOMAIN list' : i \in Int
        BY <1>1, <2>1, <2>3, HeadGone
      <3>2. /\ Queued' = Queued \ {wItem'.id} /\ wItem'.id \in Queued
        BY <1>1, <2>1, <2>3, QueuedTaken DEF OneOwner
      <3>3. wpc' = "process"
        BY <2>1, <2>3
      <3>4. IdsKnown'
        BY <1>2, <2>1, <3>1 DEF IdsKnown
      <3>5. OneOwner'
        BY <1>2, <2>1, <3>1 DEF OneOwner
      <3>6. NotLogged'
        BY <1>2, <2>1, <3>1 DEF NotLogged, Logged
      <3>7. Modes' /\ BuffersLive'
        BY <1>2, <2>1, <3>1, <3>3 DEF Modes, BuffersLive
      <3>8. ItemsReachable'
        BY <1>2, <2>1, <3>2, <3>3 DEF ItemsReachable
      <3>9. QED BY <3>4, <3>5, <3>6, <3>7, <3>8
    <2>4. QED BY <2>2, <2>3
  <1>5. CASE WorkerProcessMini
    <2>1. /\ UNCHANGED <<list, wItem, liveItems, liveBufs, log>>
          /\ wpc = "process" /\ wpc' \in {"dump", "clean"}
      BY <1>5 DEF WorkerProcessMini, heapVars, queueVars
    <2>2. QED
      BY <1>2, <2>1 DEF IdsKnown, OneOwner, Modes, NotLogged, Logged, ItemsReachable, BuffersLive, Queued
  <1>6. CASE WorkerDump
    <2>1. /\ UNCHANGED <<list, wItem, liveItems, liveBufs>>
          /\ wpc = "dump" /\ wpc' = "clean"
          /\ log' \in {log, Append(log, Dump(wItem))}
      BY <1>6 DEF WorkerDump, heapVars, queueVars
    <2>2. \A n : Logged(n)' => Logged(n) \/ n = wItem.id
      <3>1. CASE log' = log
        BY <3>1 DEF Logged
      <3>2. CASE log' = Append(log, Dump(wItem))
        BY <1>1, <3>2, Appended, Fields DEF Logged
      <3>3. QED BY <2>1, <3>1, <3>2
    <2>3. IdsKnown'
      <3>1. ASSUME NEW n, Logged(n)' PROVE n \in 1 .. captured
        BY <2>1, <2>2, <3>1 DEF Logged, IdsKnown
      <3>2. QED BY <1>2, <2>1, <3>1 DEF IdsKnown, Logged
    <2>4. OneOwner' /\ Modes' /\ BuffersLive'
      BY <1>2, <2>1 DEF OneOwner, Modes, BuffersLive
    <2>5. NotLogged'
      BY <1>2, <2>1, <2>2 DEF NotLogged, OneOwner
    <2>6. ItemsReachable'
      BY <1>2, <2>1 DEF ItemsReachable, Queued
    <2>7. QED BY <2>3, <2>4, <2>5, <2>6
  <1>7. CASE WorkerClean
    <2>1. /\ UNCHANGED <<list, log>> /\ wItem' = NoMini
          /\ wpc = "clean" /\ wpc' = "wait"
          /\ liveItems' = liveItems \ {wItem.id} /\ liveBufs' = liveBufs \ {wItem.id}
      BY <1>7 DEF WorkerClean, FreeItem, queueVars
    <2>2. IdsKnown' /\ OneOwner' /\ Modes' /\ NotLogged'
      BY <1>2, <2>1 DEF IdsKnown, OneOwner, Modes, NotLogged, Logged
    <2>3. ItemsReachable'
      <3>1. wItem.id \notin Queued
        BY <2>1 DEF OneOwner, Queued
      <3>2. wItem.id \notin {mini[p].id : p \in {q \in Procs : HasItem(q)}}
        BY <2>1 DEF OneOwner
      <3>3. QED BY <1>2, <2>1, <3>1, <3>2 DEF ItemsReachable, Queued
    <2>4. BuffersLive'
      BY <1>1, <1>2, <2>1, Fields DEF BuffersLive, OneOwner, Modes
    <2>5. QED BY <2>2, <2>3, <2>4
  <1>8. QED BY <1>3, <1>4, <1>5, <1>6, <1>7 DEF WorkerThread

(* A round of the clean-up loop frees the item, and not what it owns.      *)
LEMMA HeapDrain ==
  ASSUME IInv, HeapInv, RemoveDrain
  PROVE  HeapInv'
  <1> USE DEF HeapInv, Owned, Holds, WorkerHolds, InWorker, HasItem
  <1>1. /\ list \in Seq(Mini) /\ list # <<>> /\ list' = Tail(list)
        /\ liveItems' = liveItems \ {Head(list).id}
        /\ wpc = "gone"
        /\ UNCHANGED <<pc, mini, async, wpc, wItem, panic, liveBufs, log, captured>>
    BY DEF RemoveDrain, IInv, TypeOK, SeqType, LifeInv, workerVars, procVars
  <1>2. /\ 1 \in DOMAIN list /\ Head(list) = list[1]
        /\ \A i \in DOMAIN list' : i + 1 \in DOMAIN list /\ i + 1 # 1 /\ list'[i] = list[i + 1]
        /\ \A i \in DOMAIN list' : i \in Int
    BY <1>1, HeadGone
  <1>3. Queued' = Queued \ {Head(list).id}
    BY <1>1, QueuedTaken DEF OneOwner
  <1>4. IdsKnown'
    BY <1>1, <1>2 DEF IdsKnown
  <1>5. OneOwner'
    BY <1>1, <1>2 DEF OneOwner
  <1>6. NotLogged'
    BY <1>1, <1>2 DEF NotLogged, Logged
  <1>7. Modes' /\ BuffersLive'
    BY <1>1, <1>2 DEF Modes, BuffersLive
  <1>8. ItemsReachable'
    <2>1. Head(list).id \notin {mini[p].id : p \in {q \in Procs : HasItem(q)}}
      BY <1>1, <1>2 DEF OneOwner
    <2>2. QED BY <1>1, <1>3, <2>1 DEF ItemsReachable
  <1>9. QED BY <1>4, <1>5, <1>6, <1>7, <1>8

(* The owners and the allocations go together in every reachable state.    *)
THEOREM HeapInvariance == Spec => []HeapInv
  <1>1. IInv /\ HeapInv /\ [Next]_vars => HeapInv'
    BY HeapLife, HeapProc, HeapSubmit, HeapInterrupt, HeapWorker, HeapDrain DEF Next, Remover
  <1>2. QED
    BY HeapInit, <1>1, Invariance, PTL DEF Spec

-----------------------------------------------------------------------------
(* What follows from it.                                                   *)

(* A TWorkItem is allocated exactly while somebody can reach it: none is   *)
(* leaked by a submission, the worker or the clean-up loop, and none is    *)
(* reached after its kfree.                                                *)
THEOREM NoItemLeaked == Spec => []ItemsReachable
  BY HeapInvariance, PTL DEF HeapInv

(* A mini urb that still has its transfer_buffer has an allocated one.     *)
THEOREM NoBufferUsedFreed == Spec => []BuffersLive
  BY HeapInvariance, PTL DEF HeapInv

-----------------------------------------------------------------------------
(* The dumper implements DumpFifo.                                         *)

(* What DumpFifo sees of a list of mini urbs or of log entries.            *)
Ids(s) == [i \in DOMAIN s |-> s[i].id]
Hand == IF wpc \in {"process", "dump"} THEN wItem.id ELSE 0

(* The ids of a sequence go along with its Append, Head and Tail.          *)
LEMMA IdsOfSequence ==
  ASSUME NEW S, \A x \in S : x.id \in Nat, NEW s \in Seq(S)
  PROVE  /\ Ids(s) \in Seq(Nat)
         /\ \A x \in S : Ids(Append(s, x)) = Append(Ids(s), x.id)
         /\ s # <<>> => /\ Ids(s) # <<>>
                        /\ Head(Ids(s)) = Head(s).id
                        /\ Ids(Tail(s)) = Tail(Ids(s))
         /\ {Ids(s)[i] : i \in DOMAIN Ids(s)} = {s[i].id : i \in DOMAIN s}
  <1>1. \A t \in Seq(S) : /\ Ids(t) \in Seq(Nat) /\ Len(Ids(t)) = Len(t)
                         /\ \A i \in 1 .. Len(t) : Ids(t)[i] = t[i].id
    <2> TAKE t \in Seq(S)
    <2>1. DOMAIN t = 1 .. Len(t) /\ Len(t) \in Nat /\ \A i \in 1 .. Len(t) : t[i] \in S
      OBVIOUS
    <2>2. Ids(t) \in [1 .. Len(t) -> Nat]
      BY <2>1 DEF Ids
    <2>3. Ids(t) \in Seq(Nat) /\ Len(Ids(t)) = Len(t)
      BY <2>1, <2>2
    <2>4. QED BY <2>1, <2>3 DEF Ids
  <1>2. ASSUME NEW x \in S
        PROVE  Ids(Append(s, x)) = Append(Ids(s), x.id)
    <2>1. /\ Append(s, x) \in Seq(S) /\ Len(Append(s, x)) = Len(s) + 1
          /\ \A i \in 1 .. Len(s) : Append(s, x)[i] = s[i]
          /\ Append(s, x)[Len(s) + 1] = x
      BY AppendProperties
    <2>2. /\ Append(Ids(s), x.id) \in Seq(Nat) /\ Len(Append(Ids(s), x.id)) = Len(s) + 1
          /\ \A i \in 1 .. Len(s) : Append(Ids(s), x.id)[i] = s[i].id
          /\ Append(Ids(s), x.id)[Len(s) + 1] = x.id
      BY <1>1, AppendProperties
    <2>3. /\ Ids(Append(s, x)) \in Seq(Nat) /\ Len(Ids(Append(s, x))) = Len(s) + 1
          /\ \A i \in 1 .. Len(s) + 1 : Ids(Append(s, x))[i] = Append(s, x)[i].id
      BY <1>1, <2>1
    <2>4. \A i \in 1 .. Len(s) + 1 : Ids(Append(s, x))[i] = Append(Ids(s), x.id)[i]
      BY <2>1, <2>2, <2>3, SMTT(30)
    <2>5. QED BY <2>2, <2>3, <2>4, SeqEqual
  <1>3. ASSUME s # <<>>
        PROVE  /\ Ids(s) # <<>>
               /\ Head(Ids(s)) = Head(s).id
               /\ Ids(Tail(s)) = Tail(Ids(s))
    <2>1. Len(s) # 0 /\ Head(s) = s[1] /\ Len(s) \in Nat
      BY <1>3
    <2>2. Ids(s) # <<>> /\ Head(Ids(s)) = Ids(s)[1]
      BY <1>1, <2>1
    <2>3. Head(Ids(s)) = Head(s).id
      BY <1>1, <2>1, <2>2
    <2>4. /\ Tail(s) \in Seq(S) /\ Len(Tail(s)) = Len(s) - 1
          /\ \A i \in 1 .. Len(Tail(s)) : Tail(s)[i] = s[i + 1]
      BY <1>3, HeadTailProperties
    <2>5. /\ Tail(Ids(s)) \in Seq(Nat) /\ Len(Tail(Ids(s))) = Len(s) - 1
          /\ \A i \in 1 .. Len(s) - 1 : Tail(Ids(s))[i] = s[i + 1].id
      BY <1>1, <2>1, <2>2, HeadTailProperties
    <2>6. /\ Ids(Tail(s)) \in Seq(Nat) /\ Len(Ids(Tail(s))) = Len(s) - 1
          /\ \A i \in 1 .. Len(s) - 1 : Ids(Tail(s))[i] = s[i + 1].id
      BY <1>1, <2>4, ZenonT(30)
    <2>7. Ids(Tail(s)) = Tail(Ids(s))
      BY <2>5, <2>6, SeqEqual
    <2>8. QED BY <2>2, <2>3, <2>7
  <1>4. {Ids(s)[i] : i \in DOMAIN Ids(s)} = {s[i].id : i \in DOMAIN s}
    BY DEF Ids
  <1>5. QED BY <1>1, <1>2, <1>3, <1>4

(* What appending an item to the list, or an entry to the log, does to ids. *)
LEMMA IdsAppend ==
  /\ \A s \in Seq(Mini), m \in Mini : Ids(Append(s, m)) = Append(Ids(s), m.id)
  /\ \A s \in Seq(Entry), e \in Entry : Ids(Append(s, e)) = Append(Ids(s), e.id)
  <1>1. \A x \in Mini \cup Entry : x.id \in Nat
    BY DEF Mini, Entry
  <1>2. ASSUME NEW s \in Seq(Mini), NEW m \in Mini
        PROVE  Ids(Append(s, m)) = Append(Ids(s), m.id)
    <2>1. \A x \in Mini : x.id \in Nat
      BY <1>1
    <2>2. QED BY <2>1, IdsOfSequence
  <1>3. ASSUME NEW s \in Seq(Entry), NEW e \in Entry
        PROVE  Ids(Append(s, e)) = Append(Ids(s), e.id)
    <2>1. \A x \in Entry : x.id \in Nat
      BY <1>1
    <2>2. QED BY <2>1, IdsOfSequence
  <1>4. QED BY <1>2, <1>3

(* The mapping in the names used here.                                     *)
LEMMA FifoNames ==
  /\ Fifo!vars = <<Ids(list), Hand, Ids(log)>>
  /\ Fifo!Init <=> Ids(list) = <<>> /\ Hand = 0 /\ Ids(log) = <<>>
  /\ Fifo!Put <=> \E x \in 1 .. MaxUrbs : /\ Fifo!Fresh(x)
                                          /\ Ids(list)' = Append(Ids(list), x)
                                          /\ UNCHANGED <<Hand, Ids(log)>>
  /\ Fifo!Take <=> /\ Hand = 0 /\ Ids(list) # <<>>
                   /\ Hand' = Head(Ids(list)) /\ Ids(list)' = Tail(Ids(list))
                   /\ UNCHANGED Ids(log)
  /\ Fifo!Output <=> /\ Hand # 0 /\ Ids(log)' = Append(Ids(log), Hand)
                     /\ Hand' = 0 /\ UNCHANGED Ids(list)
  /\ Fifo!Drop <=> Hand # 0 /\ Hand' = 0 /\ UNCHANGED <<Ids(list), Ids(log)>>
  /\ Fifo!Direct <=> \E x \in 1 .. MaxUrbs : /\ Fifo!Fresh(x)
                                             /\ Ids(log)' = Append(Ids(log), x)
                                             /\ UNCHANGED <<Ids(list), Hand>>
  /\ Fifo!Discard <=> /\ Hand = 0 /\ Ids(list) # <<>>
                      /\ Ids(list)' = Tail(Ids(list))
                      /\ UNCHANGED <<Hand, Ids(log)>>
  BY DEF Fifo!vars, Fifo!Init, Fifo!Put, Fifo!Take, Fifo!Output, Fifo!Drop, Fifo!Direct,
     Fifo!Discard, Ids, Hand
(* An urb is fresh to DumpFifo when it is neither on the list, nor in the  *)
(* worker's hand, nor in the log.                                          *)
LEMMA FreshMeans ==
  ASSUME IInv, NEW x, x # Hand, ~ Logged(x), \A i \in DOMAIN list : list[i].id # x
  PROVE  Fifo!Fresh(x)
  BY DEF Fifo!Fresh, Fifo!Elements, Logged, Hand

(* A step that moves no urb is a stutter.                                  *)
LEMMA FifoStutter ==
  ASSUME UNCHANGED <<list, wItem, log>>,
         wpc' = wpc \/ (wpc \notin {"process", "dump"} /\ wpc' \notin {"process", "dump"})
                    \/ (wpc \in {"process", "dump"} /\ wpc' \in {"process", "dump"})
  PROVE  UNCHANGED Fifo!vars
  BY DEF Fifo!vars

(* A process that adds an urb to the list puts it into the fifo, one that  *)
(* dumps its urb outputs it directly.                                      *)
LEMMA FifoProc ==
  ASSUME IInv, HeapInv, NEW p \in Procs,
         Proc(p) \/ \E d \in DevNums : OnSubmit(p, d)
  PROVE  Fifo!Next \/ UNCHANGED Fifo!vars
  <1> USE DEF lifeVars, queueVars, workerVars, procVars, heapVars
  <1>1. list \in Seq(Mini) /\ log \in Seq(Entry) /\ mini[p] \in Mini /\ captured \in 0 .. MaxUrbs
    BY DEF IInv, TypeOK, SeqType, LocalType, NumberType
  <1>2. /\ \A m \in Mini : m.id \in Nat /\ Dump(m) \in Entry /\ Dump(m).id = m.id
        /\ \A e \in Entry : e.id \in Nat
    BY MiniFacts, Fields DEF Entry
  <1>3. ASSUME Holds(p), pc[p] # "clean"
        PROVE  mini[p].id \in 1 .. MaxUrbs /\ Fifo!Fresh(mini[p].id)
    <2>1. mini[p].id \in 1 .. captured
      BY <1>3 DEF HeapInv, Owned, IdsKnown
    <2>2. mini[p].id \in 1 .. MaxUrbs /\ mini[p].id # 0
      BY <1>1, <2>1, NumberAssumption
    <2>3. mini[p].id # Hand
      BY <1>3, <2>2 DEF HeapInv, Owned, OneOwner, WorkerHolds, Hand
    <2>4. ~ Logged(mini[p].id) /\ \A i \in DOMAIN list : list[i].id # mini[p].id
      BY <1>3 DEF HeapInv, Owned, OneOwner, NotLogged
    <2>5. QED BY <2>2, <2>3, <2>4, FreshMeans
  <1>4. CASE ListAdd(p)
    <2>1. list' = Append(list, mini[p]) /\ UNCHANGED <<wItem, wpc, log>> /\ pc[p] = "add"
      BY <1>4 DEF ListAdd, QueuedTail, Goto
    <2>2. Ids(list)' = Append(Ids(list), mini[p].id)
      BY <1>1, <2>1, IdsAppend
    <2>3. Fifo!Put
      BY <1>3, <2>1, <2>2, FifoNames DEF Holds, Hand, Ids
    <2>4. QED BY <2>3 DEF Fifo!Next
  <1>5. CASE DumpUrbToPrintk(p)
    <2>1. /\ log' \in {log, Append(log, Dump(mini[p]))} /\ UNCHANGED <<wItem, wpc, list>>
          /\ pc[p] = "dump"
      BY <1>5 DEF DumpUrbToPrintk, Goto
    <2>2. CASE log' = log
      BY <2>1, <2>2, FifoStutter
    <2>3. CASE log' = Append(log, Dump(mini[p]))
      <3>1. Ids(log)' = Append(Ids(log), mini[p].id)
        <4>1. Dump(mini[p]) \in Entry /\ Dump(mini[p]).id = mini[p].id
          BY <1>1, <1>2
        <4>2. Ids(Append(log, Dump(mini[p]))) = Append(Ids(log), Dump(mini[p]).id)
          BY <1>1, <4>1, IdsAppend
        <4>3. QED BY <2>3, <4>1, <4>2
      <3>2. Fifo!Direct
        BY <1>3, <2>1, <3>1, FifoNames DEF Holds, Hand, Ids
      <3>3. QED BY <3>2 DEF Fifo!Next
    <2>4. QED BY <2>1, <2>2, <2>3
  <1>6. CASE \/ QueueAlloc(p) \/ NumberLoad(p) \/ NumberStore(p) \/ CopyTb(p) \/ ListDown(p)
             \/ Signal(p) \/ ProcessMini(p) \/ CleanMini(p) \/ \E d \in DevNums : OnSubmit(p, d)
    <2>1. UNCHANGED <<list, wItem, wpc, log>>
      BY <1>6 DEF QueueAlloc, NumberLoad, NumberStore, CopyTb, ListDown, Signal, ProcessMini,
         CleanMini, OnSubmit
    <2>2. QED BY <2>1, FifoStutter
  <1>7. QED BY <1>4, <1>5, <1>6 DEF Proc

(* The interrupt handler puts a new urb into the fifo or outputs it.       *)
LEMMA FifoInterrupt ==
  ASSUME IInv, HeapInv, NEW d \in DevNums,
         InterruptNoBuf(d) \/ InterruptProcess(d)
         \/ \E tb \in Pointer : InterruptQueue(d, tb)
  PROVE  Fifo!Next \/ UNCHANGED Fifo!vars
  <1>1. /\ list \in Seq(Mini) /\ log \in Seq(Entry)
        /\ UNCHANGED <<wpc, wItem>> /\ captured + 1 \in 1 .. MaxUrbs
    <2>1. list \in Seq(Mini) /\ log \in Seq(Entry) /\ captured \in 0 .. MaxUrbs
      BY DEF IInv, TypeOK, SeqType, NumberType
    <2>2. Interrupt(d)
      BY DEF InterruptNoBuf, InterruptQueue, InterruptProcess
    <2>3. captured < MaxUrbs /\ UNCHANGED <<wpc, wItem>>
      BY <2>2 DEF Interrupt, workerVars
    <2>4. QED BY <2>1, <2>3, NumberAssumption
  <1>2. \A m \in Mini \cup Entry : m.id \in Nat
    BY DEF Mini, Entry
  <1>3. ASSUME NEW tb \in Pointer
        PROVE  /\ InterruptMini(d, tb) \in Mini /\ InterruptMini(d, tb).id = captured + 1
               /\ Dump(InterruptMini(d, tb)) \in Entry
               /\ Dump(InterruptMini(d, tb)).id = captured + 1
    <2>1. d \in Table /\ uUrbNumGenerator \in Number
      BY DEF InterruptNoBuf, InterruptQueue, InterruptProcess, Interrupt, Captures, IInv,
         TypeOK, NumberType
    <2>2. QED BY <1>1, <2>1, MiniFacts, Fields DEF InterruptMini
  <1>4. Fifo!Fresh(captured + 1)
    <2>1. captured \in Nat /\ captured + 1 # 0 /\ \A n \in 1 .. captured : n # captured + 1
      BY NumberAssumption DEF IInv, TypeOK, NumberType
    <2>2. captured + 1 # Hand
      BY <2>1 DEF HeapInv, Owned, IdsKnown, WorkerHolds, Hand
    <2>3. \A n : Logged(n) => n # captured + 1
      BY <2>1 DEF HeapInv, Owned, IdsKnown, Logged
    <2>4. \A i \in DOMAIN list : list[i].id # captured + 1
      BY <2>1 DEF HeapInv, Owned, IdsKnown
    <2>5. QED BY <2>2, <2>3, <2>4, FreshMeans
  <1>5. CASE InterruptNoBuf(d)
    BY <1>1, <1>5, FifoStutter DEF InterruptNoBuf
  <1>6. CASE InterruptProcess(d)
    <2>1. /\ log' \in {log, Append(log, Dump(InterruptMini(d, "NULL")))} /\ UNCHANGED list
      BY <1>6 DEF InterruptProcess
    <2>2. CASE log' = log
      BY <1>1, <2>1, <2>2, FifoStutter
    <2>3. CASE log' = Append(log, Dump(InterruptMini(d, "NULL")))
      <3>1. Ids(log)' = Append(Ids(log), captured + 1)
        <4>1. Dump(InterruptMini(d, "NULL")) \in Entry
              /\ Dump(InterruptMini(d, "NULL")).id = captured + 1
          BY <1>3 DEF Pointer
        <4>2. Ids(Append(log, Dump(InterruptMini(d, "NULL"))))
                = Append(Ids(log), Dump(InterruptMini(d, "NULL")).id)
          BY <1>1, <4>1, IdsAppend
        <4>3. QED BY <2>3, <4>1, <4>2
      <3>2. Fifo!Direct
        BY <1>1, <1>4, <2>1, <3>1, FifoNames DEF Hand, Ids
      <3>3. QED BY <3>2 DEF Fifo!Next
    <2>4. QED BY <2>1, <2>2, <2>3
  <1>7. ASSUME NEW tb \in Pointer, InterruptQueue(d, tb)
        PROVE  Fifo!Next \/ UNCHANGED Fifo!vars
    <2>1. list' \in {list, Append(list, InterruptMini(d, tb))} /\ UNCHANGED log
      BY <1>7 DEF InterruptQueue, QueuedTail
    <2>2. CASE list' = list
      BY <1>1, <2>1, <2>2, FifoStutter
    <2>3. CASE list' = Append(list, InterruptMini(d, tb))
      <3>1. Ids(list)' = Append(Ids(list), captured + 1)
        <4>1. InterruptMini(d, tb) \in Mini /\ InterruptMini(d, tb).id = captured + 1
          BY <1>3
        <4>2. Ids(Append(list, InterruptMini(d, tb))) = Append(Ids(list), InterruptMini(d, tb).id)
          BY <1>1, <4>1, IdsAppend
        <4>3. QED BY <2>3, <4>1, <4>2
      <3>2. Fifo!Put
        BY <1>1, <1>4, <2>1, <3>1, FifoNames DEF Hand, Ids
      <3>3. QED BY <3>2 DEF Fifo!Next
    <2>4. QED BY <2>1, <2>2, <2>3
  <1>8. QED BY <1>5, <1>6, <1>7

(* The worker takes the oldest urb, outputs it or drops it.                *)
LEMMA FifoWorker ==
  ASSUME IInv, HeapInv, WorkerThread
  PROVE  Fifo!Next \/ UNCHANGED Fifo!vars
  <1> USE DEF lifeVars, queueVars, workerVars, procVars, heapVars, WGoto
  <1>1. list \in Seq(Mini) /\ log \in Seq(Entry) /\ wItem \in Mini
    BY DEF IInv, TypeOK, SeqType, WorkerType
  <1>2. /\ \A m \in Mini : m.id \in Nat /\ Dump(m) \in Entry /\ Dump(m).id = m.id
        /\ \A e \in Entry : e.id \in Nat
    BY MiniFacts, Fields DEF Entry
  <1>3. wpc \in {"process", "dump"} => Hand = wItem.id /\ Hand # 0
    BY DEF HeapInv, Owned, IdsKnown, WorkerHolds, Hand
  <1>4. CASE WorkerDown \/ WorkerSleep \/ WorkerCheck \/ WorkerListDown \/ WorkerExit
    <2>1. /\ UNCHANGED <<list, wItem, log>>
          /\ \/ wpc' = wpc
             \/ wpc \notin {"process", "dump"} /\ wpc' \notin {"process", "dump"}
      BY <1>4 DEF WorkerDown, WorkerSleep, WorkerCheck, WorkerListDown, WorkerExit
    <2>2. QED BY <2>1, FifoStutter
  <1>5. CASE WorkerTake
    <2>1. CASE list = <<>>
      <3>1. UNCHANGED <<list, wItem, log>> /\ wpc = "locked" /\ wpc' = "wait"
        BY <1>5, <2>1 DEF WorkerTake
      <3>2. QED BY <3>1, FifoStutter
    <2>2. CASE list # <<>>
      <3>1. /\ wpc = "locked" /\ wpc' = "process" /\ UNCHANGED log
            /\ wItem' = Head(list) /\ list' = Tail(list)
        BY <1>5, <2>2 DEF WorkerTake
      <3>2. /\ Ids(list) # <<>> /\ Head(Ids(list)) = Head(list).id
            /\ Ids(Tail(list)) = Tail(Ids(list))
        BY <1>1, <1>2, <2>2, IdsOfSequence
      <3>3. Fifo!Take
        BY <3>1, <3>2, FifoNames DEF Hand, Ids
      <3>4. QED BY <3>3 DEF Fifo!Next
    <2>3. QED BY <2>1, <2>2
  <1>6. CASE WorkerProcessMini
    <2>1. UNCHANGED <<list, wItem, log>> /\ wpc = "process" /\ wpc' \in {"dump", "clean"}
      BY <1>6 DEF WorkerProcessMini
    <2>2. CASE wpc' = "dump"
      BY <2>1, <2>2, FifoStutter
    <2>3. CASE wpc' = "clean"
      <3>1. Fifo!Drop
        BY <1>3, <2>1, <2>3, FifoNames DEF Hand, Ids
      <3>2. QED BY <3>1 DEF Fifo!Next
    <2>4. QED BY <2>1, <2>2, <2>3
  <1>7. CASE WorkerDump
    <2>1. /\ UNCHANGED <<list, wItem>> /\ wpc = "dump" /\ wpc' = "clean"
          /\ log' \in {log, Append(log, Dump(wItem))}
      BY <1>7 DEF WorkerDump
    <2>2. CASE log' = log
      <3>1. Fifo!Drop
        BY <1>3, <2>1, <2>2, FifoNames DEF Hand, Ids
      <3>2. QED BY <3>1 DEF Fifo!Next
    <2>3. CASE log' = Append(log, Dump(wItem))
      <3>1. Ids(log)' = Append(Ids(log), wItem.id)
        <4>1. Dump(wItem) \in Entry /\ Dump(wItem).id = wItem.id
          BY <1>1, <1>2
        <4>2. Ids(Append(log, Dump(wItem))) = Append(Ids(log), Dump(wItem).id)
          BY <1>1, <4>1, IdsAppend
        <4>3. QED BY <2>3, <4>1, <4>2
      <3>2. Fifo!Output
        BY <1>3, <2>1, <3>1, FifoNames DEF Hand, Ids
      <3>3. QED BY <3>2 DEF Fifo!Next
    <2>4. QED BY <2>1, <2>2, <2>3
  <1>8. CASE WorkerClean
    <2>1. UNCHANGED <<list, log>> /\ wpc = "clean" /\ wpc' = "wait"
      BY <1>8 DEF WorkerClean
    <2>2. QED BY <2>1 DEF Fifo!vars
  <1>9. QED BY <1>4, <1>5, <1>6, <1>7, <1>8 DEF WorkerThread

(* The removal discards what waits; the rest of it, start-up and the       *)
(* settings move no urb.                                                   *)
LEMMA FifoLife ==
  ASSUME IInv, HeapInv,
         \/ InstallDumper \/ HcFoundFails \/ RemoveDumper \/ Remover
         \/ \E d \in DevNums : Enable(d) \/ Disable(d) \/ SetDeviceSettings(d)
         \/ UNCHANGED vars
  PROVE  Fifo!Next \/ UNCHANGED Fifo!vars
  <1> USE DEF vars, lifeVars, queueVars, workerVars, procVars, heapVars
  <1>1. CASE InstallDumper
    <2>1. UNCHANGED <<list, wItem, log>> /\ wpc = "none" /\ wpc' \in {"none", "wait"}
      BY <1>1 DEF InstallDumper, IInv, LifeInv
    <2>2. QED BY <2>1, FifoStutter
  <1>2. CASE HcFoundFails \/ RemoveDumper \/ RemoveJoin \/ RemoveProcFs
    <2>1. UNCHANGED <<list, wItem, wpc, log>>
      BY <1>2 DEF HcFoundFails, RemoveDumper, RemoveJoin, RemoveProcFs, StopThread
    <2>2. QED BY <2>1, FifoStutter
  <1>3. CASE RemoveDrain
    <2>1. /\ list \in Seq(Mini) /\ list # <<>> /\ list' = Tail(list)
          /\ wpc = "gone" /\ UNCHANGED <<wpc, wItem, log>>
      BY <1>3 DEF RemoveDrain, IInv, LifeInv, TypeOK, SeqType
    <2>2. \A m \in Mini : m.id \in Nat
      BY DEF Mini
    <2>3. Ids(list) # <<>> /\ Ids(Tail(list)) = Tail(Ids(list))
      BY <2>1, <2>2, IdsOfSequence
    <2>4. Fifo!Discard
      BY <2>1, <2>3, FifoNames DEF Hand, Ids
    <2>5. QED BY <2>4 DEF Fifo!Next
  <1>4. CASE \E d \in DevNums : Enable(d) \/ Disable(d) \/ SetDeviceSettings(d)
    <2>1. UNCHANGED <<list, wItem, wpc, log>>
      BY <1>4 DEF Enable, Disable, SetEnabled, SetDeviceSettings, SetSettings
    <2>2. QED BY <2>1, FifoStutter
  <1>5. CASE UNCHANGED vars
    BY <1>5, FifoStutter
  <1>6. QED BY <1>1, <1>2, <1>3, <1>4, <1>5 DEF Remover

(* The side dumper is a fifo queue with a background thread: whatever      *)
(* processes, interrupts, the worker and the removal do, an urb is output  *)
(* at most once, and the queued ones in the order in which they were       *)
(* queued.                                                                 *)
THEOREM DumperIsFifo == Spec => ImplementsFifo
  <1>1. Init => Fifo!Init
    BY FifoNames DEF Init, Ids, Hand
  <1>2. IInv /\ HeapInv /\ [Next]_vars => [Fifo!Next]_(Fifo!vars)
    BY FifoProc, FifoInterrupt, FifoWorker, FifoLife DEF Next
  <1>3. QED
    BY <1>1, <1>2, Invariance, HeapInvariance, PTL DEF Spec, ImplementsFifo, Fifo!Spec
=============================================================================
