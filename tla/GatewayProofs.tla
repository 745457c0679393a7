--------------------------- MODULE GatewayProofs ---------------------------
(***************************************************************************)
(* Proofs about Gateway.tla, for any finite set of connections and any     *)
(* positive bounds.                                                        *)
(***************************************************************************)
EXTENDS Gateway, FiniteSetTheorems, TLAPS

----------------------------------------------------------------------------
(* Counting.                                                               *)

\* Adding a new element to a finite set counts one more.
LEMMA CountAdd ==
  ASSUME NEW S, IsFiniteSet(S), NEW x, x \notin S
  PROVE  /\ Cardinality(S) \in Nat
         /\ Cardinality(S \cup {x}) = Cardinality(S) + 1
  BY FS_AddElement, FS_CardinalityType

\* Removing an element of a finite set counts one less, and there was one.
LEMMA CountRemove ==
  ASSUME NEW S, IsFiniteSet(S), NEW x \in S
  PROVE  /\ Cardinality(S) \in Nat
         /\ Cardinality(S) >= 1
         /\ Cardinality(S \ {x}) = Cardinality(S) - 1
  <1>1. IsFiniteSet(S \ {x}) /\ Cardinality(S \ {x}) = Cardinality(S) - 1
    BY FS_RemoveElement
  <1>2. Cardinality(S) \in Nat /\ Cardinality(S \ {x}) \in Nat
    BY <1>1, FS_CardinalityType
  <1> QED BY <1>1, <1>2

\* Every set of connections is finite.
LEMMA ConnsFinite ==
  ASSUME NEW S \in SUBSET Conns
  PROVE  IsFiniteSet(S) /\ Cardinality(S) \in Nat
  BY GatewayAssumption, FS_Subset, FS_CardinalityType

----------------------------------------------------------------------------
(***************************************************************************)
(* The inductive invariant.  Conservation of the two counters does not     *)
(* survive a step by itself: a drop must come from a holder, a             *)
(* compare-exchange must not succeed at zero or at the bound, and the slot *)
(* of a connection must have one owner at a time.                          *)
(***************************************************************************)

\* A permit is held in exactly the stages from its acquisition to the answer.
PermitStages ==
  \A c \in Conns : permit[c] <=> stage[c] \in Admitted

\* The registers of the compare-exchange loops passed their test.
Registers ==
  /\ \A c \in Conns : stage[c] = "cas" => seenFree[c] # 0
  /\ listener = "cas" => seenActive < MaxWorkers

\* The listener handles at most one accepted connection, and has one whenever
\* it is between accept and the spawn.
OneAccepted ==
  /\ \A c, d \in Conns : stage[c] = "accepted" /\ stage[d] = "accepted" => c = d
  /\ (\E c \in Conns : stage[c] = "accepted")
       <=> listener \in {"recheck", "load", "cas", "spawn"}

\* Every running worker's handle is in the vector until the joins.
HandlesKept ==
  /\ Serving \subseteq workers
  /\ listener = "returned" => workers = {}

\* A panicking spawn is the one way to lose a slot.
SlotsCounted ==
  /\ active >= Cardinality(SlotHolders)
  /\ active <= MaxWorkers
  /\ SlotsConserved

IInv ==
  /\ TypeOK
  /\ PermitStages
  /\ Registers
  /\ OneAccepted
  /\ HandlesKept
  /\ NoDetachedWatcher
  /\ PermitsConserved
  /\ SlotsCounted

LEMMA InitIInv == Init => IInv
  <1> SUFFICES ASSUME Init PROVE IInv
    OBVIOUS
  <1> USE GatewayAssumption
  <1>1. PermitHolders = {} /\ SlotHolders = {} /\ Serving = {}
    BY DEF Init, PermitHolders, SlotHolders, Serving, Spawning, Served, Admitted
  <1>2. Cardinality({}) = 0
    BY FS_EmptySet
  <1>3. TypeOK
    BY DEF Init, TypeOK, ListenerStages, Stages, Unaccepted
  <1>4. PermitStages /\ Registers /\ OneAccepted /\ NoDetachedWatcher
    BY DEF Init, PermitStages, Registers, OneAccepted, NoDetachedWatcher, Admitted
  <1>5. HandlesKept /\ PermitsConserved /\ SlotsCounted
    BY <1>1, <1>2 DEF Init, HandlesKept, PermitsConserved, SlotsCounted, SlotsConserved
  <1> QED BY <1>3, <1>4, <1>5 DEF IInv

----------------------------------------------------------------------------
(* Steps that leave a set of holders as it is, or change it by one.        *)

\* Types that no counter can spoil, for a step of a worker inside its run.
LEMMA WorkerMoves ==
  ASSUME IInv, NEW c \in Conns, NEW from \in Served, NEW to \in Served,
         WorkerStep(c, from, to)
  PROVE  /\ Serving' = Serving
         /\ SlotHolders' = SlotHolders
         /\ stage' \in [Conns -> Stages]
         /\ OneAccepted'
         /\ HandlesKept'
  <1> USE DEF IInv, TypeOK, WorkerStep, Serving
  <1>1. \A d \in Conns : stage'[d] = IF d = c THEN to ELSE stage[d]
    OBVIOUS
  <1>2. Serving' = Serving
    BY <1>1
  <1>3. \A d \in Conns : stage'[d] = "accepted" <=> stage[d] = "accepted"
    BY <1>1 DEF Served, Admitted
  <1>4. Spawning' = Spawning
    BY <1>3 DEF Spawning
  <1>5. stage' \in [Conns -> Stages]
    BY DEF Stages
  <1>6. OneAccepted'
    BY <1>3 DEF OneAccepted
  <1>7. HandlesKept'
    BY <1>2 DEF HandlesKept
  <1> QED BY <1>2, <1>4, <1>5, <1>6, <1>7 DEF SlotHolders

\* The slot count holds on while the count and its owners are left alone.
LEMMA SlotsFrame ==
  ASSUME IInv, SlotHolders' = SlotHolders, active' = active,
         listener' = listener \/ listener # "failed"
  PROVE  SlotsCounted' /\ active' \in Nat
  BY DEF IInv, TypeOK, SlotsCounted, SlotsConserved

\* Likewise the permits.
LEMMA PermitsFrame ==
  ASSUME IInv, permit' = permit, available' = available
  PROVE  PermitsConserved' /\ available' \in Nat
  BY DEF IInv, TypeOK, PermitsConserved, PermitHolders

\* A drop by a holder gives exactly one permit back.
LEMMA DropConserves ==
  ASSUME IInv, NEW c \in Conns, permit[c], DropPermit(c)
  PROVE  /\ PermitsConserved'
         /\ available' \in Nat
         /\ permit' \in [Conns -> BOOLEAN]
         /\ PermitHolders' = PermitHolders \ {c}
  <1> USE DEF IInv, TypeOK, DropPermit
  <1>1. \A d \in Conns : permit'[d] = IF d = c THEN FALSE ELSE permit[d]
    OBVIOUS
  <1>2. PermitHolders' = PermitHolders \ {c}
    BY <1>1 DEF PermitHolders
  <1>3. c \in PermitHolders /\ IsFiniteSet(PermitHolders)
    BY ConnsFinite DEF PermitHolders
  <1>4. /\ Cardinality(PermitHolders) \in Nat
        /\ Cardinality(PermitHolders') = Cardinality(PermitHolders) - 1
    BY <1>2, <1>3, CountRemove
  <1>5. PermitsConserved'
    BY <1>4, GatewayAssumption DEF PermitsConserved
  <1> QED BY <1>2, <1>5

\* A successful compare-exchange takes exactly one permit, and one was free.
LEMMA TakeConserves ==
  ASSUME IInv, NEW c \in Conns, TakePermit(c)
  PROVE  /\ PermitsConserved'
         /\ available' \in Nat
         /\ permit' \in [Conns -> BOOLEAN]
         /\ PermitHolders' = PermitHolders \cup {c}
         /\ ~permit[c]
         /\ available > 0
  <1> USE DEF IInv, TypeOK, TakePermit
  <1>1. stage[c] = "cas" /\ available = seenFree[c] /\ available # 0
    BY DEF WorkerStep, Registers
  <1>2. ~permit[c]
    BY <1>1 DEF PermitStages, Admitted
  <1>3. \A d \in Conns : permit'[d] = IF d = c THEN TRUE ELSE permit[d]
    OBVIOUS
  <1>4. PermitHolders' = PermitHolders \cup {c} /\ c \notin PermitHolders
    BY <1>2, <1>3 DEF PermitHolders
  <1>5. IsFiniteSet(PermitHolders)
    BY ConnsFinite DEF PermitHolders
  <1>6. /\ Cardinality(PermitHolders) \in Nat
        /\ Cardinality(PermitHolders') = Cardinality(PermitHolders) + 1
    BY <1>4, <1>5, CountAdd
  <1>7. available > 0 /\ available' \in Nat
    BY <1>1
  <1>8. PermitsConserved'
    BY <1>6, GatewayAssumption DEF PermitsConserved
  <1> QED BY <1>2, <1>4, <1>7, <1>8

----------------------------------------------------------------------------
(***************************************************************************)
(* The invariant, one group of actions at a time.                          *)
(***************************************************************************)

\* What a step of the listener that serves nobody new cannot disturb: it moves
\* no request, and no stage but those of connections outside service.
LEMMA ListenerFrame ==
  ASSUME IInv, NEW from, NEW to \in ListenerStages, ListenerStep(from, to),
         stage' \in [Conns -> Stages],
         \A d \in Conns : stage'[d] = stage[d] \/ (stage[d] \notin Served /\ stage'[d] \notin Served)
  PROVE  /\ Serving' = Serving
         /\ PermitStages'
         /\ NoDetachedWatcher'
         /\ PermitsConserved'
         /\ \A d \in Conns : stage'[d] = "cas" => seenFree'[d] # 0
         /\ active' \in Nat /\ seenActive' \in Nat /\ workers' \subseteq Conns => TypeOK'
  <1> USE DEF IInv, ListenerStep, requestVars, watchVars, processVars
  <1>1. Serving' = Serving
    BY DEF Serving
  <1>2. PermitStages'
    BY DEF PermitStages, Served
  <1>3. NoDetachedWatcher'
    BY DEF NoDetachedWatcher, Served, Admitted
  <1>4. PermitsConserved'
    BY DEF PermitsConserved, PermitHolders
  <1>5. \A d \in Conns : stage'[d] = "cas" => seenFree'[d] # 0
    BY DEF Registers, Served
  <1>6. active' \in Nat /\ seenActive' \in Nat /\ workers' \subseteq Conns => TypeOK'
    BY DEF TypeOK
  <1> QED BY <1>1, <1>2, <1>3, <1>4, <1>5, <1>6

\* The listener's own steps, outside a connection it has accepted.
LEMMA LoopKeeps ==
  ASSUME IInv, LeaveLoop \/ EnterLoop \/ AcceptNothing \/ AcceptFails \/ JoinWorkers
  PROVE  IInv'
  <1> USE DEF IInv
  <1>1. PICK from \in {"poll", "accept", "join"},
             to \in {"join", "accept", "poll", "failed", "returned"} :
          ListenerStep(from, to)
    BY DEF LeaveLoop, EnterLoop, AcceptNothing, AcceptFails, JoinWorkers
  <1>2. /\ active' = active /\ seenActive' = seenActive /\ stage' = stage
        /\ workers' \subseteq workers
        /\ Serving \subseteq workers'
        /\ to = "returned" => workers' = {}
    <2>1. CASE JoinWorkers
      BY <2>1, <1>1 DEF JoinWorkers, HandlesKept, Serving, Served, Admitted
    <2>2. CASE EnterLoop
      BY <2>2, <1>1
      DEF EnterLoop, Reap, HandlesKept, Serving, Served, Admitted, ListenerStep
    <2>3. CASE LeaveLoop \/ AcceptNothing \/ AcceptFails
      BY <2>3, <1>1
      DEF LeaveLoop, AcceptNothing, AcceptFails, HandlesKept, ListenerStep
    <2> QED BY <2>1, <2>2, <2>3
  <1>3. listener = from /\ listener' = to /\ to \in ListenerStages
    BY <1>1 DEF ListenerStep, ListenerStages
  <1>4. /\ Serving' = Serving
        /\ PermitStages' /\ NoDetachedWatcher' /\ PermitsConserved' /\ TypeOK'
        /\ \A d \in Conns : stage'[d] = "cas" => seenFree'[d] # 0
    BY <1>1, <1>2, <1>3, ListenerFrame DEF TypeOK
  <1>5. SlotHolders' = SlotHolders
    BY <1>3, <1>4 DEF SlotHolders, Spawning
  <1>6. SlotsCounted'
    BY <1>2, <1>3, <1>5 DEF SlotsCounted, SlotsConserved
  <1>7. OneAccepted'
    BY <1>2, <1>3 DEF OneAccepted
  <1>8. HandlesKept' /\ Registers'
    BY <1>2, <1>3, <1>4 DEF HandlesKept, Registers
  <1> QED BY <1>4, <1>6, <1>7, <1>8

\* Accepting a connection, and what the listener does with it before it has a
\* slot: refuse it, or go on with a fresh value of the count.
LEMMA AcceptKeeps ==
  ASSUME IInv, NEW c \in Conns,
         Accept(c) \/ Recheck(c) \/ LoadActive(c) \/ RetrySlot(c)
  PROVE  IInv'
  <1> USE DEF IInv
  <1>1. PICK from \in {"accept", "recheck", "load", "cas"},
             to \in {"recheck", "join", "load", "poll", "cas"} :
          /\ ListenerStep(from, to)
          /\ active' = active
          /\ workers' = workers
          /\ \/ from = "accept" /\ to = "recheck" /\ stage[c] = "backlog"
                /\ stage' = [stage EXCEPT ![c] = "accepted"]
             \/ /\ from # "accept" /\ to \in {"join", "poll"} /\ stage[c] = "accepted"
                /\ stage' = [stage EXCEPT ![c] = "refused"]
             \/ from # "accept" /\ to \in {"load", "cas"} /\ stage[c] = "accepted"
                /\ stage' = stage
    BY DEF Accept, Recheck, LoadActive, RetrySlot, ReserveFrom, Refuse
  <1>2. seenActive' \in Nat /\ (to = "cas" => seenActive' < MaxWorkers)
    BY <1>1, GatewayAssumption
    DEF Accept, Recheck, LoadActive, RetrySlot, ReserveFrom, AtBound, TypeOK, ListenerStep
  <1>3. listener = from /\ listener' = to /\ to \in ListenerStages
    BY <1>1 DEF ListenerStep, ListenerStages
  <1>4. /\ stage' \in [Conns -> Stages]
        /\ \A d \in Conns : d # c => stage'[d] = stage[d]
        /\ stage[c] \notin Served /\ stage'[c] \notin Served
    BY <1>1 DEF TypeOK, Stages, Unaccepted, Served, Admitted
  <1>5. /\ Serving' = Serving
        /\ PermitStages' /\ NoDetachedWatcher' /\ PermitsConserved' /\ TypeOK'
        /\ \A d \in Conns : stage'[d] = "cas" => seenFree'[d] # 0
    BY <1>1, <1>2, <1>3, <1>4, ListenerFrame DEF TypeOK
  <1>6. SlotHolders' = SlotHolders
    BY <1>3, <1>5 DEF SlotHolders, Spawning
  <1>7. SlotsCounted'
    BY <1>1, <1>3, <1>6 DEF SlotsCounted, SlotsConserved
  <1>8. OneAccepted'
    BY <1>1, <1>3, <1>4 DEF OneAccepted, TypeOK
  <1>9. HandlesKept' /\ Registers'
    BY <1>1, <1>2, <1>3, <1>5 DEF HandlesKept, Registers
  <1> QED BY <1>5, <1>7, <1>8, <1>9

\* A successful compare-exchange takes a slot for the accepted connection.
LEMMA ReserveKeeps ==
  ASSUME IInv, ReserveSlot
  PROVE  IInv'
  <1> USE DEF IInv
  <1>1. /\ ListenerStep("cas", "spawn") /\ listener = "cas" /\ listener' = "spawn"
        /\ stage' = stage /\ workers' = workers /\ seenActive' = seenActive
        /\ active = seenActive /\ active' = active + 1
    BY DEF ReserveSlot, ListenerStep
  <1>2. /\ Serving' = Serving
        /\ PermitStages' /\ NoDetachedWatcher' /\ PermitsConserved' /\ TypeOK'
        /\ \A d \in Conns : stage'[d] = "cas" => seenFree'[d] # 0
    BY <1>1, ListenerFrame DEF TypeOK, ListenerStages
  <1>3. PICK c \in Conns : stage[c] = "accepted" /\ (\A d \in Conns : stage[d] = "accepted" => d = c)
    BY <1>1 DEF OneAccepted
  <1>4. Spawning = {} /\ Spawning' = {c}
    BY <1>1, <1>3 DEF Spawning
  <1>5. SlotHolders' = SlotHolders \cup {c} /\ c \notin SlotHolders
    BY <1>2, <1>3, <1>4 DEF SlotHolders, Serving, Served, Admitted
  <1>6. IsFiniteSet(SlotHolders)
    BY ConnsFinite DEF SlotHolders, Serving, Spawning
  <1>7. /\ Cardinality(SlotHolders) \in Nat
        /\ Cardinality(SlotHolders') = Cardinality(SlotHolders) + 1
    BY <1>5, <1>6, CountAdd
  <1>8. SlotsCounted'
    BY <1>1, <1>7, GatewayAssumption DEF SlotsCounted, SlotsConserved, Registers, TypeOK
  <1>9. OneAccepted' /\ HandlesKept' /\ Registers'
    BY <1>1, <1>2 DEF OneAccepted, HandlesKept, Registers
  <1> QED BY <1>2, <1>8, <1>9

\* The slot passes from the listener to the new worker, whose handle is kept.
LEMMA SpawnKeeps ==
  ASSUME IInv, NEW c \in Conns, Spawn(c)
  PROVE  IInv'
  <1> USE DEF IInv
  <1>1. /\ listener = "spawn" /\ listener' = "poll" /\ active' = active
        /\ seenActive' = seenActive /\ workers' = workers \cup {c}
        /\ stage[c] = "accepted"
        /\ UNCHANGED <<up, shutdown, available, seenFree, permit, watcher, cancelled,
                       peer, records>>
    BY DEF Spawn, ListenerStep, requestVars, watchVars, processVars
  <1>2. \A d \in Conns : stage'[d] = IF d = c THEN "head" ELSE stage[d]
    BY DEF Spawn, TypeOK
  <1>3. TypeOK'
    BY <1>1 DEF Spawn, TypeOK, ListenerStages, Stages, Served
  <1>4. Serving' = Serving \cup {c} /\ Spawning = {c} /\ Spawning' = {}
    BY <1>1, <1>2 DEF Serving, Spawning, OneAccepted, Served
  <1>5. SlotHolders' = SlotHolders
    BY <1>4 DEF SlotHolders
  <1>6. SlotsCounted'
    BY <1>1, <1>5 DEF SlotsCounted, SlotsConserved
  <1>7. OneAccepted'
    BY <1>1, <1>2 DEF OneAccepted
  <1>8. HandlesKept'
    BY <1>1, <1>4 DEF HandlesKept
  <1>9. PermitStages' /\ NoDetachedWatcher' /\ Registers'
    BY <1>1, <1>2 DEF PermitStages, NoDetachedWatcher, Registers, Admitted
  <1>10. PermitsConserved'
    BY <1>1 DEF PermitsConserved, PermitHolders
  <1> QED BY <1>3, <1>6, <1>7, <1>8, <1>9, <1>10

\* A spawn that panics loses the slot, and the listener with it.
LEMMA SpawnPanicKeeps ==
  ASSUME IInv, NEW c \in Conns, SpawnPanics(c)
  PROVE  IInv'
  <1> USE DEF IInv
  <1>1. /\ ListenerStep("spawn", "failed") /\ listener = "spawn" /\ listener' = "failed"
        /\ stage[c] = "accepted" /\ stage' = [stage EXCEPT ![c] = "refused"]
        /\ active' = active /\ seenActive' = seenActive /\ workers' = workers
    BY DEF SpawnPanics, Refuse, ListenerStep
  <1>2. \A d \in Conns : stage'[d] = IF d = c THEN "refused" ELSE stage[d]
    BY <1>1 DEF TypeOK
  <1>3. /\ Serving' = Serving
        /\ PermitStages' /\ NoDetachedWatcher' /\ PermitsConserved' /\ TypeOK'
        /\ \A d \in Conns : stage'[d] = "cas" => seenFree'[d] # 0
    <2>1. stage' \in [Conns -> Stages] /\ "failed" \in ListenerStages
      BY <1>1 DEF TypeOK, Stages, ListenerStages
    <2>2. \A d \in Conns : \/ stage'[d] = stage[d]
                           \/ stage[d] \notin Served /\ stage'[d] \notin Served
      BY <1>1, <1>2 DEF Served, Admitted
    <2> QED BY <1>1, <2>1, <2>2, ListenerFrame DEF TypeOK
  <1>4. Spawning = {c} /\ Spawning' = {}
    BY <1>1 DEF Spawning, OneAccepted
  <1>5. SlotHolders' = SlotHolders \ {c} /\ c \in SlotHolders
    BY <1>1, <1>3, <1>4 DEF SlotHolders, Serving, Served, Admitted
  <1>6. IsFiniteSet(SlotHolders)
    BY ConnsFinite DEF SlotHolders, Serving, Spawning
  <1>7. /\ Cardinality(SlotHolders) \in Nat
        /\ Cardinality(SlotHolders') = Cardinality(SlotHolders) - 1
    BY <1>5, <1>6, CountRemove
  <1>8. SlotsCounted'
    BY <1>1, <1>7 DEF SlotsCounted, SlotsConserved, TypeOK
  <1>9. OneAccepted' /\ HandlesKept' /\ Registers'
    BY <1>1, <1>2, <1>3 DEF OneAccepted, HandlesKept, Registers
  <1> QED BY <1>3, <1>8, <1>9

\* Signals, clients and watchers change nothing that is counted, and a watcher
\* only ever stops.
LEMMA BystanderKeeps ==
  ASSUME IInv, RequestShutdown \/ Exit \/ (\E c \in Conns : Environment(c) \/ Watcher(c))
  PROVE  IInv'
  <1> USE DEF IInv
  <1>1. CASE RequestShutdown \/ Exit
    <2>1. /\ shutdown' \in BOOLEAN /\ up' \in BOOLEAN
          /\ UNCHANGED <<listener, active, seenActive, workers, stage, available,
                         seenFree, permit, watcher, cancelled, peer, records>>
      BY <1>1 DEF RequestShutdown, Exit, listenerVars, requestVars, watchVars, TypeOK
    <2>2. TypeOK'
      BY <2>1 DEF TypeOK
    <2>3. UNCHANGED <<Serving, Spawning, SlotHolders, PermitHolders>>
      BY <2>1 DEF Serving, Spawning, SlotHolders, PermitHolders
    <2> QED BY <2>1, <2>2, <2>3
      DEF PermitStages, Registers, OneAccepted, HandlesKept, NoDetachedWatcher,
          PermitsConserved, SlotsCounted, SlotsConserved
  <1>2. CASE \E c \in Conns : PeerCloses(c) \/ Watcher(c)
    <2>1. PICK c \in Conns : PeerCloses(c) \/ Watcher(c)
      BY <1>2
    <2>2. UNCHANGED <<up, shutdown, listener, active, seenActive, workers, stage,
                      available, seenFree, permit, records>>
      BY <2>1 DEF PeerCloses, Watcher, WatcherSeesClose, WatcherStops, WatcherStep,
                  processVars, listenerVars
    <2>3. /\ watcher' = watcher \/ watcher' = [watcher EXCEPT ![c] = "exited"]
          /\ cancelled' = cancelled \/ cancelled' = [cancelled EXCEPT ![c] = TRUE]
          /\ \/ peer' = peer
             \/ \E how \in {"closed", "masked"} : peer' = [peer EXCEPT ![c] = how]
      BY <2>1 DEF PeerCloses, Watcher, WatcherSeesClose, WatcherStops
    <2>4. TypeOK'
      BY <2>2, <2>3 DEF TypeOK
    <2>5. UNCHANGED <<Serving, Spawning, SlotHolders, PermitHolders>>
      BY <2>2 DEF Serving, Spawning, SlotHolders, PermitHolders
    <2>6. NoDetachedWatcher'
      BY <2>2, <2>3 DEF NoDetachedWatcher, TypeOK
    <2> QED BY <2>2, <2>4, <2>5, <2>6
      DEF PermitStages, Registers, OneAccepted, HandlesKept,
          PermitsConserved, SlotsCounted, SlotsConserved
  <1>3. CASE \E c \in Conns : Connect(c)
    <2>1. PICK c \in Conns : Connect(c)
      BY <1>3
    <2>2. /\ stage[c] = "new"
          /\ UNCHANGED <<up, shutdown, listener, active, seenActive, workers, available,
                         seenFree, permit, watcher, cancelled, peer, records>>
      BY <2>1 DEF Connect, WorkerStep, processVars, requestVars, watchVars
    <2>3. \A d \in Conns : stage'[d] = IF d = c THEN "backlog" ELSE stage[d]
      BY <2>1 DEF Connect, WorkerStep, TypeOK
    <2>4. TypeOK'
      BY <2>1, <2>2 DEF Connect, WorkerStep, TypeOK, Stages, Unaccepted
    <2>5. UNCHANGED <<Serving, Spawning, SlotHolders, PermitHolders>>
      BY <2>2, <2>3 DEF Serving, Spawning, SlotHolders, PermitHolders, Served, Admitted
    <2>6. OneAccepted' /\ PermitStages' /\ NoDetachedWatcher' /\ Registers'
      BY <2>2, <2>3
      DEF OneAccepted, PermitStages, NoDetachedWatcher, Registers, Admitted
    <2> QED BY <2>2, <2>4, <2>5, <2>6
      DEF HandlesKept, PermitsConserved, SlotsCounted, SlotsConserved
  <1> QED BY <1>1, <1>2, <1>3 DEF Environment

\* What is left to show of a worker's step that keeps the slot count: its own
\* permit, its own register and its own watcher.
LEMMA WorkerFrame ==
  ASSUME IInv, NEW c \in Conns, NEW from \in Served, NEW to \in Served,
         WorkerStep(c, from, to), active' = active,
         PermitsConserved', available' \in Nat,
         permit' \in [Conns -> BOOLEAN],
         seenFree' \in [Conns -> Nat],
         watcher' \in [Conns -> {"none", "polling", "exited"}],
         cancelled' \in [Conns -> BOOLEAN],
         peer' \in [Conns -> {"open", "closed", "masked"}],
         records' \in [Conns -> Nat],
         \A d \in Conns : d # c => /\ permit'[d] = permit[d]
                                   /\ seenFree'[d] = seenFree[d]
                                   /\ watcher'[d] = watcher[d],
         permit'[c] <=> to \in Admitted,
         to = "cas" => seenFree'[c] # 0,
         watcher'[c] = "polling" =>
           to \in {"body", "work", "stream", "pull", "write", "unwatch"}
  PROVE  IInv'
  <1> USE DEF IInv
  <1>1. /\ SlotHolders' = SlotHolders /\ stage' \in [Conns -> Stages]
        /\ OneAccepted' /\ HandlesKept'
    BY WorkerMoves
  <1>2. /\ UNCHANGED <<up, shutdown, listener, seenActive, workers>>
        /\ \A d \in Conns : stage'[d] = IF d = c THEN to ELSE stage[d]
    BY DEF WorkerStep, processVars, TypeOK
  <1>3. TypeOK'
    BY <1>1, <1>2 DEF TypeOK
  <1>4. SlotsCounted'
    BY <1>1, <1>2, SlotsFrame
  <1>5. PermitStages'
    BY <1>2 DEF PermitStages
  <1>6. NoDetachedWatcher'
    BY <1>2 DEF NoDetachedWatcher
  <1>7. Registers'
    BY <1>2 DEF Registers
  <1> QED BY <1>1, <1>3, <1>4, <1>5, <1>6, <1>7

\* The stages of a request before and after it holds a permit.
LEMMA QuietWorkerKeeps ==
  ASSUME IInv, NEW c \in Conns,
         \/ HeadFails(c) \/ AnswerHead(c) \/ AdmitChat(c)
         \/ LoadAvailable(c) \/ RetryPermit(c)
         \/ WriteResponse(c) \/ JoinWatcher(c)
  PROVE  IInv'
  <1> USE DEF IInv
  <1>1. PICK from \in {"head", "load", "cas", "write", "unwatch"},
             to \in {"close", "write", "load", "cas", "unwatch"} :
          /\ WorkerStep(c, from, to)
          /\ to # "unwatch" => watcher[c] # "polling"
    <2>1. CASE HeadFails(c)
      BY <2>1 DEF HeadFails, WorkerStep, NoDetachedWatcher
    <2>2. CASE JoinWatcher(c)
      BY <2>2 DEF JoinWatcher
    <2>3. CASE AnswerHead(c) \/ AdmitChat(c) \/ LoadAvailable(c) \/ RetryPermit(c)
               \/ WriteResponse(c)
      BY <2>3
      DEF AnswerHead, AdmitChat, LoadAvailable, RetryPermit, WriteResponse, AcquireFrom,
          WorkerStep, NoDetachedWatcher
    <2> QED BY <2>1, <2>2, <2>3
  <1>2. /\ UNCHANGED <<active, available, permit, watcher, cancelled, peer>>
        /\ records' = records \/ Record(c)
    BY DEF HeadFails, AnswerHead, AdmitChat, LoadAvailable, RetryPermit, AcquireFrom,
           WriteResponse, JoinWatcher, requestVars, watchVars
  <1>3. /\ seenFree' \in [Conns -> Nat]
        /\ \A d \in Conns : d # c => seenFree'[d] = seenFree[d]
        /\ to = "cas" => seenFree'[c] # 0
    <2>1. CASE LoadAvailable(c) \/ RetryPermit(c)
      BY <2>1, <1>1 DEF LoadAvailable, RetryPermit, AcquireFrom, Exhausted, WorkerStep, TypeOK
    <2>2. CASE \/ HeadFails(c) \/ AnswerHead(c) \/ AdmitChat(c)
               \/ WriteResponse(c) \/ JoinWatcher(c)
      <3>1. seenFree' = seenFree
        BY <2>2 DEF HeadFails, AnswerHead, AdmitChat, WriteResponse, JoinWatcher, requestVars
      <3>2. to # "cas"
        BY <2>2, <1>1
        DEF HeadFails, AnswerHead, AdmitChat, WriteResponse, JoinWatcher, WorkerStep, TypeOK
      <3> QED BY <3>1, <3>2 DEF TypeOK
    <2> QED BY <2>1, <2>2
  <1>4. PermitsConserved' /\ available' \in Nat
    BY <1>2, PermitsFrame
  <1>5. records' \in [Conns -> Nat]
    BY <1>2 DEF Record, TypeOK
  <1>6. from \in Served /\ to \in Served /\ from \notin Admitted /\ to \notin Admitted
    BY DEF Served, Admitted
  <1>7. ~permit'[c]
    BY <1>1, <1>2, <1>6 DEF PermitStages, WorkerStep
  <1>8. watcher'[c] = "polling" =>
          to \in {"body", "work", "stream", "pull", "write", "unwatch"}
    BY <1>1, <1>2
  <1> QED BY <1>1, <1>2, <1>3, <1>4, <1>5, <1>6, <1>7, <1>8, WorkerFrame DEF TypeOK

\* The stages of a request while it holds its permit.
LEMMA HolderKeeps ==
  ASSUME IInv, NEW c \in Conns,
         \/ StartWatcher(c) \/ BodyBuffered(c) \/ CommitStream(c)
         \/ PullChunk(c) \/ ChunkArrives(c)
  PROVE  IInv'
  <1> USE DEF IInv
  <1>1. PICK from \in Admitted, to \in Admitted \ {"watch"} : WorkerStep(c, from, to)
    BY DEF StartWatcher, BodyBuffered, CommitStream, PullChunk, ChunkArrives, Admitted
  <1>2. UNCHANGED <<active, available, seenFree, permit, cancelled, peer, records>>
    BY DEF StartWatcher, BodyBuffered, CommitStream, PullChunk, ChunkArrives,
           requestVars, watchVars
  <1>3. \/ watcher' = watcher
        \/ \E w \in {"polling", "none"} : watcher' = [watcher EXCEPT ![c] = w]
    BY DEF StartWatcher, BodyBuffered, CommitStream, PullChunk, ChunkArrives,
           requestVars, watchVars
  <1>4. PermitsConserved' /\ available' \in Nat
    BY <1>2, PermitsFrame
  <1>5. permit'[c]
    BY <1>1, <1>2 DEF PermitStages, WorkerStep
  <1>6. from \in Served /\ to \in Served /\ to # "cas"
        /\ to \in {"body", "work", "stream", "pull", "write", "unwatch"}
    BY DEF Served, Admitted
  <1> QED BY <1>1, <1>2, <1>3, <1>4, <1>5, <1>6, WorkerFrame DEF TypeOK

\* The acquisition.
LEMMA TakeKeeps ==
  ASSUME IInv, NEW c \in Conns, TakePermit(c)
  PROVE  IInv'
  <1> USE DEF IInv
  <1>1. WorkerStep(c, "cas", "watch")
        /\ UNCHANGED <<active, seenFree, watcher, cancelled, peer, records>>
    BY DEF TakePermit, watchVars
  <1>2. /\ PermitsConserved' /\ available' \in Nat
        /\ permit' \in [Conns -> BOOLEAN]
    BY TakeConserves
  <1>3. \A d \in Conns : permit'[d] = IF d = c THEN TRUE ELSE permit[d]
    BY DEF TakePermit, TypeOK
  <1>4. watcher'[c] # "polling"
    BY <1>1 DEF NoDetachedWatcher, WorkerStep
  <1> QED BY <1>1, <1>2, <1>3, <1>4, WorkerFrame DEF TypeOK, Served, Admitted

\* Every way a request gives its permit back.
LEMMA DropKeeps ==
  ASSUME IInv, NEW c \in Conns,
         \/ WatcherPanics(c) \/ BodyRefused(c) \/ AnswerChat(c)
         \/ StreamSeesCancellation(c) \/ StreamWriteFails(c) \/ StreamEnds(c)
  PROVE  IInv'
  <1> USE DEF IInv
  <1>1. PICK from \in {"watch", "body", "work", "stream"},
             to \in {"close", "write", "unwatch"} :
          /\ WorkerStep(c, from, to)
          /\ from = "watch" <=> to = "close"
    BY DEF WatcherPanics, BodyRefused, AnswerChat, AnswerFrom, StreamSeesCancellation,
           StreamWriteFails, StreamEnds, FinishStream
  <1>2. /\ DropPermit(c)
        /\ UNCHANGED <<active, seenFree, watcher, peer>>
        /\ cancelled' = cancelled \/ cancelled' = [cancelled EXCEPT ![c] = TRUE]
        /\ records' = records \/ Record(c)
    BY DEF WatcherPanics, BodyRefused, AnswerChat, AnswerFrom, StreamSeesCancellation,
           StreamWriteFails, StreamEnds, FinishStream, watchVars
  <1>3. from \in Served /\ to \in Served /\ from \in Admitted /\ to \notin Admitted
    BY DEF Served, Admitted
  <1>4. permit[c]
    BY <1>1, <1>3 DEF PermitStages, WorkerStep
  <1>5. /\ PermitsConserved' /\ available' \in Nat
        /\ permit' \in [Conns -> BOOLEAN]
    BY <1>2, <1>4, DropConserves
  <1>6. \A d \in Conns : permit'[d] = IF d = c THEN FALSE ELSE permit[d]
    BY <1>2 DEF DropPermit, TypeOK
  <1>7. watcher'[c] = "polling" =>
          to \in {"body", "work", "stream", "pull", "write", "unwatch"}
    BY <1>1, <1>2 DEF NoDetachedWatcher, WorkerStep
  <1>8. records' \in [Conns -> Nat] /\ cancelled' \in [Conns -> BOOLEAN]
    <2>1. records' \in [Conns -> Nat]
      BY <1>2 DEF Record, TypeOK
    <2>2. cancelled' \in [Conns -> BOOLEAN]
      BY <1>2, Zenon DEF TypeOK
    <2> QED BY <2>1, <2>2
  <1>9. to # "cas" /\ (permit'[c] <=> to \in Admitted)
    BY <1>3, <1>6
  <1> QED BY <1>1, <1>2, <1>3, <1>5, <1>6, <1>7, <1>8, <1>9, WorkerFrame DEF TypeOK

\* The last step of a worker gives back the slot it holds.
LEMMA ReleaseKeeps ==
  ASSUME IInv, NEW c \in Conns, ReleaseSlot(c)
  PROVE  IInv'
  <1> USE DEF IInv
  <1>1. /\ stage[c] = "close" /\ active' = active - 1
        /\ UNCHANGED <<up, shutdown, listener, seenActive, workers, available, seenFree,
                       permit, watcher, cancelled, peer, records>>
    BY DEF ReleaseSlot, WorkerStep, processVars, requestVars, watchVars
  <1>2. \A d \in Conns : stage'[d] = IF d = c THEN "done" ELSE stage[d]
    BY DEF ReleaseSlot, WorkerStep, TypeOK
  <1>3. /\ Serving' = Serving \ {c} /\ c \in Serving /\ Spawning' = Spawning
        /\ c \notin Spawning
    BY <1>1, <1>2 DEF Serving, Spawning, Served, Admitted
  <1>4. SlotHolders' = SlotHolders \ {c} /\ c \in SlotHolders
    BY <1>3 DEF SlotHolders
  <1>5. IsFiniteSet(SlotHolders)
    BY ConnsFinite DEF SlotHolders, Serving, Spawning
  <1>6. /\ Cardinality(SlotHolders) \in Nat /\ Cardinality(SlotHolders) >= 1
        /\ Cardinality(SlotHolders') = Cardinality(SlotHolders) - 1
    BY <1>4, <1>5, CountRemove
  <1>7. SlotsCounted' /\ active' \in Nat
    BY <1>1, <1>6, GatewayAssumption DEF SlotsCounted, SlotsConserved, TypeOK
  <1>8. stage' \in [Conns -> Stages]
    BY DEF ReleaseSlot, WorkerStep, TypeOK, Stages
  <1>9. TypeOK'
    BY <1>1, <1>7, <1>8 DEF TypeOK
  <1>10. HandlesKept' /\ OneAccepted'
    BY <1>1, <1>2, <1>3 DEF HandlesKept, OneAccepted
  <1>11. PermitStages' /\ NoDetachedWatcher' /\ Registers'
    BY <1>1, <1>2 DEF PermitStages, NoDetachedWatcher, Registers, Admitted
  <1>12. PermitsConserved'
    BY <1>1, PermitsFrame
  <1> QED BY <1>7, <1>9, <1>10, <1>11, <1>12

\* The invariant is inductive.
LEMMA StepIInv == IInv /\ [Next]_vars => IInv'
  <1> SUFFICES ASSUME IInv, [Next]_vars PROVE IInv'
    OBVIOUS
  <1>1. CASE RequestShutdown \/ Exit \/ (\E c \in Conns : Environment(c) \/ Watcher(c))
    BY <1>1, BystanderKeeps
  <1>2. CASE LeaveLoop \/ EnterLoop \/ AcceptNothing \/ AcceptFails \/ JoinWorkers
    BY <1>2, LoopKeeps
  <1>3. CASE ReserveSlot
    BY <1>3, ReserveKeeps
  <1>4. ASSUME NEW c \in Conns, AcceptLoop(c) PROVE IInv'
    BY <1>4, AcceptKeeps, SpawnKeeps, SpawnPanicKeeps DEF AcceptLoop
  <1>5. ASSUME NEW c \in Conns, Admission(c) PROVE IInv'
    BY <1>5, QuietWorkerKeeps, TakeKeeps DEF Admission
  <1>6. ASSUME NEW c \in Conns, Generation(c) PROVE IInv'
    BY <1>6, HolderKeeps, DropKeeps DEF Generation
  <1>7. ASSUME NEW c \in Conns, Delivery(c) PROVE IInv'
    BY <1>7, HolderKeeps, DropKeeps DEF Delivery
  <1>8. ASSUME NEW c \in Conns, Teardown(c) PROVE IInv'
    BY <1>8, QuietWorkerKeeps, ReleaseKeeps DEF Teardown
  <1>9. CASE UNCHANGED vars
    <2>1. UNCHANGED <<Serving, Spawning, SlotHolders, PermitHolders>>
      BY <1>9 DEF vars, listenerVars, requestVars, Serving, Spawning, SlotHolders, PermitHolders
    <2> QED BY <1>9, <2>1
      DEF vars, processVars, listenerVars, requestVars, watchVars, IInv, TypeOK,
          PermitStages, Registers, OneAccepted, HandlesKept, NoDetachedWatcher,
          PermitsConserved, SlotsCounted, SlotsConserved
  <1> QED BY <1>1, <1>2, <1>3, <1>4, <1>5, <1>6, <1>7, <1>8, <1>9 DEF Next, Listener, Worker

----------------------------------------------------------------------------
(* What the specification guarantees.                                      *)

\* The inductive invariant holds of every reachable state.
THEOREM Invariant == Spec => []IInv
  <1>1. Init => IInv
    BY InitIInv
  <1>2. IInv /\ [Next]_vars => IInv'
    BY StepIInv
  <1> QED BY <1>1, <1>2, PTL DEF Spec

\* Every variable keeps its type: the counters, above all, never underflow.
THEOREM TypeCorrect == Spec => []TypeOK
  <1>1. IInv => TypeOK
    BY DEF IInv
  <1> QED BY <1>1, Invariant, PTL

\* Permits are neither lost nor duplicated, whatever max_in_flight is and
\* however many connections race for them.
THEOREM PermitsNeverLeak == Spec => []PermitsConserved
  <1>1. IInv => PermitsConserved
    BY DEF IInv
  <1> QED BY <1>1, Invariant, PTL

\* The live-connection count is exact until a spawn panics.
THEOREM SlotsNeverLeak == Spec => []SlotsConserved
  <1>1. IInv => SlotsConserved
    BY DEF IInv, SlotsCounted
  <1> QED BY <1>1, Invariant, PTL

\* The requests in generation are the permit holders, so at most max_in_flight.
THEOREM GenerationsStayBounded == Spec => []GenerationsBounded
  <1>1. IInv => GenerationsBounded
    <2> SUFFICES ASSUME IInv PROVE GenerationsBounded
      OBVIOUS
    <2>1. {c \in Conns : stage[c] \in Admitted} = PermitHolders
      BY DEF IInv, PermitStages, PermitHolders
    <2>2. Cardinality(PermitHolders) \in Nat
      BY ConnsFinite DEF PermitHolders
    <2> QED BY <2>1, <2>2, GatewayAssumption
      DEF IInv, TypeOK, PermitsConserved, GenerationsBounded
  <1> QED BY <1>1, Invariant, PTL

\* No watcher outlives the connection it watches.
THEOREM WatchersJoined == Spec => []NoDetachedWatcher
  <1>1. IInv => NoDetachedWatcher
    BY DEF IInv
  <1> QED BY <1>1, Invariant, PTL

\* An orderly return of run_listener leaves no worker behind.
THEOREM QuietReturn == Spec => []ReturnsQuiet
  <1>1. IInv => ReturnsQuiet
    BY DEF IInv, HandlesKept, ReturnsQuiet
  <1> QED BY <1>1, Invariant, PTL

----------------------------------------------------------------------------
(***************************************************************************)
(* Both counters implement BoundedPool: each step of the gateway takes one *)
(* unit, gives one back, or leaves the holders alone.                      *)
(***************************************************************************)

\* The steps that move a permit.
LEMMA PermitMoves ==
  ASSUME IInv, [Next]_vars
  PROVE  \/ PermitHolders' = PermitHolders
         \/ \E c \in Conns : TakePermit(c)
         \/ \E c \in Conns : permit[c] /\ DropPermit(c)
  <1>1. CASE permit' = permit
    BY <1>1 DEF PermitHolders
  <1>2. CASE Listener \/ RequestShutdown \/ UNCHANGED vars
    BY <1>1, <1>2
    DEF Listener, RequestShutdown, LeaveLoop, EnterLoop, AcceptNothing, AcceptFails,
        ReserveSlot, JoinWorkers, Exit, AcceptLoop, Accept, Recheck, LoadActive,
        RetrySlot, ReserveFrom, Spawn, SpawnPanics, ListenerStep, requestVars, vars
  <1>3. ASSUME NEW c \in Conns, Environment(c) \/ Watcher(c) PROVE permit' = permit
    BY <1>3 DEF Environment, Connect, PeerCloses, Watcher, WatcherSeesClose, WatcherStops,
                WatcherStep, requestVars
  <1>4. ASSUME NEW c \in Conns, Admission(c) \/ Teardown(c), permit' # permit
        PROVE  TakePermit(c)
    BY <1>4 DEF Admission, HeadFails, AnswerHead, AdmitChat, LoadAvailable, RetryPermit,
                AcquireFrom, Teardown, WriteResponse, JoinWatcher, ReleaseSlot, requestVars
  <1>5. ASSUME NEW c \in Conns, Generation(c) \/ Delivery(c), permit' # permit
        PROVE  permit[c] /\ DropPermit(c)
    <2>1. \E from \in Admitted, to \in Stages : WorkerStep(c, from, to) /\ DropPermit(c)
      BY <1>5
      DEF Generation, StartWatcher, WatcherPanics, BodyRefused, BodyBuffered, AnswerChat,
          AnswerFrom, CommitStream, Delivery, PullChunk, ChunkArrives, FinishStream,
          StreamSeesCancellation, StreamWriteFails, StreamEnds, requestVars, Admitted,
          Stages, Served
    <2> QED BY <2>1 DEF IInv, PermitStages, WorkerStep
  <1> QED BY <1>1, <1>2, <1>3, <1>4, <1>5 DEF Next, Worker

\* The steps that move a slot.
LEMMA SlotMoves ==
  ASSUME IInv, [Next]_vars
  PROVE  \/ SlotHolders' = SlotHolders
         \/ \E c \in Conns : c \notin SlotHolders /\ SlotHolders' = SlotHolders \cup {c}
                             /\ active < MaxWorkers
         \/ \E c \in Conns : c \in SlotHolders /\ SlotHolders' = SlotHolders \ {c}
  <1> USE DEF IInv
  <1>1. ASSUME stage' = stage, listener' # "spawn", listener # "spawn"
        PROVE  SlotHolders' = SlotHolders
    BY <1>1 DEF SlotHolders, Serving, Spawning
  <1>2. CASE \/ LeaveLoop \/ EnterLoop \/ AcceptNothing \/ AcceptFails \/ JoinWorkers
    BY <1>1, <1>2 DEF LeaveLoop, EnterLoop, AcceptNothing, AcceptFails, JoinWorkers, ListenerStep
  <1>3. CASE \/ RequestShutdown \/ Exit \/ UNCHANGED vars
             \/ \E c \in Conns : PeerCloses(c) \/ Watcher(c)
    BY <1>3 DEF RequestShutdown, Exit, PeerCloses, Watcher, WatcherSeesClose, WatcherStops,
                WatcherStep, vars, listenerVars, SlotHolders, Serving, Spawning
  <1>4. ASSUME NEW c \in Conns, Accept(c) \/ Recheck(c) \/ LoadActive(c) \/ RetrySlot(c)
        PROVE  SlotHolders' = SlotHolders
    <2>1. /\ listener # "spawn" /\ listener' # "spawn"
          /\ stage[c] \notin Served
          /\ \/ stage' = stage
             \/ \E to \in {"accepted", "refused"} : stage' = [stage EXCEPT ![c] = to]
      BY <1>4 DEF Accept, Recheck, LoadActive, RetrySlot, ReserveFrom, Refuse, ListenerStep,
                  Served, Admitted
    <2> QED BY <2>1 DEF TypeOK, SlotHolders, Serving, Spawning, Served, Admitted
  <1>5. ASSUME NEW c \in Conns, Connect(c) PROVE SlotHolders' = SlotHolders
    BY <1>5 DEF Connect, WorkerStep, TypeOK, SlotHolders, Serving, Spawning, Served, Admitted
  <1>6. ASSUME ReserveSlot
        PROVE  \E c \in Conns : c \notin SlotHolders /\ SlotHolders' = SlotHolders \cup {c}
                                /\ active < MaxWorkers
    <2>1. /\ listener = "cas" /\ listener' = "spawn" /\ stage' = stage /\ active < MaxWorkers
      BY <1>6 DEF ReserveSlot, ListenerStep, Registers
    <2>2. PICK c \in Conns : /\ stage[c] = "accepted"
                             /\ \A d \in Conns : stage[d] = "accepted" => d = c
      BY <2>1 DEF OneAccepted
    <2> QED BY <2>1, <2>2 DEF SlotHolders, Serving, Spawning, Served, Admitted
  <1>7. ASSUME NEW c \in Conns, Spawn(c) PROVE SlotHolders' = SlotHolders
    <2>1. /\ listener = "spawn" /\ listener' = "poll" /\ stage[c] = "accepted"
          /\ stage' = [stage EXCEPT ![c] = "head"]
      BY <1>7 DEF Spawn, ListenerStep
    <2> QED BY <2>1 DEF TypeOK, OneAccepted, SlotHolders, Serving, Spawning, Served
  <1>8. ASSUME NEW c \in Conns, SpawnPanics(c)
        PROVE  c \in SlotHolders /\ SlotHolders' = SlotHolders \ {c}
    <2>1. /\ listener = "spawn" /\ listener' = "failed" /\ stage[c] = "accepted"
          /\ stage' = [stage EXCEPT ![c] = "refused"]
      BY <1>8 DEF SpawnPanics, ListenerStep, Refuse
    <2> QED BY <2>1
      DEF TypeOK, OneAccepted, SlotHolders, Serving, Spawning, Served, Admitted
  <1>9. ASSUME NEW c \in Conns, ReleaseSlot(c)
        PROVE  c \in SlotHolders /\ SlotHolders' = SlotHolders \ {c}
    <2>1. stage[c] = "close" /\ stage' = [stage EXCEPT ![c] = "done"] /\ listener' = listener
      BY <1>9 DEF ReleaseSlot, WorkerStep
    <2> QED BY <2>1 DEF TypeOK, SlotHolders, Serving, Spawning, Served, Admitted
  <1>10. ASSUME NEW c \in Conns,
                Admission(c) \/ Generation(c) \/ Delivery(c) \/ WriteResponse(c) \/ JoinWatcher(c)
         PROVE  SlotHolders' = SlotHolders
    <2>1. \E from, to \in Served : WorkerStep(c, from, to)
      BY <1>10
      DEF Admission, HeadFails, AnswerHead, AdmitChat, LoadAvailable, RetryPermit, AcquireFrom,
          TakePermit, Generation, StartWatcher, WatcherPanics, BodyRefused, BodyBuffered,
          AnswerChat, AnswerFrom, CommitStream, Delivery, PullChunk, ChunkArrives,
          FinishStream, StreamSeesCancellation, StreamWriteFails, StreamEnds,
          WriteResponse, JoinWatcher, Served, Admitted
    <2> QED BY <2>1, WorkerMoves
  <1> QED BY <1>2, <1>3, <1>4, <1>5, <1>6, <1>7, <1>8, <1>9, <1>10
    DEF Next, Listener, AcceptLoop, Worker, Teardown, Environment

\* The pool counts its holders as the gateway does.
LEMMA SameCount ==
  ASSUME NEW S
  PROVE  Permits!Cardinality(S) = Cardinality(S) /\ Slots!Cardinality(S) = Cardinality(S)
  BY DEF Permits!Cardinality, Slots!Cardinality, Cardinality,
         Permits!IsFiniteSet, Slots!IsFiniteSet, IsFiniteSet

\* GenerationCapacity is a pool of max_in_flight units, held from try_acquire to
\* the drop of the permit: a compare-exchange never overdraws it.
THEOREM PermitsArePool == Spec => PermitPool
  <1>1. Init => Permits!Init
    BY DEF Init, Permits!Init, PermitHolders
  <1>2. IInv /\ [Next]_vars => [Permits!Next]_PermitHolders
    <2> SUFFICES ASSUME IInv, [Next]_vars, PermitHolders' # PermitHolders
                 PROVE  Permits!Next
      OBVIOUS
    <2>1. ASSUME NEW c \in Conns, TakePermit(c) PROVE Permits!Acquire(c)
      <3>1. /\ PermitHolders' = PermitHolders \cup {c} /\ ~permit[c] /\ available > 0
        BY <2>1, TakeConserves
      <3>2. Cardinality(PermitHolders) < MaxInFlight
        BY <3>1, ConnsFinite, GatewayAssumption
        DEF IInv, TypeOK, PermitsConserved, PermitHolders
      <3> QED BY <3>1, <3>2, SameCount DEF Permits!Acquire, PermitHolders
    <2>2. ASSUME NEW c \in Conns, permit[c], DropPermit(c) PROVE Permits!Release(c)
      BY <2>2, DropConserves DEF Permits!Release, PermitHolders
    <2> QED BY <2>1, <2>2, PermitMoves DEF Permits!Next
  <1> QED BY <1>1, <1>2, Invariant, PTL DEF Spec, PermitPool, Permits!Spec

\* The connection slots are a pool of MAX_CONNECTION_WORKERS units, held by the
\* workers and by the connection the listener is about to spawn.
THEOREM SlotsArePool == Spec => SlotPool
  <1>1. Init => Slots!Init
    BY DEF Init, Slots!Init, SlotHolders, Serving, Spawning, Served, Admitted
  <1>2. IInv /\ [Next]_vars => [Slots!Next]_SlotHolders
    <2> SUFFICES ASSUME IInv, [Next]_vars PROVE [Slots!Next]_SlotHolders
      OBVIOUS
    <2>1. active < MaxWorkers => Cardinality(SlotHolders) < MaxWorkers
      <3>1. Cardinality(SlotHolders) \in Nat
        BY ConnsFinite DEF SlotHolders, Serving, Spawning
      <3> QED BY <3>1, GatewayAssumption DEF IInv, TypeOK, SlotsCounted
    <2> QED BY <2>1, SlotMoves, SameCount DEF Slots!Next, Slots!Acquire, Slots!Release
  <1> QED BY <1>1, <1>2, Invariant, PTL DEF Spec, SlotPool, Slots!Spec

----------------------------------------------------------------------------
(***************************************************************************)
(* What is promised one request: its 503 is true, its completion is        *)
(* recorded once, and shutdown decides whether it is served at all.        *)
(***************************************************************************)
(* A 503 is given only when every permit is held.                          *)

\* A worker moves between the stages of service and out of them at the end; from
\* the acquisition loop it gets to an answer only by the test of try_acquire.
LEMMA WorkerEdge ==
  ASSUME NEW c \in Conns, Worker(c)
  PROVE  \E from \in Served, to \in Served \cup {"done"} :
           /\ WorkerStep(c, from, to)
           /\ from \in {"load", "cas"} /\ to = "write" => Exhausted
  <1> USE DEF Served, Admitted
  <1>1. CASE LoadAvailable(c) \/ RetryPermit(c)
    BY <1>1 DEF LoadAvailable, RetryPermit, AcquireFrom
  <1>2. CASE HeadFails(c) \/ AnswerHead(c) \/ AdmitChat(c) \/ TakePermit(c)
    BY <1>2 DEF HeadFails, AnswerHead, AdmitChat, TakePermit
  <1>3. CASE Generation(c)
    BY <1>3 DEF Generation, StartWatcher, WatcherPanics, BodyRefused, BodyBuffered,
                AnswerChat, AnswerFrom, CommitStream
  <1>4. CASE Delivery(c)
    BY <1>4 DEF Delivery, PullChunk, ChunkArrives, FinishStream, StreamSeesCancellation,
                StreamWriteFails, StreamEnds
  <1>5. CASE Teardown(c)
    BY <1>5 DEF Teardown, WriteResponse, JoinWatcher, ReleaseSlot
  <1> QED BY <1>1, <1>2, <1>3, <1>4, <1>5 DEF Worker, Admission

\* Only the test of try_acquire leads from the acquisition loop to an answer.
LEMMA RejectingStep ==
  ASSUME IInv, Next, NEW c \in Conns, stage[c] \in {"load", "cas"}, stage'[c] = "write"
  PROVE  Exhausted
  <1> USE DEF IInv, TypeOK
  <1>1. stage' # stage
    OBVIOUS
  <1>2. ASSUME NEW d \in Conns, NEW to, stage' = [stage EXCEPT ![d] = to]
        PROVE  d = c /\ to = "write"
    BY <1>2
  <1>3. ~RequestShutdown /\ ~\E d \in Conns : Watcher(d) \/ PeerCloses(d)
    BY <1>1 DEF RequestShutdown, Watcher, WatcherSeesClose, WatcherStops, PeerCloses,
                WatcherStep
  <1>4. ~Listener
    <2> SUFFICES ASSUME Listener PROVE FALSE
      OBVIOUS
    <2>1. \E d \in Conns, to \in {"accepted", "refused", "head"} :
            stage' = [stage EXCEPT ![d] = to]
      BY <1>1 DEF Listener, LeaveLoop, EnterLoop, AcceptNothing, AcceptFails, ReserveSlot,
                  JoinWorkers, Exit, AcceptLoop, Accept, Recheck, LoadActive, RetrySlot,
                  ReserveFrom, Refuse, Spawn, SpawnPanics
    <2> QED BY <2>1, <1>2
  <1>5. ASSUME NEW d \in Conns, Connect(d) PROVE FALSE
    BY <1>5, <1>2 DEF Connect, WorkerStep
  <1>6. PICK d \in Conns : Worker(d)
    BY <1>3, <1>4, <1>5 DEF Next, Environment
  <1>7. PICK from \in Served, to \in Served \cup {"done"} :
          /\ WorkerStep(d, from, to)
          /\ from \in {"load", "cas"} /\ to = "write" => Exhausted
    BY <1>6, WorkerEdge
  <1>8. d = c /\ to = "write" /\ from = stage[c]
    BY <1>7, <1>2 DEF WorkerStep
  <1> QED BY <1>7, <1>8

\* No request is turned away by a stale value of the counter, at any load.
THEOREM RejectionsAreHonest == Spec => RejectsOnlyWhenFull
  <1>1. ASSUME IInv, [Next]_vars
        PROVE  [\A c \in Conns : stage[c] \in {"load", "cas"} /\ stage'[c] = "write"
                  => Cardinality(PermitHolders \ {c}) = MaxInFlight]_vars
    <2> SUFFICES ASSUME Next, NEW c \in Conns,
                        stage[c] \in {"load", "cas"}, stage'[c] = "write"
                 PROVE  Cardinality(PermitHolders \ {c}) = MaxInFlight
      BY <1>1
    <2>1. available = 0
      BY <1>1, RejectingStep DEF Exhausted
    <2>2. PermitHolders \ {c} = PermitHolders
      BY <1>1 DEF IInv, PermitStages, PermitHolders, Admitted
    <2>3. Cardinality(PermitHolders) \in Nat
      BY ConnsFinite DEF PermitHolders
    <2>4. available + Cardinality(PermitHolders) = MaxInFlight
      BY <1>1 DEF IInv, PermitsConserved
    <2> QED BY <2>1, <2>2, <2>3, <2>4
  <1> QED BY <1>1, Invariant, PTL DEF Spec, RejectsOnlyWhenFull

----------------------------------------------------------------------------
(* Completion records.                                                     *)

\* OneRecord, and that a connection nobody has read from has no record.
Recorded ==
  /\ OneRecord
  /\ \A c \in Conns :
       stage[c] \in Unaccepted \cup {"accepted", "refused"} => records[c] = 0

\* Nothing is recorded for a connection that is not being served.
LEMMA InitRecorded == Init => Recorded
  BY DEF Init, Recorded, OneRecord, Served, Admitted

\* A step either moves one request over a point where its record is written, and
\* writes it, or writes nothing.
LEMMA StepRecorded == IInv /\ Recorded /\ [Next]_vars => Recorded'
  <1> SUFFICES ASSUME IInv, Recorded, [Next]_vars PROVE Recorded'
    OBVIOUS
  <1> USE DEF Recorded, OneRecord
  <1>1. CASE stage' = stage /\ records' = records
    BY <1>1
  <1>2. CASE \/ RequestShutdown \/ UNCHANGED vars
             \/ \E c \in Conns : PeerCloses(c) \/ Watcher(c)
    BY <1>1, <1>2 DEF RequestShutdown, PeerCloses, Watcher, WatcherSeesClose, WatcherStops,
                      WatcherStep, requestVars, listenerVars, vars
  <1>3. CASE Listener
    <2>1. records' = records
      BY <1>3 DEF Listener, LeaveLoop, EnterLoop, AcceptNothing, AcceptFails, ReserveSlot,
                  JoinWorkers, Exit, AcceptLoop, Accept, Recheck, LoadActive, RetrySlot,
                  ReserveFrom, Spawn, SpawnPanics, ListenerStep, requestVars
    <2>2. \/ stage' = stage
          \/ \E c \in Conns, to \in {"accepted", "refused", "head"} :
               stage[c] \in {"backlog", "accepted"} /\ stage' = [stage EXCEPT ![c] = to]
      BY <1>3 DEF Listener, LeaveLoop, EnterLoop, AcceptNothing, AcceptFails, ReserveSlot,
                  JoinWorkers, Exit, AcceptLoop, Accept, Recheck, LoadActive, RetrySlot,
                  ReserveFrom, Refuse, Spawn, SpawnPanics
    <2> QED BY <2>1, <2>2 DEF IInv, TypeOK, Unaccepted, Admitted
  <1>4. ASSUME NEW c \in Conns, Connect(c) \/ Worker(c) PROVE Recorded'
    <2>1. \E from, to \in Stages :
            /\ stage[c] = from /\ stage' = [stage EXCEPT ![c] = to]
            /\ \/ /\ records' = records
                  /\ \/ from = "new" /\ to = "backlog"
                     \/ from = "head" /\ to \in {"load", "close"}
                     \/ from \in {"load", "cas"} /\ to = "cas"
                     \/ from = "cas" /\ to = "watch"
                     \/ from \in Admitted /\ to \in Admitted \cup {"close"}
                     \/ from = "write" /\ to = "unwatch"
                     \/ from = "unwatch" /\ to = "close"
                     \/ from = "close" /\ to = "done"
               \/ /\ Record(c)
                  /\ from \in {"head", "load", "cas"} \cup Admitted
                  /\ to \in {"write", "unwatch"}
      BY <1>4
      DEF Connect, Worker, Admission, HeadFails, AnswerHead, AdmitChat, LoadAvailable,
          RetryPermit, AcquireFrom, TakePermit, Generation, StartWatcher, WatcherPanics,
          BodyRefused, BodyBuffered, AnswerChat, AnswerFrom, CommitStream, Delivery,
          PullChunk, ChunkArrives, FinishStream, StreamSeesCancellation, StreamWriteFails,
          StreamEnds, Teardown, WriteResponse, JoinWatcher, ReleaseSlot, WorkerStep,
          requestVars, Stages, Unaccepted, Served, Admitted
    <2>2. stage \in [Conns -> Stages] /\ records \in [Conns -> Nat]
      BY DEF IInv, TypeOK
    <2> QED BY <2>1, <2>2 DEF Record, Unaccepted, Admitted
  <1> QED BY <1>2, <1>3, <1>4 DEF Next, Environment

\* Every request that was read has one completion record by the time it is
\* answered, on every path and under every interleaving.
THEOREM RecordedOnce == Spec => []OneRecord
  <1>1. Recorded => OneRecord
    BY DEF Recorded
  <1> QED BY <1>1, InitRecorded, StepRecorded, Invariant, PTL DEF Spec

----------------------------------------------------------------------------
(* Shutdown.                                                               *)

\* Where a connection that was not accepted before the signal can get to.
Late(c) ==
  /\ shutdown
  /\ \/ stage[c] \in Unaccepted \cup {"refused"}
     \/ stage[c] = "accepted" /\ listener = "recheck"

\* The second look at the flag, after accept, keeps a late connection out.
LEMMA LateStays ==
  ASSUME NEW c \in Conns, IInv, Late(c), [Next]_vars
  PROVE  Late(c)'
  <1> USE DEF IInv, TypeOK, Late, Unaccepted
  <1>1. CASE \/ RequestShutdown \/ UNCHANGED vars
             \/ \E d \in Conns : PeerCloses(d) \/ Watcher(d)
    BY <1>1 DEF RequestShutdown, PeerCloses, Watcher, WatcherSeesClose, WatcherStops,
                WatcherStep, processVars, listenerVars, vars
  <1>2. ASSUME NEW d \in Conns, Connect(d) \/ Worker(d) PROVE Late(c)'
    <2>1. \E from, to \in Stages : WorkerStep(d, from, to)
                        /\ (from \in Served \/ (from = "new" /\ to = "backlog"))
      BY <1>2, WorkerEdge DEF Connect, Stages
    <2>2. shutdown' = shutdown /\ listener' = listener
      BY <2>1 DEF WorkerStep, processVars
    <2>3. d # c \/ (stage[c] = "new" /\ stage'[c] = "backlog")
      BY <2>1 DEF WorkerStep, Served, Admitted
    <2>4. d # c => stage'[c] = stage[c]
      BY <2>1 DEF WorkerStep
    <2> QED BY <2>2, <2>3, <2>4
  <1>3. CASE Listener
    <2>1. shutdown' = shutdown
      BY <1>3 DEF Listener, LeaveLoop, EnterLoop, AcceptNothing, AcceptFails, ReserveSlot,
                  JoinWorkers, Exit, AcceptLoop, Accept, Recheck, LoadActive, RetrySlot,
                  ReserveFrom, Spawn, SpawnPanics, ListenerStep, processVars
    <2>2. CASE LeaveLoop \/ EnterLoop \/ AcceptNothing \/ AcceptFails \/ ReserveSlot
               \/ JoinWorkers \/ Exit
      BY <2>1, <2>2 DEF LeaveLoop, EnterLoop, AcceptNothing, AcceptFails, ReserveSlot,
                        JoinWorkers, Exit, ListenerStep, listenerVars
    <2>3. ASSUME NEW d \in Conns, Accept(d) PROVE Late(c)'
      BY <2>1, <2>3 DEF Accept, ListenerStep, OneAccepted
    <2>4. ASSUME NEW d \in Conns, Recheck(d) PROVE Late(c)'
      BY <2>1, <2>4 DEF Recheck, Refuse, ListenerStep, OneAccepted
    <2>5. ASSUME NEW d \in Conns,
                 LoadActive(d) \/ RetrySlot(d) \/ Spawn(d) \/ SpawnPanics(d)
          PROVE  Late(c)'
      <3>1. /\ stage[d] = "accepted" /\ listener # "recheck"
            /\ \A e \in Conns : e # d => stage'[e] = stage[e]
        BY <2>5 DEF LoadActive, RetrySlot, ReserveFrom, Refuse, Spawn, SpawnPanics, ListenerStep
      <3>2. c # d
        BY <3>1
      <3> QED BY <2>1, <3>1, <3>2
    <2> QED BY <1>3, <2>2, <2>3, <2>4, <2>5 DEF Listener, AcceptLoop
  <1> QED BY <1>1, <1>2, <1>3 DEF Next, Environment

\* A connection not yet accepted when shutdown is requested is never served,
\* wherever the listener is at that moment.
THEOREM LateIsNeverServed == Spec => NoLateService
  <1> SUFFICES ASSUME NEW c \in Conns
               PROVE  Spec => [](shutdown /\ stage[c] \in Unaccepted
                                   => [](stage[c] \notin Served))
    BY DEF NoLateService
  <1>1. shutdown /\ stage[c] \in Unaccepted => Late(c)
    BY DEF Late
  <1>2. IInv /\ Late(c) /\ [Next]_vars => Late(c)'
    BY LateStays
  <1>3. Late(c) => stage[c] \notin Served
    BY DEF Late, Unaccepted, Served, Admitted
  <1> QED BY <1>1, <1>2, <1>3, Invariant, PTL DEF Spec

----------------------------------------------------------------------------
(***************************************************************************)
(* How far a thread still goes once it has to stop: the listener once      *)
(* shutdown is requested, the owner of a permit once its client has gone.  *)
(***************************************************************************)

\* The most places the listener still leaves before run_listener is over.
PlacesLeft ==
  CASE listener \in {"returned", "failed"} -> 0
    [] listener = "join" -> 1
    [] listener \in {"poll", "recheck"} -> 2
    [] listener \in {"accept", "spawn"} -> 3
    [] listener = "cas" -> 4
    [] listener = "load" -> 5

ListenerWindsDown == shutdown /\ listener' # listener => PlacesLeft' < PlacesLeft

\* The most stages a connection still leaves before its permit is back, when it is
\* cancelled: the body is read, the route is tried, a stream is looked at once.
StagesToRelease(c) ==
  CASE stage[c] = "watch" -> 4
    [] stage[c] = "body" -> 3
    [] stage[c] \in {"work", "pull"} -> 2
    [] stage[c] = "stream" -> 1
    [] stage[c] \notin Admitted -> 0

ReleaseNears(c) ==
  cancelled[c] /\ permit[c] /\ stage'[c] # stage[c]
    => StagesToRelease(c)' < StagesToRelease(c)

\* What the count of the listener is at each of its places.
LEMMA PlacesAre ==
  ASSUME TypeOK
  PROVE  /\ PlacesLeft \in 0 .. 5
         /\ PlacesLeft = 0 <=> listener \in {"returned", "failed"}
  BY DEF TypeOK, ListenerStages, PlacesLeft

\* Where the listener may go once shutdown is requested: not from the loop's head to
\* accept, and not from its second look at the flag to a slot.
LEMMA WaysAfterShutdown ==
  ASSUME IInv, shutdown, [Next]_vars, listener' # listener
  PROVE  \/ listener = "poll" /\ listener' = "join"
         \/ listener = "accept" /\ listener' \in {"recheck", "poll", "failed"}
         \/ listener = "recheck" /\ listener' = "join"
         \/ listener = "load" /\ listener' \in {"poll", "cas"}
         \/ listener = "cas" /\ listener' \in {"poll", "spawn"}
         \/ listener = "spawn" /\ listener' \in {"poll", "failed"}
         \/ listener = "join" /\ listener' = "returned"
  <1>1. Listener
    <2>1. ASSUME NEW c \in Conns, Environment(c) \/ Worker(c) \/ Watcher(c)
          PROVE  listener' = listener
      <3>1. CASE Environment(c) \/ Watcher(c)
        BY <3>1 DEF Environment, Connect, PeerCloses, Watcher, WatcherSeesClose, WatcherStops,
                    WatcherStep, WorkerStep, listenerVars
      <3>2. CASE Worker(c)
        BY <3>2 DEF Worker, Admission, Generation, Delivery, Teardown, HeadFails, AnswerHead,
             AdmitChat, LoadAvailable, RetryPermit, AcquireFrom, TakePermit, StartWatcher,
             WatcherPanics, BodyRefused, AnswerFrom, BodyBuffered, AnswerChat, CommitStream,
             PullChunk, ChunkArrives, StreamSeesCancellation, StreamWriteFails, StreamEnds,
             FinishStream, WriteResponse, JoinWatcher, ReleaseSlot, WorkerStep
      <3> QED BY <2>1, <3>1, <3>2
    <2> QED BY <2>1 DEF Next, RequestShutdown, listenerVars, vars
  <1>2. ASSUME NEW c \in Conns, AcceptLoop(c)
        PROVE  \/ listener = "accept" /\ listener' = "recheck"
               \/ listener = "recheck" /\ listener' = "join"
               \/ listener = "load" /\ listener' \in {"poll", "cas"}
               \/ listener = "cas" /\ listener' \in {"poll", "cas"}
               \/ listener = "spawn" /\ listener' \in {"poll", "failed"}
    BY <1>2 DEF AcceptLoop, Accept, Recheck, LoadActive, RetrySlot, ReserveFrom, Spawn,
                SpawnPanics, ListenerStep
  <1>3. CASE \E c \in Conns : AcceptLoop(c)
    BY <1>2, <1>3
  <1>4. CASE ~(\E c \in Conns : AcceptLoop(c))
    BY <1>1, <1>4 DEF Listener, LeaveLoop, EnterLoop, AcceptNothing, AcceptFails, ReserveSlot,
                      JoinWorkers, Exit, ListenerStep, listenerVars
  <1> QED BY <1>3, <1>4

\* After a signal run_listener leaves at most five more places before it returns: the
\* connection it has in hand is served or refused, and the loop's body not entered again.
THEOREM ListenerStopsSoon ==
  /\ Spec => [](PlacesLeft \in 0 .. 5)
  /\ Spec => [](PlacesLeft = 0 <=> listener \in {"returned", "failed"})
  /\ Spec => [][ListenerWindsDown]_vars
  <1>1. TypeOK => /\ PlacesLeft \in 0 .. 5
                  /\ PlacesLeft = 0 <=> listener \in {"returned", "failed"}
    BY PlacesAre
  <1>2. IInv /\ [Next]_vars => [ListenerWindsDown]_vars
    <2> SUFFICES ASSUME IInv, [Next]_vars, shutdown, listener' # listener
                 PROVE  PlacesLeft' < PlacesLeft
      BY DEF ListenerWindsDown
    <2> QED BY WaysAfterShutdown DEF PlacesLeft
  <1> QED BY <1>1, <1>2, TypeCorrect, Invariant, PTL DEF Spec

\* Where the owner of a permit may go once it is cancelled: a stream that was not
\* committed is not any more, and a committed one pulls no further chunk.
LEMMA WaysAfterCancellation ==
  ASSUME IInv, NEW c \in Conns, cancelled[c], permit[c], [Next]_vars, stage'[c] # stage[c]
  PROVE  \/ stage[c] = "watch" /\ stage'[c] \in {"body", "close"}
         \/ stage[c] = "body" /\ stage'[c] \in {"work", "write"}
         \/ stage[c] = "work" /\ stage'[c] = "write"
         \/ stage[c] = "pull" /\ stage'[c] = "stream"
         \/ stage[c] = "stream" /\ stage'[c] = "unwatch"
  <1>1. stage \in [Conns -> Stages] /\ stage[c] \in Admitted
    BY DEF IInv, TypeOK, PermitStages
  <1>2. ~UNCHANGED stage
    OBVIOUS
  <1>3. ~Listener
    <2>1. ASSUME NEW d \in Conns, AcceptLoop(d) PROVE stage'[c] = stage[c]
      <3>1. /\ stage[d] \in {"backlog", "accepted"}
            /\ \A e \in Conns : e # d => stage'[e] = stage[e]
        BY <1>1, <2>1 DEF AcceptLoop, Accept, Recheck, LoadActive, RetrySlot, ReserveFrom,
                          Refuse, Spawn, SpawnPanics
      <3> QED BY <1>1, <3>1 DEF Admitted
    <2>2. LeaveLoop \/ EnterLoop \/ AcceptNothing \/ AcceptFails \/ ReserveSlot
            \/ JoinWorkers \/ Exit => UNCHANGED stage
      BY DEF LeaveLoop, EnterLoop, AcceptNothing, AcceptFails, ReserveSlot, JoinWorkers, Exit
    <2> QED BY <1>2, <2>1, <2>2 DEF Listener
  <1>4. \A d \in Conns : ~Watcher(d) /\ ~PeerCloses(d)
    BY <1>2 DEF Watcher, WatcherSeesClose, WatcherStops, PeerCloses, WatcherStep
  <1>5. PICK d \in Conns : Connect(d) \/ Worker(d)
    BY <1>2, <1>3, <1>4 DEF Next, RequestShutdown, Environment, vars
  <1>6. \A e \in Conns : e # d => stage'[e] = stage[e]
    BY <1>1, <1>5
    DEF Connect, Worker, Admission, Generation, Delivery, Teardown, HeadFails, AnswerHead,
        AdmitChat, LoadAvailable, RetryPermit, AcquireFrom, TakePermit, StartWatcher,
        WatcherPanics, BodyRefused, AnswerFrom, BodyBuffered, AnswerChat, CommitStream,
        PullChunk, ChunkArrives, StreamSeesCancellation, StreamWriteFails, StreamEnds,
        FinishStream, WriteResponse, JoinWatcher, ReleaseSlot, WorkerStep
  <1>7. c = d
    BY <1>6
  <1>8. CASE Connect(c) \/ Admission(c) \/ Teardown(c)
    BY <1>1, <1>8
    DEF Connect, Admission, Teardown, HeadFails, AnswerHead, AdmitChat, LoadAvailable,
        RetryPermit, AcquireFrom, TakePermit, WriteResponse, JoinWatcher, ReleaseSlot,
        WorkerStep, Admitted
  <1>9. CASE Generation(c)
    BY <1>1, <1>9
    DEF Generation, StartWatcher, WatcherPanics, BodyRefused, AnswerFrom, BodyBuffered,
        AnswerChat, CommitStream, WorkerStep
  <1>10. CASE Delivery(c)
    BY <1>1, <1>10
    DEF Delivery, PullChunk, ChunkArrives, StreamSeesCancellation, StreamWriteFails,
        StreamEnds, FinishStream, WorkerStep
  <1> QED BY <1>5, <1>7, <1>8, <1>9, <1>10 DEF Worker

\* Once its flag is set, a request gives its permit back within the four stages that
\* are left to it, whatever other threads do: nothing takes it back to an earlier one,
\* to another chunk or to a new stream.
THEOREM PermitComesBackSoon ==
  \A c \in Conns :
    /\ Spec => [](StagesToRelease(c) \in 0 .. 4)
    /\ Spec => [](StagesToRelease(c) = 0 <=> ~permit[c])
    /\ Spec => [][ReleaseNears(c)]_vars
  <1> TAKE c \in Conns
  <1>1. IInv => /\ StagesToRelease(c) \in 0 .. 4
                /\ StagesToRelease(c) = 0 <=> ~permit[c]
    <2> SUFFICES ASSUME IInv
                 PROVE  /\ StagesToRelease(c) \in 0 .. 4
                        /\ StagesToRelease(c) = 0 <=> ~permit[c]
      OBVIOUS
    <2>1. permit[c] <=> stage[c] \in Admitted
      BY DEF IInv, PermitStages
    <2>2. /\ StagesToRelease(c) \in 0 .. 4
          /\ StagesToRelease(c) = 0 <=> stage[c] \notin Admitted
      BY DEF StagesToRelease, Admitted
    <2> QED BY <2>1, <2>2
  <1>2. IInv /\ [Next]_vars => [ReleaseNears(c)]_vars
    <2> SUFFICES ASSUME IInv, [Next]_vars, cancelled[c], permit[c], stage'[c] # stage[c]
                 PROVE  StagesToRelease(c)' < StagesToRelease(c)
      BY DEF ReleaseNears
    <2> QED BY WaysAfterCancellation DEF StagesToRelease, Admitted
  <1> QED BY <1>1, <1>2, Invariant, PTL DEF Spec

=============================================================================
