------------------------- MODULE DurableSessionProofs ------------------------
(***************************************************************************)
(* Proofs about DurableSession, and about the close protocol of module     *)
(* SessionClose that works on it, for every set of owners, closers and     *)
(* operations, every duration, every clock skew and every bound.           *)
(***************************************************************************)
EXTENDS SessionClose, WellFoundedInduction, TLAPS

(* Max and Min of a pair, as Renew, RefreshClose and Tick use them.         *)
LEMMA MaxPair ==
    ASSUME NEW a \in Int, NEW b \in Int
    PROVE  /\ Max({a, b}) \in {a, b}
           /\ Max({a, b}) >= a
           /\ Max({a, b}) >= b
<1>1. \E x \in {a, b} : \A y \in {a, b} : x >= y
  <2>1. CASE a >= b
    BY <2>1
  <2>2. CASE ~(a >= b)
    BY <2>2
  <2> QED BY <2>1, <2>2
<1>2. /\ Max({a, b}) \in {a, b}
      /\ \A y \in {a, b} : Max({a, b}) >= y
  BY <1>1 DEF Max
<1> QED BY <1>2

LEMMA MinPair ==
    ASSUME NEW a \in Int, NEW b \in Int
    PROVE  /\ Min({a, b}) \in {a, b}
           /\ Min({a, b}) <= a
           /\ Min({a, b}) <= b
<1>1. \E x \in {a, b} : \A y \in {a, b} : x =< y
  <2>1. CASE a <= b
    BY <2>1
  <2>2. CASE ~(a <= b)
    BY <2>2
  <2> QED BY <2>1, <2>2
<1>2. /\ Min({a, b}) \in {a, b}
      /\ \A y \in {a, b} : Min({a, b}) =< y
  BY <1>1 DEF Min
<1> QED BY <1>2

-----------------------------------------------------------------------------
(* Type correctness.                                                        *)

LEMMA InitTypeOK == Init => TypeOK
BY DurationAssumption, BoundAssumption, IdentityAssumption
   DEF Init, RegistryInit, TypeOK, NoRow, SessionRow, NoGeneration,
       CheckpointGeneration, Principals, Revisions, Ticks, Horizon, Idle,
       SaverOperation

LEMMA CountdownType == ASSUME NEW n \in Ticks PROVE Countdown(n) \in Ticks
<1>1. n - 1 \in Int /\ 0 - Skew \in Int
  BY DurationAssumption DEF Ticks, Horizon
<1>2. Countdown(n) \in {n - 1, 0 - Skew} /\ Countdown(n) >= 0 - Skew
  BY <1>1, MaxPair DEF Countdown
<1> QED BY <1>2, DurationAssumption DEF Ticks, Horizon

LEMMA AgeType == ASSUME NEW n \in 0..Skew PROVE Min({n + 1, Skew}) \in 0..Skew
<1>1. n + 1 \in Nat /\ n + 1 \in Int /\ Skew \in Nat /\ Skew \in Int
  BY DurationAssumption
<1>2. /\ Min({n + 1, Skew}) \in {n + 1, Skew}
      /\ Min({n + 1, Skew}) <= Skew
  BY <1>1, MinPair
<1> QED BY <1>1, <1>2

LEMMA StepTypeOK == TypeOK /\ [Next]_vars => TypeOK'
<1> SUFFICES ASSUME TypeOK, [Next]_vars PROVE TypeOK'
  OBVIOUS
<1>row. row \in SessionRow
  BY DEF TypeOK
<1>gens. gens \in [Principals -> CheckpointGeneration]
  BY DEF TypeOK
<1>ints. /\ row.lease \in Ticks /\ row.life \in Ticks
         /\ row.lease \in Int /\ row.life \in Int
         /\ row.fence \in 0..MaxFence /\ row.fence \in Int
         /\ row.revision \in 0..MaxRevision /\ row.revision \in Int
         /\ row.principal \in Principals /\ row.principal \in Int
         /\ row.ns \in Principals
         /\ quiet \in 0..Skew /\ Skew \in Nat
  BY <1>row, DurationAssumption, BoundAssumption
  DEF TypeOK, SessionRow, Ticks, Principals, Revisions
<1>zero. 0 \in Ticks /\ 0 \in Principals /\ 0 \in Revisions /\ 0 \in 0..MaxFence
         /\ LeaseDuration \in Ticks /\ Retention \in Ticks /\ LeaseDuration \in Int
  BY DurationAssumption, BoundAssumption DEF Ticks, Horizon, Principals, Revisions
<1>take. ASSUME NEW op \in CloseOps, NEW k \in CloseOwners, NEW s \in 0..quiet,
                TakeCloseLease(op, k, s), UNCHANGED saver
         PROVE  TypeOK'
  <2>1. CloseDuration - s \in Ticks
    BY <1>ints, DurationAssumption DEF Ticks, Horizon
  <2>2. row.fence + 1 \in 0..MaxFence /\ row.fence + 1 \in Fences
    BY <1>take, <1>ints, BoundAssumption DEF TakeCloseLease, Fences
  <2>3. row' \in SessionRow
    BY <1>take, <1>row, <2>1, <2>2 DEF TakeCloseLease, SessionRow
  <2>4. claims' \subseteq SessionCloseAuthority
    BY <1>take, <2>2 DEF TakeCloseLease, TypeOK, SessionCloseAuthority
  <2>5. quiet' \in 0..Skew
    BY <1>take, <1>ints DEF TakeCloseLease
  <2> QED BY <1>take, <2>3, <2>4, <2>5 DEF TakeCloseLease, TypeOK
<1>1. ASSUME NEW o \in LeaseOwners, RegisterAndAcquire(o), UNCHANGED saver
      PROVE  TypeOK'
  <2>1. EnvelopeContext(0, 0) \in EnvelopeContexts /\ InitialFence \in 0..MaxFence
    BY <1>zero, BoundAssumption DEF EnvelopeContext, EnvelopeContexts, InitialFence
  <2>2. row' \in SessionRow
    BY <1>1, <2>1, <1>zero DEF RegisterAndAcquire, NoRow, SessionRow
  <2>3. gens' \in [Principals -> CheckpointGeneration]
    BY <1>1, <1>gens, <1>zero DEF RegisterAndAcquire, NoGeneration, CheckpointGeneration
  <2>4. quiet' \in 0..Skew
    BY <1>1, <1>ints DEF RegisterAndAcquire
  <2> QED BY <1>1, <2>2, <2>3, <2>4 DEF RegisterAndAcquire, TypeOK
<1>2. ASSUME NEW o \in LeaseOwners, Activate(o), UNCHANGED saver
      PROVE  TypeOK'
  <2>1. row' \in SessionRow
    BY <1>2, <1>row DEF Activate, SessionRow
  <2>2. quiet' \in 0..Skew
    BY <1>2, <1>ints DEF Activate
  <2> QED BY <1>2, <2>1, <2>2 DEF Activate, TypeOK
<1>3. ASSUME NEW o \in LeaseOwners, Renew(o), UNCHANGED saver
      PROVE  TypeOK'
  <2>1. /\ Min({row.life, LeaseDuration}) \in Ticks
        /\ Min({row.life, LeaseDuration}) \in Int
    BY <1>ints, <1>zero, MinPair
  <2>2. Max({row.lease, Min({row.life, LeaseDuration})}) \in Ticks
    BY <2>1, <1>ints, MaxPair
  <2>3. row' \in SessionRow
    BY <1>3, <1>row, <2>2 DEF Renew, SessionRow
  <2>4. quiet' \in 0..Skew
    BY <1>3, <1>ints DEF Renew
  <2> QED BY <1>3, <2>3, <2>4 DEF Renew, TypeOK
<1>4. ASSUME NEW o \in LeaseOwners, NEW op \in Operations,
             NEW m \in Transitions \cup {NONE}, Publish(o, op, m), UNCHANGED saver
      PROVE  TypeOK'
  <2>1. row.revision + 1 \in Revisions
    BY <1>4, <1>ints, BoundAssumption DEF Publish, Revisions
  <2>2. EnvelopeContext(row.ns, row.revision + 1) \in EnvelopeContexts
    BY <2>1, <1>ints DEF EnvelopeContext, EnvelopeContexts
  <2>3. row' \in SessionRow
    BY <1>4, <1>row, <2>1, <2>2 DEF Publish, SessionRow
  <2>4. receipts' \subseteq Receipt
    BY <1>4, <1>ints, <2>1 DEF Publish, TypeOK, Receipt
  <2>5. quiet' \in 0..Skew
    BY <1>4, <1>ints DEF Publish
  <2> QED BY <1>4, <2>3, <2>4, <2>5 DEF Publish, TypeOK
<1>5. ASSUME NEW o \in LeaseOwners, NEW t \in Transitions, NEW s \in 0..quiet,
             BeginCheckpointRotation(o, t, s), UNCHANGED saver
      PROVE  TypeOK'
  <2>1. row.revision \in Revisions
    BY <1>ints DEF Revisions
  <2>2. gens' \in [Principals -> CheckpointGeneration]
    BY <1>5, <1>gens, <2>1 DEF BeginCheckpointRotation, CheckpointGeneration
  <2> QED BY <1>5, <2>2 DEF BeginCheckpointRotation, TypeOK
<1>6. ASSUME NEW o \in LeaseOwners, NEW t \in Transitions,
             SwitchCheckpointGeneration(o, t), UNCHANGED saver
      PROVE  TypeOK'
  <2>1. PICK p \in Principals :
           /\ gens' = [gens EXCEPT ![p - 1].state = "retired", ![p].state = "current"]
           /\ row' = [row EXCEPT !.ns = p, !.principal = p,
                                 !.envelope = EnvelopeContext(p, row.revision)]
    BY <1>6 DEF SwitchCheckpointGeneration
  <2>2. EnvelopeContext(p, row.revision) \in EnvelopeContexts
    BY <1>ints DEF EnvelopeContext, EnvelopeContexts, Revisions
  <2>3. row' \in SessionRow
    BY <2>1, <2>2, <1>row DEF SessionRow
  <2>4. gens' \in [Principals -> CheckpointGeneration]
    BY <2>1, <1>gens DEF CheckpointGeneration
  <2>5. quiet' \in 0..Skew
    BY <1>6, <1>ints DEF SwitchCheckpointGeneration
  <2> QED BY <1>6, <2>3, <2>4, <2>5 DEF SwitchCheckpointGeneration, TypeOK
<1>7. ASSUME NEW o \in LeaseOwners, NEW t \in Transitions, NEW s \in 0..quiet,
             RecordCheckpointDeletion(o, t, s), UNCHANGED saver
      PROVE  TypeOK'
  <2>1. PICK p \in Principals : gens' = [gens EXCEPT ![p - 1].state = "deleted"]
    BY <1>7 DEF RecordCheckpointDeletion
  <2>2. gens' \in [Principals -> CheckpointGeneration]
    BY <2>1, <1>gens DEF CheckpointGeneration
  <2> QED BY <1>7, <2>2 DEF RecordCheckpointDeletion, TypeOK
<1>8. ASSUME NEW o \in LeaseOwners, NEW op \in CloseOps, NEW k \in CloseOwners,
             NEW s \in 0..quiet, BeginClose(o, op, k, s), UNCHANGED saver
      PROVE  TypeOK'
  BY <1>8, <1>take DEF BeginClose
<1>9. ASSUME NEW op \in CloseOps, NEW k \in CloseOwners, NEW s \in 0..quiet,
             ClaimExpired(op, k, s), UNCHANGED saver
      PROVE  TypeOK'
  BY <1>9, <1>take DEF ClaimExpired
<1>10. ASSUME NEW c \in claims, NEW s \in 0..quiet, RefreshClose(c, s), UNCHANGED saver
       PROVE  TypeOK'
  <2>1. c.op \in CloseOps /\ c.owner \in CloseOwners
    BY DEF TypeOK, SessionCloseAuthority
  <2>2. CASE TakeCloseLease(c.op, c.owner, s)
    BY <1>10, <1>take, <2>1, <2>2
  <2>3. CASE /\ row' = [row EXCEPT !.lease = Max({row.lease, CloseDuration - s})]
             /\ quiet' = 0
             /\ UNCHANGED <<gens, receipts, storage, issued, claims>>
    <3>1. CloseDuration - s \in Ticks /\ CloseDuration - s \in Int
      BY <1>ints, DurationAssumption DEF Ticks, Horizon
    <3>2. Max({row.lease, CloseDuration - s}) \in Ticks
      BY <3>1, <1>ints, MaxPair
    <3>3. row' \in SessionRow
      BY <2>3, <3>2, <1>row DEF SessionRow
    <3>4. quiet' \in 0..Skew
      BY <2>3, <1>ints
    <3> QED BY <1>10, <2>3, <3>3, <3>4 DEF TypeOK
  <2> QED BY <1>10, <2>2, <2>3 DEF RefreshClose
<1>11. ASSUME NEW c \in claims, NEW s \in 0..quiet, NEW p \in Principals,
              RecordCloseCheckpointDeletion(c, p, s), UNCHANGED saver
       PROVE  TypeOK'
  <2>1. gens' \in [Principals -> CheckpointGeneration]
    BY <1>11, <1>gens DEF RecordCloseCheckpointDeletion, CheckpointGeneration
  <2> QED BY <1>11, <2>1 DEF RecordCloseCheckpointDeletion, TypeOK
<1>12. ASSUME NEW c \in claims, NEW s \in 0..quiet, FinalizeClose(c, s), UNCHANGED saver
       PROVE  TypeOK'
  <2>1. Tombstone - s \in Ticks
    BY <1>ints, DurationAssumption DEF Ticks, Horizon
  <2>2. row' \in SessionRow
    BY <1>12, <2>1, <1>row, <1>zero DEF FinalizeClose, SessionRow
  <2>3. gens' \in [Principals -> CheckpointGeneration]
    BY <1>12, <1>zero DEF FinalizeClose, NoGeneration, CheckpointGeneration
  <2>4. quiet' \in 0..Skew /\ receipts' \subseteq Receipt
    BY <1>12, <1>ints DEF FinalizeClose
  <2> QED BY <1>12, <2>2, <2>3, <2>4 DEF FinalizeClose, TypeOK
<1>13. ASSUME PurgeClosedTombstones, UNCHANGED saver
       PROVE  TypeOK'
  <2>1. row' \in SessionRow
    BY <1>13, <1>zero DEF PurgeClosedTombstones, NoRow, SessionRow
  <2>2. quiet' \in 0..Skew
    BY <1>13, <1>ints DEF PurgeClosedTombstones
  <2> QED BY <1>13, <2>1, <2>2 DEF PurgeClosedTombstones, TypeOK
<1>14. ASSUME NEW o \in LeaseOwners, NEW kind \in {"write", "delete"},
              NEW p \in Principals, BeginOperation(o, kind, p)
       PROVE  TypeOK'
  <2>1. gens[p].state \in {"absent", "pending", "current", "retired", "deleted"}
    BY <1>gens DEF CheckpointGeneration
  <2>2. 0 \in 0..Skew
    BY <1>ints
  <2>3. saver' \in [LeaseOwners -> SaverOperation]
    BY <1>14, <2>1, <2>2 DEF BeginOperation, TypeOK, SaverOperation
  <2> QED BY <1>14, <2>3 DEF BeginOperation, registryVars, TypeOK
<1>idle. Idle \in SaverOperation
  BY <1>ints, <1>zero DEF Idle, SaverOperation
<1>15. ASSUME NEW o \in LeaseOwners, NEW s \in 0..quiet, CommitOperation(o, s)
       PROVE  TypeOK'
  <2>1. saver' \in [LeaseOwners -> SaverOperation]
    BY <1>15, <1>idle DEF CommitOperation, TypeOK
  <2>2. storage' \in [Principals -> BOOLEAN]
    BY <1>15 DEF CommitOperation, TypeOK
  <2> QED BY <1>15, <2>1, <2>2 DEF CommitOperation, TypeOK
<1>16. ASSUME NEW o \in LeaseOwners, RollbackOperation(o)
       PROVE  TypeOK'
  <2>1. saver' \in [LeaseOwners -> SaverOperation]
    BY <1>16, <1>idle DEF RollbackOperation, TypeOK
  <2> QED BY <1>16, <2>1 DEF RollbackOperation, registryVars, TypeOK
<1>17. ASSUME NEW c \in claims, NEW s \in 0..quiet, NEW p \in Principals,
              CloseDelete(c, p, s)
       PROVE  TypeOK'
  <2>1. storage' \in [Principals -> BOOLEAN]
    BY <1>17 DEF CloseDelete, TypeOK
  <2> QED BY <1>17, <2>1 DEF CloseDelete, TypeOK
<1>18. CASE Tick
  <2>1. Countdown(row.lease) \in Ticks /\ Countdown(row.life) \in Ticks
    BY CountdownType, <1>ints
  <2>2. row' \in SessionRow
    BY <1>18, <2>1, <1>row DEF Tick, RegistryTick, SessionRow
  <2>3. quiet' \in 0..Skew
    BY <1>18, <1>ints, AgeType DEF Tick, RegistryTick
  <2>4. ASSUME NEW o \in LeaseOwners
        PROVE  [saver[o] EXCEPT !.age = Min({saver[o].age + 1, Skew})] \in SaverOperation
    <3>1. saver[o] \in SaverOperation /\ saver[o].age \in 0..Skew
      BY DEF TypeOK, SaverOperation
    <3>2. Min({saver[o].age + 1, Skew}) \in 0..Skew
      BY <3>1, AgeType
    <3> QED BY <3>1, <3>2 DEF SaverOperation
  <2>5. saver' \in [LeaseOwners -> SaverOperation]
    BY <1>18, <2>4 DEF Tick, TypeOK
  <2> QED BY <1>18, <2>2, <2>3, <2>5 DEF Tick, RegistryTick, TypeOK
<1>19. CASE UNCHANGED vars
  BY <1>19 DEF vars, TypeOK
<1> QED
  BY <1>1, <1>2, <1>3, <1>4, <1>5, <1>6, <1>7, <1>8, <1>9, <1>10, <1>11, <1>12,
     <1>13, <1>14, <1>15, <1>16, <1>17, <1>18, <1>19
  DEF Next, RegistryStep, LeaseStep, SaverStep

(* Every reachable state of the tables and of the savers is well typed.     *)
THEOREM TypeCorrect == Spec => []TypeOK
BY InitTypeOK, StepTypeOK, PTL DEF Spec

-----------------------------------------------------------------------------
(* The inductive invariant: one lemma for each kind of transaction.         *)

LEMMA InitIInv == Init => IInv
<1> SUFFICES ASSUME Init PROVE IInv
  OBVIOUS
<1>1. TypeOK
  BY InitTypeOK
<1>2. RowValid /\ PayloadReadable /\ InventoryConsistent /\ RotationConsistent
      /\ ReceiptsExplainRevision
  BY DEF Init, RegistryInit, NoRow, Open, RowValid, PayloadReadable,
         InventoryConsistent, RotationConsistent, ReceiptsExplainRevision
<1>3. ClosedRetainsNothing /\ SaverAnchored
  BY DEF Init, RegistryInit, NoRow, Open, Idle, ClosedRetainsNothing, SaverAnchored
<1> QED BY <1>1, <1>2, <1>3 DEF IInv

(* Everything but the two countdowns is as it was.                          *)
OnlyTimers ==
    /\ row'.lifecycle = row.lifecycle /\ row'.fence = row.fence
    /\ row'.owner = row.owner /\ row'.closeOp = row.closeOp
    /\ row'.ns = row.ns /\ row'.principal = row.principal
    /\ row'.revision = row.revision /\ row'.marker = row.marker
    /\ row'.envelope = row.envelope
    /\ UNCHANGED <<gens, receipts, storage, issued, claims>>
    /\ \A o \in LeaseOwners :
         saver'[o].kind = saver[o].kind /\ saver'[o].gen = saver[o].gen

LEMMA TimersKeepIInv ==
    ASSUME IInv, TypeOK', OnlyTimers,
           row.lifecycle \in Open => row'.lease <= row'.life
    PROVE  IInv'
<1>1. RowValid'
  BY DEF IInv, OnlyTimers, RowValid
<1>2. PayloadReadable'
  BY DEF IInv, OnlyTimers, PayloadReadable
<1>3. InventoryConsistent'
  BY DEF IInv, OnlyTimers, InventoryConsistent
<1>4. RotationConsistent'
  BY DEF IInv, OnlyTimers, RotationConsistent
<1>5. ReceiptsExplainRevision'
  BY DEF IInv, OnlyTimers, ReceiptsExplainRevision
<1>6. ClosedRetainsNothing'
  BY DEF IInv, OnlyTimers, ClosedRetainsNothing
<1>7. SaverAnchored'
  BY DEF IInv, OnlyTimers, SaverAnchored
<1> QED BY <1>1, <1>2, <1>3, <1>4, <1>5, <1>6, <1>7 DEF IInv

LEMMA RegisterKeepsIInv ==
    ASSUME IInv, TypeOK', NEW o \in LeaseOwners, RegisterAndAcquire(o), UNCHANGED saver
    PROVE  IInv'
<1>1. /\ row'.lifecycle = "opening" /\ row'.fence = InitialFence /\ row'.owner = o
      /\ row'.lease = LeaseDuration /\ row'.life = Retention /\ row'.closeOp = NONE
      /\ row'.ns = 0 /\ row'.principal = 0 /\ row'.revision = 0
      /\ row'.envelope = EnvelopeContext(0, 0)
  BY DEF RegisterAndAcquire, NoRow
<1>2. /\ row.lifecycle = "absent" /\ receipts = {}
      /\ \A p \in Principals : gens[p] = NoGeneration /\ ~storage[p]
  BY DEF IInv, ClosedRetainsNothing, RegisterAndAcquire
<1>3. \A p \in Principals :
         /\ p = 0 => gens'[p].state = "current"
         /\ p # 0 => gens'[p].state = "absent"
  BY <1>2 DEF RegisterAndAcquire, NoGeneration, IInv, TypeOK
<1>4. o # NONE
  BY IdentityAssumption
<1>5. RowValid'
  BY <1>1, <1>4, DurationAssumption DEF RegisterAndAcquire, RowValid, Open, InitialFence
<1>6. PayloadReadable'
  BY <1>1 DEF PayloadReadable
<1>7. InventoryConsistent'
  BY <1>1, <1>3 DEF InventoryConsistent, Principals
<1>8. RotationConsistent'
  BY <1>3 DEF RotationConsistent
<1>9. ReceiptsExplainRevision'
  BY <1>1, <1>2 DEF ReceiptsExplainRevision, RegisterAndAcquire
<1>10. ClosedRetainsNothing'
  BY <1>1, <1>2 DEF ClosedRetainsNothing, RegisterAndAcquire
<1>11. SaverAnchored'
  BY <1>1 DEF SaverAnchored, RegisterAndAcquire, IInv
<1> QED BY <1>5, <1>6, <1>7, <1>8, <1>9, <1>10, <1>11 DEF IInv

LEMMA ActivateKeepsIInv ==
    ASSUME IInv, TypeOK', NEW o \in LeaseOwners, Activate(o), UNCHANGED saver
    PROVE  IInv'
<1>1. /\ row.lifecycle = "opening" /\ row'.lifecycle = "active"
      /\ row'.fence = row.fence /\ row'.owner = row.owner /\ row'.closeOp = row.closeOp
      /\ row'.lease = row.lease /\ row'.life = row.life
      /\ row'.ns = row.ns /\ row'.principal = row.principal
      /\ row'.revision = row.revision /\ row'.marker = row.marker
      /\ row'.envelope = row.envelope
      /\ UNCHANGED <<gens, receipts, storage, issued, claims>>
  BY DEF Activate, IInv, TypeOK, SessionRow
<1>2. RowValid'
  BY <1>1 DEF IInv, RowValid, Open
<1>3. PayloadReadable'
  BY <1>1 DEF IInv, PayloadReadable, Open
<1>4. InventoryConsistent'
  BY <1>1 DEF IInv, InventoryConsistent, Open
<1>5. RotationConsistent'
  BY <1>1 DEF IInv, RotationConsistent, Open
<1>6. ReceiptsExplainRevision'
  BY <1>1 DEF IInv, ReceiptsExplainRevision, Open
<1>7. ClosedRetainsNothing'
  BY <1>1 DEF IInv, ClosedRetainsNothing
<1>8. SaverAnchored'
  BY <1>1 DEF IInv, SaverAnchored, Open
<1> QED BY <1>2, <1>3, <1>4, <1>5, <1>6, <1>7, <1>8 DEF IInv

LEMMA RenewKeepsIInv ==
    ASSUME IInv, TypeOK', NEW o \in LeaseOwners, Renew(o), UNCHANGED saver
    PROVE  IInv'
<1>1. OnlyTimers /\ row'.life = row.life
      /\ row'.lease = Max({row.lease, Min({row.life, LeaseDuration})})
  BY DEF Renew, OnlyTimers, IInv, TypeOK, SessionRow
<1>2. row.lease \in Int /\ row.life \in Int /\ LeaseDuration \in Int
  BY DurationAssumption DEF IInv, TypeOK, SessionRow, Ticks
<1>3. row.lifecycle \in Open /\ row.lease <= row.life
  BY DEF Renew, LeaseAuthorized, IInv, RowValid
<1>4. /\ Min({row.life, LeaseDuration}) \in Int
      /\ Min({row.life, LeaseDuration}) <= row.life
  BY <1>2, MinPair
<1>5. row'.lease <= row'.life
  BY <1>1, <1>2, <1>3, <1>4, MaxPair
<1> QED BY <1>1, <1>5, TimersKeepIInv

LEMMA PublishKeepsIInv ==
    ASSUME IInv, TypeOK', NEW o \in LeaseOwners, NEW op \in Operations,
           NEW m \in Transitions \cup {NONE}, Publish(o, op, m), UNCHANGED saver
    PROVE  IInv'
<1>1. /\ row.lifecycle = "active" /\ row'.lifecycle = row.lifecycle
      /\ row'.fence = row.fence /\ row'.owner = row.owner /\ row'.closeOp = row.closeOp
      /\ row'.lease = row.lease /\ row'.life = row.life
      /\ row'.ns = row.ns /\ row'.principal = row.principal
      /\ row'.revision = row.revision + 1 /\ row'.marker = m
      /\ row'.envelope = EnvelopeContext(row.ns, row.revision + 1)
      /\ UNCHANGED <<gens, storage, issued, claims>>
  BY DEF Publish, IInv, TypeOK, SessionRow
<1>2. row.revision \in Nat /\ row.ns \in Int
  BY DEF IInv, TypeOK, SessionRow, Revisions, Principals
<1>3. RowValid'
  BY <1>1 DEF IInv, RowValid
<1>4. PayloadReadable'
  BY <1>1 DEF PayloadReadable
<1>5. InventoryConsistent'
  BY <1>1 DEF IInv, InventoryConsistent
<1>6. RotationConsistent'
  <2>1. ASSUME NEW p \in Principals \ {0}, gens[p].state # "absent"
        PROVE  /\ gens[p].state # "pending"
               /\ gens[p].transition # NONE
               /\ gens[p].source <= row.revision + 1
               /\ \A q \in Principals : gens[q].transition = gens[p].transition => q = p
    <3>1. gens[p].source \in Int
      BY DEF IInv, TypeOK, CheckpointGeneration, Revisions
    <3> QED BY <1>1, <1>2, <2>1, <3>1
        DEF Publish, RotationPending, IInv, RotationConsistent, Open
  <2> QED BY <1>1, <2>1 DEF RotationConsistent
<1>7. ReceiptsExplainRevision'
  <2> DEFINE new == [op |-> op, revision |-> row.revision + 1, ns |-> row.ns]
  <2>1. receipts' = receipts \cup {new} /\ \A r \in receipts : r.op # op
    BY DEF Publish
  <2>2. /\ \A n \in 1..row.revision : \E r \in receipts : r.revision = n
        /\ \A r \in receipts : r.revision \in 1..row.revision /\ r.ns <= row.ns
        /\ \A q, r \in receipts : (q.revision = r.revision \/ q.op = r.op) => q = r
        /\ \A q, r \in receipts : q.revision <= r.revision => q.ns <= r.ns
    BY <1>1 DEF IInv, ReceiptsExplainRevision, Open
  <2>3. new.op = op /\ new.revision = row.revision + 1 /\ new.ns = row.ns
    OBVIOUS
  <2> HIDE DEF new
  <2>4. \A n \in 1..(row.revision + 1) : \E r \in receipts' : r.revision = n
    BY <1>2, <2>1, <2>2, <2>3
  <2>5. \A r \in receipts' : r.revision \in 1..(row.revision + 1) /\ r.ns <= row.ns
    BY <1>2, <2>1, <2>2, <2>3
  <2>6. \A q, r \in receipts' : (q.revision = r.revision \/ q.op = r.op) => q = r
    BY <1>2, <2>1, <2>2, <2>3
  <2>7. \A q, r \in receipts' : q.revision <= r.revision => q.ns <= r.ns
    BY <1>2, <2>1, <2>2, <2>3
  <2> QED BY <1>1, <2>4, <2>5, <2>6, <2>7 DEF ReceiptsExplainRevision
<1>8. ClosedRetainsNothing'
  BY <1>1 DEF IInv, ClosedRetainsNothing
<1>9. SaverAnchored'
  BY <1>1 DEF IInv, SaverAnchored
<1> QED BY <1>3, <1>4, <1>5, <1>6, <1>7, <1>8, <1>9 DEF IInv

(* Generations are only added or change state, and the row is untouched:    *)
(* what neither InventoryConsistent nor RotationConsistent says is kept.    *)
LEMMA GenerationsKeepTheRest ==
    ASSUME IInv, TypeOK', UNCHANGED <<row, receipts, storage, issued, claims, saver>>,
           row.lifecycle \in Open \cup {"closing"},
           \A p \in Principals : gens[p].state # "absent" => gens'[p].state # "absent",
           InventoryConsistent', RotationConsistent'
    PROVE  IInv'
<1>1. RowValid' /\ PayloadReadable' /\ ReceiptsExplainRevision'
  BY DEF IInv, RowValid, PayloadReadable, ReceiptsExplainRevision
<1>2. ClosedRetainsNothing'
  BY DEF IInv, ClosedRetainsNothing, Open
<1>3. SaverAnchored'
  BY DEF IInv, SaverAnchored, TypeOK, SaverOperation
<1> QED BY <1>1, <1>2, <1>3 DEF IInv

LEMMA BeginRotationKeepsIInv ==
    ASSUME IInv, TypeOK', NEW o \in LeaseOwners, NEW t \in Transitions, NEW s \in 0..quiet,
           BeginCheckpointRotation(o, t, s), UNCHANGED saver
    PROVE  IInv'
<1> DEFINE d == row.principal + 1
<1>1. /\ row.lifecycle = "active" /\ row.lifecycle \in Open /\ row.marker = t
      /\ gens[d].state = "absent" /\ ~RotationPending
      /\ \A p \in Principals : gens[p].transition # t
      /\ UNCHANGED <<row, receipts, storage, issued, claims>>
  BY DEF BeginCheckpointRotation, Open
<1>2. row.principal \in Int /\ d \in Principals \ {0} /\ row.revision \in Int
  BY BoundAssumption DEF BeginCheckpointRotation, IInv, TypeOK, SessionRow, Principals, Revisions
<1>3. /\ gens'[d].state = "pending" /\ gens'[d].transition = t
      /\ gens'[d].source = row.revision
      /\ \A p \in Principals : p # d => gens'[p] = gens[p]
  BY <1>2 DEF BeginCheckpointRotation, IInv, TypeOK
<1>4. t # NONE
  BY IdentityAssumption
<1> HIDE DEF d
<1>5. InventoryConsistent'
  <2>1. \A p \in Principals : p \in Int
    BY DEF Principals
  <2>2. InventoryConsistent
    BY DEF IInv
  <2> QED BY <1>1, <1>2, <1>3, <2>1, <2>2 DEF InventoryConsistent, d
<1>6. RotationConsistent'
  <2>1. ASSUME NEW p \in Principals \ {0}, gens'[p].state # "absent", p # d
        PROVE  /\ gens'[p].state # "pending"
               /\ gens'[p].transition # NONE
               /\ gens'[p].source <= row.revision
               /\ \A q \in Principals : gens'[q].transition = gens'[p].transition => q = p
    BY <1>1, <1>2, <1>3, <2>1 DEF RotationPending, IInv, RotationConsistent
  <2>2. \A q \in Principals : gens'[q].transition = gens'[d].transition => q = d
    BY <1>1, <1>2, <1>3
  <2> QED BY <1>1, <1>2, <1>3, <1>4, <2>1, <2>2 DEF RotationConsistent
<1> QED BY <1>1, <1>2, <1>3, <1>5, <1>6, GenerationsKeepTheRest

LEMMA RecordDeletionKeepsIInv ==
    ASSUME IInv, TypeOK', NEW o \in LeaseOwners, NEW t \in Transitions, NEW s \in 0..quiet,
           RecordCheckpointDeletion(o, t, s), UNCHANGED saver
    PROVE  IInv'
<1>1. row.lifecycle \in Open /\ UNCHANGED <<row, receipts, storage, issued, claims>>
  BY DEF RecordCheckpointDeletion, LeaseAuthorized
<1>2. PICK p \in Principals :
         /\ p > 0 /\ gens[p - 1].state = "retired"
         /\ gens' = [gens EXCEPT ![p - 1].state = "deleted"]
  BY DEF RecordCheckpointDeletion, RotationDestination
<1>3. p - 1 \in Principals
  BY <1>2, BoundAssumption DEF Principals
<1>4. /\ gens'[p - 1].state = "deleted"
      /\ \A q \in Principals : q # p - 1 => gens'[q] = gens[q]
      /\ \A q \in Principals : gens'[q].transition = gens[q].transition
                            /\ gens'[q].source = gens[q].source
  BY <1>2, <1>3 DEF IInv, TypeOK, CheckpointGeneration
<1>5. InventoryConsistent'
  <2>1. row.principal \in Int /\ \A q \in Principals : q \in Int
    BY DEF IInv, TypeOK, SessionRow, Principals
  <2>2. InventoryConsistent
    BY DEF IInv
  <2> QED BY <1>1, <1>2, <1>3, <1>4, <2>1, <2>2 DEF InventoryConsistent
<1>6. RotationConsistent'
  <2>1. RotationConsistent
    BY DEF IInv
  <2>2. \A q \in Principals : /\ gens'[q].state = "pending" => gens[q].state = "pending"
                             /\ gens'[q].state # "absent" => gens[q].state # "absent"
    BY <1>2, <1>4
  <2> QED BY <1>1, <1>4, <2>1, <2>2 DEF RotationConsistent
<1> QED BY <1>1, <1>2, <1>4, <1>5, <1>6, GenerationsKeepTheRest

LEMMA SwitchKeepsIInv ==
    ASSUME IInv, TypeOK', NEW o \in LeaseOwners, NEW t \in Transitions,
           SwitchCheckpointGeneration(o, t), UNCHANGED saver
    PROVE  IInv'
<1>1. PICK p \in Principals :
         /\ p > 0 /\ gens[p].state = "pending" /\ gens[p - 1].state = "current"
         /\ row.ns = p - 1 /\ row.principal = p - 1
         /\ gens' = [gens EXCEPT ![p - 1].state = "retired", ![p].state = "current"]
         /\ row' = [row EXCEPT !.ns = p, !.principal = p,
                               !.envelope = EnvelopeContext(p, row.revision)]
  BY DEF SwitchCheckpointGeneration, RotationDestination
<1>2. p \in Int /\ p - 1 \in Principals /\ \A q \in Principals : q \in Int
  BY <1>1, BoundAssumption DEF Principals
<1>3. /\ row.lifecycle = "active" /\ row'.lifecycle = row.lifecycle
      /\ row'.fence = row.fence /\ row'.owner = row.owner /\ row'.closeOp = row.closeOp
      /\ row'.lease = row.lease /\ row'.life = row.life
      /\ row'.ns = p /\ row'.principal = p /\ row'.revision = row.revision
      /\ row'.marker = row.marker /\ row'.envelope = EnvelopeContext(p, row.revision)
      /\ UNCHANGED <<receipts, storage, issued, claims>>
  BY <1>1 DEF SwitchCheckpointGeneration, IInv, TypeOK, SessionRow
<1>4. /\ gens'[p - 1].state = "retired" /\ gens'[p].state = "current"
      /\ \A q \in Principals : q # p /\ q # p - 1 => gens'[q] = gens[q]
      /\ \A q \in Principals : gens'[q].transition = gens[q].transition
                            /\ gens'[q].source = gens[q].source
  BY <1>1, <1>2 DEF IInv, TypeOK, CheckpointGeneration
<1>5. RowValid'
  BY <1>3 DEF IInv, RowValid
<1>6. PayloadReadable'
  BY <1>3 DEF PayloadReadable
<1>7. InventoryConsistent'
  <2>1. InventoryConsistent
    BY DEF IInv
  <2>2. \A q \in Principals :
           /\ q < p - 1 => gens[q].state \in {"retired", "deleted"}
           /\ q > p => gens[q].state = "absent"
    BY <1>1, <1>2, <1>3, <2>1 DEF InventoryConsistent, Open
  <2>3. \A q \in Principals :
           /\ q < p => gens'[q].state \in {"retired", "deleted"}
           /\ q = p => gens'[q].state = "current"
           /\ q > p => gens'[q].state = "absent"
    <3> SUFFICES ASSUME NEW q \in Principals
                 PROVE  /\ q < p => gens'[q].state \in {"retired", "deleted"}
                        /\ q = p => gens'[q].state = "current"
                        /\ q > p => gens'[q].state = "absent"
      OBVIOUS
    <3>1. CASE q = p \/ q = p - 1
      BY <1>2, <1>4, <3>1
    <3>2. CASE q # p /\ q # p - 1
      <4>1. gens'[q] = gens[q]
        BY <1>4, <3>2
      <4>2. q \in Int /\ (q < p - 1 \/ q > p)
        BY <1>2, <3>2
      <4> QED BY <1>2, <2>2, <4>1, <4>2
    <3> QED BY <3>1, <3>2
  <2>4. row'.ns = row'.principal /\ row'.principal = p /\ p + 1 > p
    BY <1>2, <1>3
  <2>5. ASSUME NEW q \in Principals
        PROVE  /\ q < p => gens'[q].state \in {"retired", "deleted"}
               /\ q = p => gens'[q].state = "current"
               /\ q = p + 1 => gens'[q].state \in {"absent", "pending"}
               /\ q > p + 1 => gens'[q].state = "absent"
    <3>1. q \in Int /\ (q = p + 1 => q > p) /\ (q > p + 1 => q > p)
      BY <1>2
    <3> QED BY <2>3, <3>1
  <2> QED BY <2>4, <2>5 DEF InventoryConsistent
<1>8. RotationConsistent'
  <2>1. RotationConsistent
    BY DEF IInv
  <2>2. \A q \in Principals : /\ gens'[q].state = "pending" => gens[q].state = "pending"
                             /\ gens'[q].state # "absent" => gens[q].state # "absent"
    <3> SUFFICES ASSUME NEW q \in Principals
                 PROVE  /\ gens'[q].state = "pending" => gens[q].state = "pending"
                        /\ gens'[q].state # "absent" => gens[q].state # "absent"
      OBVIOUS
    <3>1. CASE q = p
      BY <1>1, <1>4, <3>1
    <3>2. CASE q = p - 1
      BY <1>1, <1>4, <3>2
    <3>3. CASE q # p /\ q # p - 1
      BY <1>4, <3>3
    <3> QED BY <3>1, <3>2, <3>3
  <2>3. row'.lifecycle \in Open => row.lifecycle \in Open
    BY <1>3
  <2>4. ASSUME NEW q \in Principals \ {0}, gens'[q].state = "pending", row.lifecycle \in Open
        PROVE  /\ row'.lifecycle = "active" /\ row'.marker # NONE
               /\ row'.marker = gens'[q].transition /\ row'.revision = gens'[q].source
    BY <1>3, <1>4, <2>1, <2>2, <2>4 DEF RotationConsistent
  <2>5. ASSUME NEW q \in Principals \ {0}, gens'[q].state # "absent", row.lifecycle \in Open
        PROVE  /\ gens'[q].transition # NONE /\ gens'[q].source <= row'.revision
               /\ \A x \in Principals : gens'[x].transition = gens'[q].transition => x = q
    BY <1>3, <1>4, <2>1, <2>2, <2>5 DEF RotationConsistent
  <2> QED BY <2>3, <2>4, <2>5 DEF RotationConsistent
<1>9. ReceiptsExplainRevision'
  <2>1. \A r \in receipts : r.ns <= row.ns /\ r.ns \in Int
    BY <1>3 DEF IInv, ReceiptsExplainRevision, Open, TypeOK, Receipt, Principals
  <2>2. \A r \in receipts : r.ns <= p
    BY <1>1, <1>2, <2>1
  <2> QED BY <1>3, <2>2 DEF IInv, ReceiptsExplainRevision
<1>10. \A q \in Principals : gens[q].state # "absent" => gens'[q].state # "absent"
  BY <1>4
<1>11. ClosedRetainsNothing' /\ SaverAnchored'
  <2>1. ClosedRetainsNothing'
    BY <1>3, <1>10 DEF IInv, ClosedRetainsNothing
  <2>2. \A x \in LeaseOwners : saver[x].gen \in Principals
    BY DEF IInv, TypeOK, SaverOperation
  <2>3. SaverAnchored'
    BY <1>3, <1>10, <2>2 DEF IInv, SaverAnchored
  <2> QED BY <2>1, <2>3
<1> QED BY <1>5, <1>6, <1>7, <1>8, <1>9, <1>11 DEF IInv

LEMMA TakeCloseLeaseKeepsIInv ==
    ASSUME IInv, TypeOK', NEW op \in CloseOps, NEW k \in CloseOwners, NEW s \in 0..quiet,
           row.lifecycle \in Open \cup {"closing"},
           TakeCloseLease(op, k, s), UNCHANGED saver
    PROVE  IInv'
<1>1. /\ row'.lifecycle = "closing" /\ row'.fence = row.fence + 1 /\ row'.owner = k
      /\ row'.closeOp = op /\ row'.ns = row.ns /\ row'.revision = row.revision
      /\ row'.envelope = row.envelope
      /\ claims' = claims \cup {[op |-> op, owner |-> k, fence |-> row.fence + 1]}
      /\ UNCHANGED <<gens, receipts, storage, issued>>
  BY DEF TakeCloseLease, IInv, TypeOK, SessionRow
<1>2. row.fence \in Int /\ row.fence >= 1
  BY DEF IInv, TypeOK, SessionRow, RowValid
<1>3. RowValid'
  BY <1>1, <1>2, IdentityAssumption DEF RowValid, Open
<1>4. PayloadReadable' /\ ReceiptsExplainRevision'
  BY <1>1 DEF IInv, PayloadReadable, ReceiptsExplainRevision
<1>5. InventoryConsistent' /\ RotationConsistent'
  BY <1>1 DEF InventoryConsistent, RotationConsistent, Open
<1>6. ClosedRetainsNothing'
  BY <1>1 DEF IInv, ClosedRetainsNothing
<1>7. SaverAnchored'
  BY <1>1 DEF IInv, SaverAnchored, Open
<1> QED BY <1>3, <1>4, <1>5, <1>6, <1>7 DEF IInv

LEMMA RefreshCloseKeepsIInv ==
    ASSUME IInv, TypeOK', NEW c \in claims, NEW s \in 0..quiet,
           RefreshClose(c, s), UNCHANGED saver
    PROVE  IInv'
<1>1. row.lifecycle = "closing"
  BY DEF RefreshClose
<1>2. c.op \in CloseOps /\ c.owner \in CloseOwners
  BY DEF IInv, TypeOK, SessionCloseAuthority
<1>3. CASE TakeCloseLease(c.op, c.owner, s)
  BY <1>1, <1>2, <1>3, TakeCloseLeaseKeepsIInv
<1>4. CASE ~TakeCloseLease(c.op, c.owner, s)
  <2>1. OnlyTimers
    BY <1>4 DEF RefreshClose, OnlyTimers, IInv, TypeOK, SessionRow
  <2> QED BY <1>1, <2>1, TimersKeepIInv DEF Open
<1> QED BY <1>3, <1>4

LEMMA RecordCloseDeletionKeepsIInv ==
    ASSUME IInv, TypeOK', NEW c \in claims, NEW s \in 0..quiet, NEW p \in Principals,
           RecordCloseCheckpointDeletion(c, p, s), UNCHANGED saver
    PROVE  IInv'
<1>1. row.lifecycle = "closing" /\ UNCHANGED <<row, receipts, storage, issued, claims>>
  BY DEF RecordCloseCheckpointDeletion, CloseAuthorized
<1>2. \A q \in Principals : gens[q].state # "absent" => gens'[q].state # "absent"
  BY DEF RecordCloseCheckpointDeletion, IInv, TypeOK, CheckpointGeneration
<1>3. InventoryConsistent' /\ RotationConsistent'
  BY <1>1 DEF InventoryConsistent, RotationConsistent, Open
<1> QED BY <1>1, <1>2, <1>3, GenerationsKeepTheRest

LEMMA FinalizeKeepsIInv ==
    ASSUME IInv, TypeOK', NEW c \in claims, NEW s \in 0..quiet,
           FinalizeClose(c, s), UNCHANGED saver
    PROVE  IInv'
<1>1. /\ row'.lifecycle = "closed" /\ row'.owner = NONE /\ row'.envelope = NONE
      /\ receipts' = {} /\ gens' = [p \in Principals |-> NoGeneration]
      /\ \A p \in Principals : ~storage[p]
      /\ UNCHANGED <<storage, issued, claims>>
  BY DEF FinalizeClose, IInv, TypeOK, SessionRow
<1>2. RowValid' /\ PayloadReadable' /\ InventoryConsistent' /\ RotationConsistent'
      /\ ReceiptsExplainRevision'
  BY <1>1 DEF RowValid, PayloadReadable, InventoryConsistent, RotationConsistent,
              ReceiptsExplainRevision, Open
<1>3. ClosedRetainsNothing'
  BY <1>1 DEF ClosedRetainsNothing
<1>4. SaverAnchored'
  BY <1>1 DEF IInv, SaverAnchored, Open
<1> QED BY <1>2, <1>3, <1>4 DEF IInv

LEMMA PurgeKeepsIInv ==
    ASSUME IInv, TypeOK', PurgeClosedTombstones, UNCHANGED saver
    PROVE  IInv'
<1>1. /\ row.lifecycle = "closed" /\ row'.lifecycle = "absent"
      /\ UNCHANGED <<gens, receipts, storage, issued, claims>>
  BY DEF PurgeClosedTombstones, NoRow
<1>2. RowValid' /\ PayloadReadable' /\ InventoryConsistent' /\ RotationConsistent'
      /\ ReceiptsExplainRevision'
  BY <1>1 DEF RowValid, PayloadReadable, InventoryConsistent, RotationConsistent,
              ReceiptsExplainRevision, Open
<1>3. ClosedRetainsNothing'
  BY <1>1 DEF IInv, ClosedRetainsNothing
<1>4. SaverAnchored'
  BY <1>1 DEF IInv, SaverAnchored, Open
<1> QED BY <1>2, <1>3, <1>4 DEF IInv

(* Only the savers and the checkpoint data change.                          *)
LEMMA DataPlaneKeepsIInv ==
    ASSUME IInv, TypeOK', UNCHANGED <<row, gens, receipts, issued, claims>>,
           \A p \in Principals :
               storage'[p] => storage[p] \/ (gens[p].state # "absent"
                                             /\ row.lifecycle \in Open),
           \A o \in LeaseOwners :
               saver'[o].kind = "idle" \/ saver'[o] = saver[o]
                   \/ (o \in issued /\ gens[saver'[o].gen].state # "absent")
    PROVE  IInv'
<1>1. RowValid' /\ PayloadReadable' /\ InventoryConsistent' /\ RotationConsistent'
      /\ ReceiptsExplainRevision'
  BY DEF IInv, RowValid, PayloadReadable, InventoryConsistent, RotationConsistent,
         ReceiptsExplainRevision
<1>2. ClosedRetainsNothing'
  BY DEF IInv, ClosedRetainsNothing, Open
<1>3. SaverAnchored'
  BY DEF IInv, SaverAnchored
<1> QED BY <1>1, <1>2, <1>3 DEF IInv

LEMMA CommitKeepsIInv ==
    ASSUME IInv, TypeOK', NEW o \in LeaseOwners, NEW s \in 0..quiet, CommitOperation(o, s)
    PROVE  IInv'
<1>1. /\ row.lifecycle \in Open /\ row.owner = o /\ saver[o].kind # "idle"
      /\ UNCHANGED <<row, gens, receipts, issued, claims>>
  BY DEF CommitOperation, LeaseAuthorized
<1>2. gens[saver[o].gen].state # "absent"
  BY <1>1 DEF IInv, SaverAnchored
<1>3. \A p \in Principals : storage'[p] => storage[p] \/ p = saver[o].gen
  BY DEF CommitOperation, IInv, TypeOK
<1>4. \A x \in LeaseOwners : saver'[x].kind = "idle" \/ saver'[x] = saver[x]
  BY DEF CommitOperation, IInv, TypeOK, Idle
<1> QED BY <1>1, <1>2, <1>3, <1>4, DataPlaneKeepsIInv

LEMMA BeginOperationKeepsIInv ==
    ASSUME IInv, TypeOK', NEW o \in LeaseOwners, NEW kind \in {"write", "delete"},
           NEW p \in Principals, BeginOperation(o, kind, p)
    PROVE  IInv'
<1>1. UNCHANGED <<row, gens, receipts, storage, issued, claims>>
  BY DEF BeginOperation, registryVars
<1>2. ASSUME NEW x \in LeaseOwners
      PROVE  saver'[x] = saver[x] \/ (x \in issued /\ gens[saver'[x].gen].state # "absent")
  BY DEF BeginOperation, IInv, TypeOK
<1> QED BY <1>1, <1>2, DataPlaneKeepsIInv

LEMMA TickKeepsIInv == ASSUME IInv, TypeOK', Tick PROVE IInv'
<1>1. \A o \in LeaseOwners :
         saver'[o].kind = saver[o].kind /\ saver'[o].gen = saver[o].gen
  BY DEF Tick, IInv, TypeOK, SaverOperation
<1>2. OnlyTimers
  BY <1>1 DEF Tick, RegistryTick, OnlyTimers, IInv, TypeOK, SessionRow
<1>3. row.lifecycle \in Open => row'.lease <= row'.life
  <2> SUFFICES ASSUME row.lifecycle \in Open PROVE row'.lease <= row'.life
    OBVIOUS
  <2>1. row'.lease = Countdown(row.lease) /\ row'.life = Countdown(row.life)
    BY DEF Tick, RegistryTick, Open, IInv, TypeOK, SessionRow
  <2>2. row.lease \in Int /\ row.life \in Int /\ row.lease <= row.life
    BY DurationAssumption DEF IInv, TypeOK, SessionRow, Ticks, RowValid
  <2>3. /\ row.lease - 1 \in Int /\ row.life - 1 \in Int /\ 0 - Skew \in Int
        /\ row.lease - 1 <= row.life - 1
    BY <2>2, DurationAssumption
  <2>4. /\ Countdown(row.lease) \in {row.lease - 1, 0 - Skew}
        /\ Countdown(row.life) >= row.life - 1
        /\ Countdown(row.life) >= 0 - Skew
        /\ Countdown(row.life) \in Int
    BY <2>3, MaxPair DEF Countdown
  <2>5. CASE Countdown(row.lease) = row.lease - 1
    <3>1. row.life - 1 <= Countdown(row.life)
      BY <2>3, <2>4
    <3> QED BY <2>1, <2>3, <2>4, <2>5, <3>1
  <2>6. CASE Countdown(row.lease) = 0 - Skew
    BY <2>1, <2>4, <2>6
  <2> QED BY <2>4, <2>5, <2>6
<1> QED BY <1>2, <1>3, TimersKeepIInv

LEMMA StepIInv == IInv /\ [Next]_vars => IInv'
<1> SUFFICES ASSUME IInv, [Next]_vars PROVE IInv'
  OBVIOUS
<1>t. TypeOK'
  BY StepTypeOK DEF IInv
<1>1. ASSUME NEW o \in LeaseOwners, UNCHANGED saver,
             RegisterAndAcquire(o) \/ Activate(o) \/ Renew(o)
      PROVE  IInv'
  BY <1>1, <1>t, RegisterKeepsIInv, ActivateKeepsIInv, RenewKeepsIInv
<1>2. ASSUME NEW o \in LeaseOwners, NEW op \in Operations,
             NEW m \in Transitions \cup {NONE}, Publish(o, op, m), UNCHANGED saver
      PROVE  IInv'
  BY <1>2, <1>t, PublishKeepsIInv
<1>3. ASSUME NEW o \in LeaseOwners, NEW t \in Transitions, NEW s \in 0..quiet,
             UNCHANGED saver,
             BeginCheckpointRotation(o, t, s) \/ RecordCheckpointDeletion(o, t, s)
      PROVE  IInv'
  BY <1>3, <1>t, BeginRotationKeepsIInv, RecordDeletionKeepsIInv
<1>4. ASSUME NEW o \in LeaseOwners, NEW t \in Transitions,
             SwitchCheckpointGeneration(o, t), UNCHANGED saver
      PROVE  IInv'
  BY <1>4, <1>t, SwitchKeepsIInv
<1>5. ASSUME NEW o \in LeaseOwners, NEW op \in CloseOps, NEW k \in CloseOwners,
             NEW s \in 0..quiet, BeginClose(o, op, k, s), UNCHANGED saver
      PROVE  IInv'
  BY <1>5, <1>t, TakeCloseLeaseKeepsIInv DEF BeginClose, LeaseAuthorized
<1>6. ASSUME NEW op \in CloseOps, NEW k \in CloseOwners, NEW s \in 0..quiet,
             ClaimExpired(op, k, s), UNCHANGED saver
      PROVE  IInv'
  BY <1>6, <1>t, TakeCloseLeaseKeepsIInv DEF ClaimExpired
<1>7. ASSUME NEW c \in claims, NEW s \in 0..quiet, UNCHANGED saver,
             RefreshClose(c, s) \/ FinalizeClose(c, s)
      PROVE  IInv'
  BY <1>7, <1>t, RefreshCloseKeepsIInv, FinalizeKeepsIInv
<1>8. ASSUME NEW c \in claims, NEW s \in 0..quiet, NEW p \in Principals,
             RecordCloseCheckpointDeletion(c, p, s), UNCHANGED saver
      PROVE  IInv'
  BY <1>8, <1>t, RecordCloseDeletionKeepsIInv
<1>9. ASSUME PurgeClosedTombstones, UNCHANGED saver
      PROVE  IInv'
  BY <1>9, <1>t, PurgeKeepsIInv
<1>10. ASSUME NEW o \in LeaseOwners, NEW kind \in {"write", "delete"},
              NEW p \in Principals, BeginOperation(o, kind, p)
       PROVE  IInv'
  BY <1>10, <1>t, BeginOperationKeepsIInv
<1>11. ASSUME NEW o \in LeaseOwners, NEW s \in 0..quiet, CommitOperation(o, s)
       PROVE  IInv'
  BY <1>11, <1>t, CommitKeepsIInv
<1>12. ASSUME NEW o \in LeaseOwners, RollbackOperation(o)
       PROVE  IInv'
  <2>1. /\ UNCHANGED <<row, gens, receipts, storage, issued, claims>>
        /\ \A x \in LeaseOwners : saver'[x].kind = "idle" \/ saver'[x] = saver[x]
    BY <1>12 DEF RollbackOperation, registryVars, Idle, IInv, TypeOK
  <2> QED BY <1>t, <2>1, DataPlaneKeepsIInv
<1>13. ASSUME NEW c \in claims, NEW s \in 0..quiet, NEW p \in Principals,
              CloseDelete(c, p, s)
       PROVE  IInv'
  <2>1. /\ UNCHANGED <<row, gens, receipts, issued, claims, saver>>
        /\ \A q \in Principals : storage'[q] => storage[q]
    BY <1>13 DEF CloseDelete, IInv, TypeOK
  <2> QED BY <1>t, <2>1, DataPlaneKeepsIInv
<1>14. CASE Tick
  BY <1>14, <1>t, TickKeepsIInv
<1>15. CASE UNCHANGED vars
  BY <1>15, <1>t, DataPlaneKeepsIInv DEF vars
<1> QED
  BY <1>1, <1>2, <1>3, <1>4, <1>5, <1>6, <1>7, <1>8, <1>9, <1>10, <1>11, <1>12,
     <1>13, <1>14, <1>15
  DEF Next, RegistryStep, LeaseStep, SaverStep

LEMMA InductiveInvariant == Spec => []IInv
BY InitIInv, StepIInv, PTL DEF Spec

(* The stored row always passes the executable schema, whatever was         *)
(* renewed, claimed, refreshed or finalized, by whom and however late.      *)
THEOREM RowAlwaysValid == Spec => []RowValid
<1>1. IInv => RowValid
  BY DEF IInv
<1> QED BY <1>1, InductiveInvariant, PTL

(* The stored payload can always be decrypted.                              *)
THEOREM PayloadAlwaysReadable == Spec => []PayloadReadable
<1>1. IInv => PayloadReadable
  BY DEF IInv
<1> QED BY <1>1, InductiveInvariant, PTL

(* The inventory agrees with the row and pending or completed rotations     *)
(* agree with both.                                                         *)
THEOREM GenerationsAlwaysConsistent == Spec => []GenerationsConsistent
<1>1. IInv => GenerationsConsistent
  BY DEF IInv, GenerationsConsistent
<1> QED BY <1>1, InductiveInvariant, PTL

(* The receipts explain every revision of the session.                      *)
THEOREM ReceiptsAlwaysExplain == Spec => []ReceiptsExplainRevision
<1>1. IInv => ReceiptsExplainRevision
  BY DEF IInv
<1> QED BY <1>1, InductiveInvariant, PTL

(* A closed session retains nothing.                                        *)
THEOREM ClosedAlwaysEmpty == Spec => []ClosedRetainsNothing
<1>1. IInv => ClosedRetainsNothing
  BY DEF IInv
<1> QED BY <1>1, InductiveInvariant, PTL

(* Row, payload, generations, receipts and checkpoint data agree after every *)
(* step of holders, closers and savers.                                     *)
THEOREM SessionAlwaysCoherent == Spec => []SessionCoherent
<1>1. IInv => SessionCoherent
  BY DEF IInv, SessionCoherent, GenerationsConsistent
<1> QED BY <1>1, InductiveInvariant, PTL

-----------------------------------------------------------------------------
(* The action properties, from the inductive invariant.                     *)

LEMMA StepAddsNoData == IInv /\ [Next]_vars => AddsNoDataInClose
<1> SUFFICES ASSUME IInv, [Next]_vars PROVE AddsNoDataInClose
  OBVIOUS
<1>1. CASE storage' = storage
  BY <1>1 DEF AddsNoDataInClose
<1>2. ASSUME NEW o \in LeaseOwners, NEW s \in 0..quiet, CommitOperation(o, s)
      PROVE  AddsNoDataInClose
  BY <1>2 DEF CommitOperation, LeaseAuthorized, Open, AddsNoDataInClose
<1>3. ASSUME NEW c \in claims, NEW s \in 0..quiet, NEW p \in Principals,
             CloseDelete(c, p, s)
      PROVE  AddsNoDataInClose
  BY <1>3 DEF CloseDelete, AddsNoDataInClose, IInv, TypeOK
<1>4. RegistryStep => storage' = storage
  BY DEF RegistryStep, LeaseStep, RegisterAndAcquire, Activate, Renew, Publish,
         BeginCheckpointRotation, SwitchCheckpointGeneration,
         RecordCheckpointDeletion, BeginClose, ClaimExpired, TakeCloseLease,
         RefreshClose, RecordCloseCheckpointDeletion, FinalizeClose,
         PurgeClosedTombstones
<1>5. Tick => storage' = storage
  BY DEF Tick, RegistryTick
<1>6. \A o \in LeaseOwners :
         /\ RollbackOperation(o) => storage' = storage
         /\ \A kind \in {"write", "delete"}, p \in Principals :
              BeginOperation(o, kind, p) => storage' = storage
  BY DEF RollbackOperation, BeginOperation, registryVars
<1>7. UNCHANGED vars => storage' = storage
  BY DEF vars
<1> QED BY <1>1, <1>2, <1>3, <1>4, <1>5, <1>6, <1>7 DEF Next, SaverStep

(* No checkpoint data appears once a close claim was granted.               *)
THEOREM NoWriteOnceClosing == Spec => NoWriteAfterClose
BY InductiveInvariant, StepAddsNoData, PTL DEF Spec, NoWriteAfterClose

(* The ways a step can change the row.                                      *)

SameIdentity ==
    /\ row'.fence = row.fence /\ row'.owner = row.owner
    /\ row'.closeOp = row.closeOp

HolderMove ==
    /\ row.lifecycle \in Open /\ row.lease > 0 /\ row.life > 0
    /\ row'.lifecycle = row.lifecycle
         \/ (row.lifecycle = "opening" /\ row'.lifecycle = "active")
    /\ SameIdentity
    /\ row'.revision >= row.revision /\ row'.principal >= row.principal

CloseTaken ==
    /\ row.lifecycle \in Open \cup {"closing"} /\ row'.lifecycle = "closing"
    /\ row'.fence = row.fence + 1
    /\ row.closeOp # NONE => row'.closeOp = row.closeOp
    /\ row'.revision = row.revision /\ row'.principal = row.principal

CloseHeld ==
    /\ row.lifecycle = "closing"
    /\ row'.lifecycle = "closing" \/ (row'.lifecycle = "closed" /\ row'.owner = NONE)
    /\ row'.fence = row.fence /\ row'.closeOp = row.closeOp
    /\ row'.lifecycle = "closing" => row'.owner = row.owner
    /\ row'.revision = row.revision /\ row'.principal = row.principal

TimePasses ==
    /\ [row' EXCEPT !.lease = 0, !.life = 0] = [row EXCEPT !.lease = 0, !.life = 0]
    /\ row'.lifecycle = row.lifecycle /\ SameIdentity
    /\ row'.revision = row.revision /\ row'.principal = row.principal
    /\ row.lifecycle \in Open => row'.lease <= row.lease /\ row'.life <= row.life

Reborn ==
    \/ row.lifecycle = "absent" /\ row'.lifecycle = "opening"
    \/ row.lifecycle = "closed" /\ row'.lifecycle = "absent"

RowMove ==
    row' = row \/ Reborn \/ HolderMove \/ CloseTaken \/ CloseHeld \/ TimePasses

LEMMA RowTyped ==
    ASSUME IInv
    PROVE  /\ row \in SessionRow
           /\ row.lease \in Int /\ row.life \in Int /\ row.fence \in Int
           /\ row.revision \in Int /\ row.principal \in Int
           /\ quiet \in Nat
<1>1. row \in SessionRow /\ quiet \in 0..Skew
  BY DEF IInv, TypeOK
<1>2. row.lease \in Ticks /\ row.life \in Ticks /\ row.fence \in 0..MaxFence
      /\ row.revision \in 0..MaxRevision /\ row.principal \in 0..MaxPrincipal
  BY <1>1 DEF SessionRow, Revisions, Principals
<1> QED BY <1>1, <1>2, DurationAssumption, BoundAssumption DEF Ticks, Horizon

LEMMA HolderMoves ==
    ASSUME IInv, NEW o \in LeaseOwners,
           \/ Activate(o) \/ Renew(o)
           \/ \E op \in Operations, m \in Transitions \cup {NONE} : Publish(o, op, m)
           \/ \E t \in Transitions : SwitchCheckpointGeneration(o, t)
    PROVE  HolderMove
<1>0. /\ row \in SessionRow
      /\ row.lease \in Int /\ row.life \in Int /\ row.fence \in Int
      /\ row.revision \in Int /\ row.principal \in Int
  BY RowTyped
<1>1. LeaseAuthorized(o, 0)
  BY DEF Activate, Renew, Publish, SwitchCheckpointGeneration
<1>2. row.lifecycle \in Open /\ row.lease > 0 /\ row.life > 0
  BY <1>0, <1>1 DEF LeaseAuthorized, LeaseLapsed, SessionExpired
<1>3. CASE Activate(o)
  BY <1>0, <1>2, <1>3 DEF Activate, HolderMove, SameIdentity, SessionRow
<1>4. CASE Renew(o)
  BY <1>0, <1>2, <1>4 DEF Renew, HolderMove, SameIdentity, SessionRow
<1>5. ASSUME NEW op \in Operations, NEW m \in Transitions \cup {NONE}, Publish(o, op, m)
      PROVE  HolderMove
  <2>1. /\ row'.lifecycle = row.lifecycle /\ SameIdentity
        /\ row'.revision = row.revision + 1 /\ row'.principal = row.principal
    BY <1>0, <1>5 DEF Publish, SameIdentity, SessionRow
  <2> QED BY <1>0, <1>2, <2>1 DEF HolderMove
<1>6. ASSUME NEW t \in Transitions, SwitchCheckpointGeneration(o, t)
      PROVE  HolderMove
  <2>1. PICK p \in Principals :
          /\ row.principal = p - 1
          /\ row' = [row EXCEPT !.ns = p, !.principal = p,
                                !.envelope = EnvelopeContext(p, row.revision)]
    BY <1>6 DEF SwitchCheckpointGeneration
  <2>2. p \in Int
    BY BoundAssumption DEF Principals
  <2>3. /\ row'.lifecycle = row.lifecycle /\ SameIdentity
        /\ row'.revision = row.revision /\ row'.principal = p
    BY <1>0, <2>1 DEF SameIdentity, SessionRow
  <2> QED BY <1>0, <1>2, <2>1, <2>2, <2>3 DEF HolderMove
<1> QED BY <1>3, <1>4, <1>5, <1>6

LEMMA CloseTakes ==
    ASSUME IInv, NEW op \in CloseOps, NEW k \in CloseOwners, NEW s \in 0..quiet,
           row.lifecycle \in Open \cup {"closing"}, TakeCloseLease(op, k, s)
    PROVE  CloseTaken
BY RowTyped DEF TakeCloseLease, CloseTaken, SessionRow

LEMMA TimeMoves == ASSUME IInv, Tick PROVE TimePasses
<1>0. row \in SessionRow /\ row.lease \in Int /\ row.life \in Int
  BY RowTyped
<1>1. ASSUME row.lifecycle \in Open
      PROVE  row'.lease = Countdown(row.lease) /\ row'.life = Countdown(row.life)
  BY <1>0, <1>1 DEF Tick, RegistryTick, Open, SessionRow
<1>2. row.lease \in Ticks /\ row.life \in Ticks
  BY <1>0 DEF SessionRow
<1>3. ASSUME NEW n \in Ticks PROVE Countdown(n) <= n
  <2>1. n \in Int /\ n - 1 \in Int /\ 0 - Skew \in Int /\ 0 - Skew <= n
    BY DurationAssumption DEF Ticks, Horizon
  <2>2. Countdown(n) \in {n - 1, 0 - Skew}
    BY <2>1, MaxPair DEF Countdown
  <2> QED BY <2>1, <2>2
<1>4. row.lifecycle \in Open => row'.lease <= row.lease /\ row'.life <= row.life
  BY <1>1, <1>2, <1>3
<1>5. /\ [row' EXCEPT !.lease = 0, !.life = 0] = [row EXCEPT !.lease = 0, !.life = 0]
      /\ row'.lifecycle = row.lifecycle /\ SameIdentity
      /\ row'.revision = row.revision /\ row'.principal = row.principal
  BY <1>0 DEF Tick, RegistryTick, SessionRow, SameIdentity
<1> QED BY <1>4, <1>5 DEF TimePasses

LEMMA StepRowMove == IInv /\ [Next]_vars => RowMove
<1> SUFFICES ASSUME IInv, [Next]_vars PROVE RowMove
  OBVIOUS
<1>1. ASSUME NEW o \in LeaseOwners, RegisterAndAcquire(o)
      PROVE  RowMove
  BY <1>1 DEF RegisterAndAcquire, NoRow, Reborn, RowMove
<1>2. ASSUME NEW o \in LeaseOwners,
             \/ Activate(o) \/ Renew(o)
             \/ \E op \in Operations, m \in Transitions \cup {NONE} : Publish(o, op, m)
             \/ \E t \in Transitions : SwitchCheckpointGeneration(o, t)
      PROVE  RowMove
  BY <1>2, HolderMoves DEF RowMove
<1>3. ASSUME NEW o \in LeaseOwners, NEW t \in Transitions, NEW s \in 0..quiet,
             BeginCheckpointRotation(o, t, s) \/ RecordCheckpointDeletion(o, t, s)
      PROVE  RowMove
  BY <1>3 DEF BeginCheckpointRotation, RecordCheckpointDeletion, RowMove
<1>4. ASSUME NEW o \in LeaseOwners, NEW op \in CloseOps, NEW k \in CloseOwners,
             NEW s \in 0..quiet, BeginClose(o, op, k, s)
      PROVE  RowMove
  BY <1>4, CloseTakes DEF BeginClose, LeaseAuthorized, RowMove
<1>5. ASSUME NEW op \in CloseOps, NEW k \in CloseOwners, NEW s \in 0..quiet,
             ClaimExpired(op, k, s)
      PROVE  RowMove
  BY <1>5, CloseTakes DEF ClaimExpired, RowMove
<1>6. ASSUME NEW c \in claims, NEW s \in 0..quiet, RefreshClose(c, s)
      PROVE  RowMove
  <2>1. c.op \in CloseOps /\ c.owner \in CloseOwners
    BY DEF IInv, TypeOK, SessionCloseAuthority
  <2>2. CASE TakeCloseLease(c.op, c.owner, s)
    BY <1>6, <2>1, <2>2, CloseTakes DEF RefreshClose, RowMove
  <2>3. CASE row' = [row EXCEPT !.lease = Max({row.lease, CloseDuration - s})]
    BY <1>6, <2>3, RowTyped DEF RefreshClose, CloseHeld, RowMove, SessionRow
  <2> QED BY <1>6, <2>2, <2>3 DEF RefreshClose
<1>7. ASSUME NEW c \in claims, NEW s \in 0..quiet, FinalizeClose(c, s)
      PROVE  RowMove
  BY <1>7, RowTyped DEF FinalizeClose, CloseAuthorized, CloseHeld, RowMove, SessionRow
<1>8. ASSUME NEW c \in claims, NEW s \in 0..quiet, NEW p \in Principals,
             RecordCloseCheckpointDeletion(c, p, s)
      PROVE  RowMove
  BY <1>8 DEF RecordCloseCheckpointDeletion, RowMove
<1>9. PurgeClosedTombstones => RowMove
  BY DEF PurgeClosedTombstones, NoRow, Reborn, RowMove
<1>10. Tick => RowMove
  BY TimeMoves DEF RowMove
<1>11. \A o \in LeaseOwners :
          /\ RollbackOperation(o) => RowMove
          /\ \A s \in 0..quiet : CommitOperation(o, s) => RowMove
          /\ \A kind \in {"write", "delete"}, p \in Principals :
               BeginOperation(o, kind, p) => RowMove
  BY DEF RollbackOperation, CommitOperation, BeginOperation, registryVars, RowMove
<1>12. \A c \in claims, s \in 0..quiet, p \in Principals :
          CloseDelete(c, p, s) => RowMove
  BY DEF CloseDelete, RowMove
<1>13. UNCHANGED vars => RowMove
  BY DEF vars, RowMove
<1> QED
  BY <1>1, <1>2, <1>3, <1>4, <1>5, <1>6, <1>7, <1>8, <1>9, <1>10, <1>11, <1>12, <1>13
  DEF Next, RegistryStep, LeaseStep, SaverStep

LEMMA StepSucceeds == IInv /\ [Next]_vars => SucceedsInOrder
<1> SUFFICES ASSUME IInv, RowMove PROVE SucceedsInOrder
  BY StepRowMove
<1>0. row.fence \in Int /\ row.revision \in Int /\ row.principal \in Int
  BY RowTyped
<1>1. CASE row' = row
  BY <1>0, <1>1 DEF SucceedsInOrder
<1>2. CASE Reborn
  BY <1>2 DEF Reborn, SucceedsInOrder, SameSession, LifecycleOrder
<1>3. CASE HolderMove
  BY <1>0, <1>3 DEF HolderMove, SameIdentity, Open, SucceedsInOrder, LifecycleOrder
<1>4. CASE CloseTaken
  BY <1>0, <1>4 DEF CloseTaken, Open, SucceedsInOrder, LifecycleOrder
<1>5. CASE CloseHeld
  BY <1>0, <1>5 DEF CloseHeld, SucceedsInOrder, LifecycleOrder
<1>6. CASE TimePasses
  BY <1>0, <1>6 DEF TimePasses, SameIdentity, SucceedsInOrder
<1> QED BY <1>1, <1>2, <1>3, <1>4, <1>5, <1>6 DEF RowMove

LEMMA StepLapsed == IInv /\ [Next]_vars => LapsedOnlyCloses
<1> SUFFICES ASSUME IInv, RowMove, row.lifecycle \in Open, row.lease <= 0 \/ row.life <= 0
             PROVE  OnlyCloses
  BY StepRowMove DEF LapsedOnlyCloses
<1>0. row.lease \in Int /\ row.life \in Int
  BY RowTyped
<1>1. CASE row' = row
  BY <1>0, <1>1 DEF OnlyCloses
<1>2. CASE Reborn
  BY <1>2 DEF Reborn, Open
<1>3. CASE HolderMove
  BY <1>0, <1>3 DEF HolderMove
<1>4. CASE CloseTaken
  BY <1>4 DEF CloseTaken, OnlyCloses
<1>5. CASE CloseHeld
  BY <1>5 DEF CloseHeld, Open
<1>6. CASE TimePasses
  BY <1>6 DEF TimePasses, OnlyCloses
<1> QED BY <1>1, <1>2, <1>3, <1>4, <1>5, <1>6 DEF RowMove

(* A session changes hands only under a new fence, and its fence, revision, *)
(* principal, close operation and lifecycle only move forward.              *)
THEOREM SuccessionIsFenced == Spec => FencedSuccession
BY InductiveInvariant, StepSucceeds, PTL DEF Spec, FencedSuccession

(* A lapsed lease or session is never revived nor changed, only closed.     *)
THEOREM LapsedNeverRevives == Spec => LapsedLeaseIsFinal
BY InductiveInvariant, StepLapsed, PTL DEF Spec, LapsedLeaseIsFinal

-----------------------------------------------------------------------------
(* The close protocol.                                                      *)

(* What the registry, its registrant and the carried operations say of the  *)
(* session as a whole.                                                      *)

Registered == row.lifecycle # "absent"

(* The registration a close operation was drawn for.                        *)
Native(a) == IF a \in LiveClosers THEN Holder(a) ELSE a

ClosersTypeOK ==
    /\ closer \in [Closers -> CloserState]
    /\ registrant \in LeaseOwners \cup {NONE}
    /\ carried \subseteq CloseOps

SessionKnown ==
    /\ Registered => registrant \in issued
    /\ row.lifecycle \in Open => registrant = row.owner
    /\ (row.closeOp # NONE /\ row.closeOp \notin carried) =>
         registrant = Native(row.closeOp)
    /\ \A x \in LiveClosers :
         (row.lifecycle = "closing" /\ row.owner = x) => row.closeOp = x
    /\ row.lifecycle = "closing" => \E p \in Principals : gens[p].state # "absent"

(* A closer that presents a claim was granted it.                           *)
Pressing == {"inspect", "refresh", "list", "prepare", "delete", "confirm", "record",
             "settle", "finalize"}

Holds(x) ==
    /\ closer[x].fence > 0 => Authority(x) \in claims
    /\ closer[x].pc \in Pressing => closer[x].fence > 0
    /\ x \in LiveClosers => closer[x].op = x /\ closer[x].pc # "claim"
    /\ closer[x].pc = "retry" => x \in LiveClosers

(* The operation a closer works under belongs to one registration, whose    *)
(* close it began.                                                          *)
Knows(x) == closer[x].op # NONE /\ (x \in Reapers \/ closer[x].fence > 0)

Placed(x) ==
    (Knows(x) /\ closer[x].op \notin carried) =>
        /\ Native(closer[x].op) \in issued
        /\ (Registered /\ registrant = Native(closer[x].op)) => row.closeOp = closer[x].op

(* What a closer has done to the present session: every generation but the  *)
(* ones still on its list is deleted and recorded.                          *)
Deleting == {"prepare", "delete", "confirm", "record"}
Clean(p) == gens[p].state \in {"absent", "deleted"} /\ ~storage[p]

Works(x) ==
    /\ row.lifecycle = "closing"
    /\ row.closeOp = closer[x].op
    /\ closer[x].op \notin carried

Cleaned(x) ==
    /\ closer[x].pc \in Deleting \cup {"settle"} =>
         \A p \in Principals \ closer[x].todo : Clean(p)
    /\ closer[x].pc \in {"confirm", "record"} => ~storage[Min(closer[x].todo)]
    /\ closer[x].pc = "finalize" =>
         \/ \A p \in Principals : Clean(p)
         \/ row.owner # x
         \/ row.fence # closer[x].fence
         \/ row.lease + closer[x].age <= 0

Listed(x) ==
    /\ closer[x].pc \in Deleting => closer[x].todo # {}
    /\ closer[x].pc = "settle" => closer[x].todo = {}
    /\ Works(x) => Cleaned(x)
    /\ closer[x].pc = "incomplete" => closer[x].op \in carried

CloseInv ==
    /\ IInv
    /\ ClosersTypeOK
    /\ SessionKnown
    /\ \A x \in Closers : Holds(x) /\ Placed(x) /\ Listed(x)

-----------------------------------------------------------------------------
(* The constants: each bound closer has its holder, and the operation of a  *)
(* closer or of a registration belongs to that registration.                *)
LEMMA CloserFacts ==
    /\ LiveClosers \subseteq CloseOwners
    /\ \A x \in LiveClosers : Holder(x) \in DOMAIN LiveCloser /\ Holder(x) \in LeaseOwners
    /\ CloseOps = LiveClosers \cup LeaseOwners
    /\ \A o \in LeaseOwners : o \notin LiveClosers /\ Native(o) = o
    /\ \A x \in LiveClosers : Native(x) = Holder(x)
    /\ NONE \notin CloseOps /\ NONE \notin LeaseOwners /\ NONE \notin CloseOwners
<1>1. LiveClosers \subseteq CloseOwners
  BY CloserAssumption DEF LiveClosers, Range
<1>2. ASSUME NEW x \in LiveClosers PROVE Holder(x) \in DOMAIN LiveCloser
  <2>1. \E o \in DOMAIN LiveCloser : LiveCloser[o] = x
    BY DEF LiveClosers, Range
  <2> QED BY <2>1 DEF Holder
<1>3. CloseOps = LiveClosers \cup LeaseOwners
  BY CloserAssumption DEF LiveClosers
<1> QED BY <1>1, <1>2, <1>3, CloserAssumption, IdentityAssumption DEF Native

(* A step of a closer changes its own record only.                          *)
LEMMA GoesTo ==
    ASSUME ClosersTypeOK, NEW x \in Closers, NEW state \in CloserState, Goes(x, state)
    PROVE  /\ closer' \in [Closers -> CloserState]
           /\ \A y \in Closers \ {x} : closer'[y] = closer[y]
           /\ closer'[x].pc = state.pc /\ closer'[x].op = state.op
           /\ closer'[x].fence = state.fence /\ closer'[x].todo = state.todo
           /\ closer'[x].age = 0
<1>0. 0 \in 0..Skew
  BY DurationAssumption
<1>1. /\ [state EXCEPT !.age = 0] \in CloserState
      /\ [state EXCEPT !.age = 0].pc = state.pc /\ [state EXCEPT !.age = 0].op = state.op
      /\ [state EXCEPT !.age = 0].fence = state.fence
      /\ [state EXCEPT !.age = 0].todo = state.todo /\ [state EXCEPT !.age = 0].age = 0
  BY <1>0 DEF CloserState
<1>2. closer' = [closer EXCEPT ![x] = [state EXCEPT !.age = 0]]
  BY DEF Goes
<1> QED BY <1>1, <1>2 DEF ClosersTypeOK

(* The least of the generations on a list is on the list.                   *)
LEMMA MinOfList ==
    ASSUME NEW S \in SUBSET Principals, S # {}
    PROVE  Min(S) \in S
<1>0. Principals \subseteq Nat
  BY BoundAssumption DEF Principals
<1>1. PICK x \in S : \A y \in S : ~(<<y, x>> \in OpToRel(<, Nat))
  <2> S \subseteq Nat
    BY <1>0
  <2> QED BY NatLessThanWellFounded, WFMin
<1>2. ASSUME NEW y \in S PROVE x =< y
  <2>1. x \in Nat /\ y \in Nat
    BY <1>0
  <2>2. (y < x) => <<y, x>> \in {ss \in Nat \X Nat : ss[1] < ss[2]}
    BY <2>1
  <2>3. <<y, x>> \notin {ss \in Nat \X Nat : ss[1] < ss[2]}
    BY <1>1, Zenon DEF OpToRel
  <2> QED BY <2>1, <2>2, <2>3
<1> QED BY <1>2 DEF Min

-----------------------------------------------------------------------------
(* What the call of a closer does to the session.                           *)

Untouched ==
    UNCHANGED <<row, gens, receipts, storage, issued, claims, quiet, saver,
                registrant, carried>>

ClaimedOp(x) == IF closer[x].op = NONE THEN registrant ELSE closer[x].op

Refreshes(x) ==
    /\ closer[x].pc \in Pressing
    /\ \E s \in Readings(x) : RefreshClose(Authority(x), s)
    /\ Unregistered

Begins(x) ==
    /\ x \in LiveClosers
    /\ \E s \in Readings(x) : BeginClose(Holder(x), x, x, s)
    /\ Unregistered

Claims(x) ==
    /\ closer[x].pc = "claim"
    /\ row.closeOp \in {NONE, closer[x].op}
    /\ \E s \in Readings(x) : ClaimExpired(ClaimedOp(x), x, s)
    /\ carried' = IF row.closeOp = NONE /\ closer[x].op # NONE
                    THEN carried \cup {ClaimedOp(x)} ELSE carried
    /\ UNCHANGED <<registrant, saver>>

Deletes(x) ==
    /\ closer[x].pc = "delete"
    /\ \E s \in Readings(x) : CloseDelete(Authority(x), Min(closer[x].todo), s)
    /\ UNCHANGED <<registrant, carried>>

Records(x) ==
    /\ closer[x].pc = "record"
    /\ \E s \in Readings(x) :
         RecordCloseCheckpointDeletion(Authority(x), Min(closer[x].todo), s)
    /\ Unregistered

Finalizes(x) ==
    /\ closer[x].pc = "finalize"
    /\ \E s \in Readings(x) : FinalizeClose(Authority(x), s)
    /\ Unregistered

Purges ==
    /\ PurgeClosedTombstones
    /\ registrant' = NONE
    /\ UNCHANGED <<carried, saver>>

CallEffect(x) ==
    \/ Untouched
    \/ Refreshes(x)
    \/ Begins(x)
    \/ Claims(x)
    \/ Deletes(x)
    \/ Records(x)
    \/ Finalizes(x)
    \/ Purges

Acts(x) == CloserCall(x) \/ LiveBegin(x) \/ Retry(x) \/ CallFails(x)

LEMMA RefusedEffect ==
    ASSUME NEW x, NEW state, Refused(x, state)
    PROVE  CallEffect(x)
BY DEF Refused, CallEffect, Untouched

LEMMA BeginEffect ==
    ASSUME NEW x \in LiveClosers, NEW state, BeginLiveClose(x, Holder(x), state)
    PROVE  CallEffect(x)
<1>1. PICK s \in Readings(x) :
        \/ Refused(x, [state EXCEPT !.fence = row.fence, !.todo = Retained])
        \/ BeginClose(Holder(x), x, x, s) /\ Unregistered
  BY DEF BeginLiveClose
<1> QED BY <1>1, RefusedEffect DEF CallEffect, Begins

LEMMA RefreshEffect ==
    ASSUME NEW x, NEW state, closer[x].pc \in Pressing, Refresh(x, state)
    PROVE  CallEffect(x)
BY DEF Refresh, CallEffect, Refreshes

LEMMA CallEffects ==
    ASSUME NEW x \in Closers, Holds(x), Acts(x)
    PROVE  CallEffect(x)
<1>1. CASE CloseCompleted(x) \/ Retry(x) \/ ListGenerations(x) \/ Sweep(x)
  BY <1>1, RefusedEffect DEF CloseCompleted, Retry, ListGenerations, Sweep
<1>2. CASE Inspect(x)
  BY <1>2, RefusedEffect, RefreshEffect DEF Inspect, Pressing
<1>3. CASE BeginAgain(x)
  BY <1>3, RefusedEffect, BeginEffect DEF BeginAgain, Holds
<1>4. CASE LiveBegin(x)
  BY <1>4, RefusedEffect, BeginEffect DEF LiveBegin
<1>5. CASE StartFinalize(x)
  BY <1>5, RefusedEffect, RefreshEffect DEF StartFinalize, RefreshRaises, Pressing
<1>6. ASSUME NEW at \in Pressing, NEW next, RefreshAround(x, at, next)
      PROVE  CallEffect(x)
  BY <1>6, RefusedEffect, RefreshEffect DEF RefreshAround, RefreshRaises
<1>7. CASE DeleteGeneration(x)
  BY <1>7, RefusedEffect DEF DeleteGeneration, CallEffect, Deletes
<1>8. CASE RecordDeletion(x)
  BY <1>8, RefusedEffect DEF RecordDeletion, CallEffect, Records
<1>9. CASE Finalize(x)
  BY <1>9, RefusedEffect DEF Finalize, CallEffect, Finalizes
<1>10. CASE ReaperClaim(x)
  BY <1>10, RefusedEffect DEF ReaperClaim, CallEffect, Claims, ClaimedOp
<1>11. CASE ReaperPurge(x)
  BY <1>11, RefusedEffect DEF ReaperPurge, CallEffect, Purges
<1>12. CASE CallFails(x)
  BY <1>12 DEF CallFails, Unregistered, CallEffect, Untouched
<1> QED
  BY <1>1, <1>2, <1>3, <1>4, <1>5, <1>6, <1>7, <1>8, <1>9, <1>10, <1>11, <1>12
  DEF Acts, CloserCall, Pressing

-----------------------------------------------------------------------------
(* Every step of the protocol is a step of the registry and the data plane. *)

LEMMA EffectIsStep ==
    ASSUME CloseInv, NEW x \in Closers, CallEffect(x)
    PROVE  [Next]_vars
<1>0. /\ Holds(x) /\ Listed(x) /\ closer[x] \in CloserState /\ x \in CloseOwners
      /\ Readings(x) \subseteq 0..quiet
  BY DEF CloseInv, ClosersTypeOK, Closers, Readings
<1>1. closer[x].pc \in Pressing => Authority(x) \in claims
  BY <1>0 DEF Holds
<1>2. CASE Untouched
  BY <1>2 DEF Untouched, vars
<1>3. CASE Refreshes(x)
  BY <1>0, <1>1, <1>3 DEF Refreshes, Unregistered, Next, RegistryStep
<1>4. CASE Begins(x)
  BY <1>0, <1>4, CloserFacts DEF Begins, Unregistered, Next, RegistryStep
<1>5. CASE Claims(x)
  <2>1. row.lifecycle \in Open \cup {"closing"}
    BY <1>5 DEF Claims, ClaimExpired
  <2>2. registrant \in LeaseOwners
    BY <2>1 DEF CloseInv, SessionKnown, Registered, IInv, TypeOK, Open
  <2>3. ClaimedOp(x) \in CloseOps
    BY <1>0, <2>2, CloserFacts DEF ClaimedOp, CloserState
  <2> QED BY <1>0, <1>5, <2>3 DEF Claims, Next, RegistryStep
<1>6. closer[x].pc \in Deleting => Min(closer[x].todo) \in Principals
  BY <1>0, MinOfList DEF Listed, CloserState
<1>7. CASE Deletes(x)
  BY <1>0, <1>1, <1>6, <1>7 DEF Deletes, Next, Pressing, Deleting
<1>8. CASE Records(x)
  BY <1>0, <1>1, <1>6, <1>8
  DEF Records, Unregistered, Next, RegistryStep, Pressing, Deleting
<1>9. CASE Finalizes(x)
  BY <1>0, <1>1, <1>9 DEF Finalizes, Unregistered, Next, RegistryStep, Pressing
<1>10. CASE Purges
  BY <1>10 DEF Purges, Next, RegistryStep
<1> QED
  BY <1>2, <1>3, <1>4, <1>5, <1>7, <1>8, <1>9, <1>10 DEF CallEffect

LEMMA CloseStepIsStep == CloseInv /\ [CloseNext]_closeVars => [Next]_vars
<1> SUFFICES ASSUME CloseInv, [CloseNext]_closeVars PROVE [Next]_vars
  OBVIOUS
<1>1. ASSUME NEW o \in LeaseOwners, HolderStep(o) PROVE [Next]_vars
  BY <1>1 DEF HolderStep, Next, RegistryStep
<1>2. ASSUME NEW x \in Closers, Acts(x) PROVE [Next]_vars
  BY <1>2, CallEffects, EffectIsStep DEF CloseInv
<1>3. CASE TimePassesClosing
  BY <1>3 DEF TimePassesClosing, Next
<1>4. CASE UNCHANGED closeVars
  BY <1>4 DEF closeVars, vars
<1> QED BY <1>1, <1>2, <1>3, <1>4 DEF CloseNext, Acts

(* What a step of the registry or the data plane never does to a session    *)
(* that is being closed, nor to the record of what was granted.             *)
LEMMA StepKeepsClean ==
    ASSUME IInv, [Next]_vars
    PROVE  /\ issued \subseteq issued' /\ claims \subseteq claims'
           /\ (row.lifecycle = "closing" /\ row'.lifecycle = "closing") =>
                \A p \in Principals :
                    /\ Clean(p) => Clean(p)'
                    /\ storage'[p] => storage[p]
                    /\ gens[p].state # "absent" => gens'[p].state # "absent"
<1> DEFINE Kept ==
      /\ issued \subseteq issued' /\ claims \subseteq claims'
      /\ \/ gens' = gens
         \/ row.lifecycle # "closing"
         \/ row'.lifecycle # "closing"
         \/ \E q \in Principals :
              gens[q].state # "absent" /\ gens' = [gens EXCEPT ![q].state = "deleted"]
<1>1. ASSUME NEW o \in LeaseOwners, LeaseStep(o) PROVE Kept
  BY <1>1 DEF LeaseStep, RegisterAndAcquire, Activate, Renew, Publish,
         BeginCheckpointRotation, SwitchCheckpointGeneration,
         RecordCheckpointDeletion, LeaseAuthorized, Open
<1>2. ASSUME NEW op, NEW k, NEW s, TakeCloseLease(op, k, s) PROVE Kept
  BY <1>2 DEF TakeCloseLease
<1>3. ASSUME NEW c, NEW s, RefreshClose(c, s) PROVE Kept
  BY <1>2, <1>3 DEF RefreshClose
<1>4. ASSUME NEW c, NEW s, NEW p \in Principals, RecordCloseCheckpointDeletion(c, p, s)
      PROVE  Kept
  BY <1>4 DEF RecordCloseCheckpointDeletion
<1>5. ASSUME NEW c, NEW s, FinalizeClose(c, s) PROVE Kept
  BY <1>5, RowTyped DEF FinalizeClose, SessionRow
<1>6. PurgeClosedTombstones => Kept
  BY DEF PurgeClosedTombstones
<1>7. RegistryStep => Kept
  <2> HIDE DEF Kept
  <2>1. \A o, op, k, s : BeginClose(o, op, k, s) => Kept
    BY <1>2 DEF BeginClose
  <2>2. \A op, k, s : ClaimExpired(op, k, s) => Kept
    BY <1>2 DEF ClaimExpired
  <2> QED BY <1>1, <1>3, <1>4, <1>5, <1>6, <2>1, <2>2 DEF RegistryStep
<1>8. ASSUME NEW o \in LeaseOwners, SaverStep(o) PROVE Kept
  BY <1>8 DEF SaverStep, BeginOperation, CommitOperation, RollbackOperation, registryVars
<1>9. Kept
  <2>1. ASSUME NEW c, NEW s, NEW p, CloseDelete(c, p, s) PROVE Kept
    BY <2>1 DEF CloseDelete
  <2>2. CASE Tick
    BY <2>2 DEF Tick, RegistryTick
  <2>3. CASE UNCHANGED vars
    BY <2>3 DEF vars
  <2> QED BY <1>7, <1>8, <2>1, <2>2, <2>3 DEF Next
<1>10. AddsNoDataInClose
  BY StepAddsNoData
<1>11. gens \in [Principals -> CheckpointGeneration]
  BY DEF IInv, TypeOK
<1>12. ASSUME row.lifecycle = "closing", row'.lifecycle = "closing", NEW p \in Principals
       PROVE  /\ gens'[p].state = gens[p].state
                 \/ (gens[p].state # "absent" /\ gens'[p].state = "deleted")
              /\ storage'[p] => storage[p]
  <2>1. storage'[p] => storage[p]
    BY <1>10, <1>12 DEF AddsNoDataInClose
  <2>2. CASE gens' = gens
    BY <2>1, <2>2
  <2>3. ASSUME NEW q \in Principals, gens[q].state # "absent",
               gens' = [gens EXCEPT ![q].state = "deleted"]
        PROVE  gens'[p].state = gens[p].state
                 \/ (gens[p].state # "absent" /\ gens'[p].state = "deleted")
    BY <2>3, <1>11 DEF CheckpointGeneration
  <2> QED BY <1>9, <1>12, <2>1, <2>2, <2>3
<1> QED BY <1>9, <1>12 DEF Clean

-----------------------------------------------------------------------------
(* What a step may do to the session as a whole.                            *)

SessionMoves ==
    /\ carried \subseteq carried' /\ issued \subseteq issued' /\ claims \subseteq claims'
    /\ Registered' =>
         \/ /\ Registered /\ registrant' = registrant
            /\ row.closeOp # NONE => row'.closeOp = row.closeOp
         \/ ~Registered /\ registrant' \notin issued
    /\ row'.lifecycle = "closing" =>
         \/ row.lifecycle \in Open /\ row.closeOp = NONE
         \/ /\ row.lifecycle = "closing"
            /\ \A p \in Principals : (Clean(p) => Clean(p)') /\ (storage'[p] => storage[p])

LEMMA SessionKept ==
    ASSUME CloseInv, [Next]_vars, UNCHANGED <<registrant, carried>>,
           row'.closeOp = row.closeOp,
           \/ row'.lifecycle = row.lifecycle /\ row'.owner = row.owner
           \/ row.lifecycle \in Open /\ row'.lifecycle \in Open /\ row'.owner = row.owner
           \/ row.lifecycle = "closing" /\ row'.lifecycle = "closed"
    PROVE  SessionMoves /\ SessionKnown'
<1>0. IInv /\ SessionKnown
  BY DEF CloseInv
<1>1. /\ issued \subseteq issued' /\ claims \subseteq claims'
      /\ (row.lifecycle = "closing" /\ row'.lifecycle = "closing") =>
           \A p \in Principals :
               /\ Clean(p) => Clean(p)'
               /\ storage'[p] => storage[p]
               /\ gens[p].state # "absent" => gens'[p].state # "absent"
  BY <1>0, StepKeepsClean
<1>2. SessionMoves
  BY <1>1 DEF SessionMoves, Registered, Open
<1>3. /\ Registered' => registrant' \in issued'
      /\ row'.lifecycle \in Open => registrant' = row'.owner
      /\ row'.lifecycle = "closing" => \E p \in Principals : gens'[p].state # "absent"
  BY <1>0, <1>1 DEF SessionKnown, Registered, Open
<1>4. \A x \in LiveClosers :
        (row'.lifecycle = "closing" /\ row'.owner = x) => row'.closeOp = x
  BY <1>0 DEF SessionKnown, Open
<1> QED BY <1>0, <1>2, <1>3, <1>4 DEF SessionKnown

LEMMA SessionTaken ==
    ASSUME CloseInv, [Next]_vars, NEW x \in Closers, NEW op \in CloseOps, NEW s,
           TakeCloseLease(op, x, s), row.lifecycle \in Open \cup {"closing"},
           registrant' = registrant, carried \subseteq carried',
           (row.closeOp = NONE /\ op \notin carried') => registrant = Native(op),
           x \in LiveClosers => op = x
    PROVE  /\ SessionMoves /\ SessionKnown'
           /\ row'.lifecycle = "closing" /\ row'.owner = x /\ row'.closeOp = op
           /\ UNCHANGED <<gens, storage, issued>>
           /\ [op |-> op, owner |-> x, fence |-> row'.fence] \in claims'
<1>0. /\ IInv /\ SessionKnown /\ RowValid /\ InventoryConsistent /\ row \in SessionRow
      /\ row.principal \in Principals
  BY DEF CloseInv, IInv, TypeOK, SessionRow
<1>1. /\ row'.lifecycle = "closing" /\ row'.owner = x /\ row'.closeOp = op
      /\ row'.fence = row.fence + 1
      /\ UNCHANGED <<gens, storage, issued>> /\ row.closeOp \in {NONE, op}
      /\ claims' = claims \cup {[op |-> op, owner |-> x, fence |-> row.fence + 1]}
  BY <1>0 DEF TakeCloseLease, SessionRow
<1>2. SessionMoves
  BY <1>0, <1>1 DEF SessionMoves, Registered, RowValid, Open, Clean
<1>3. \E p \in Principals : gens'[p].state # "absent"
  BY <1>0, <1>1 DEF SessionKnown, InventoryConsistent
<1>4. (row'.closeOp # NONE /\ row'.closeOp \notin carried') =>
        registrant' = Native(row'.closeOp)
  BY <1>0, <1>1 DEF SessionKnown
<1>5. Registered' => registrant' \in issued'
  BY <1>0, <1>1 DEF SessionKnown, Registered, Open
<1> QED BY <1>1, <1>2, <1>3, <1>4, <1>5 DEF SessionKnown, Open

LEMMA SessionReborn ==
    ASSUME CloseInv, carried' = carried,
           \/ Purges
           \/ \E o \in LeaseOwners : RegisterAndAcquire(o) /\ registrant' = o
    PROVE  SessionMoves /\ SessionKnown'
<1>1. CASE Purges
  <2>1. row'.lifecycle = "absent" /\ row'.closeOp = NONE /\ UNCHANGED <<issued, claims>>
    BY <1>1 DEF Purges, PurgeClosedTombstones, NoRow
  <2> QED BY <2>1 DEF SessionMoves, SessionKnown, Registered, Open
<1>2. ASSUME NEW o \in LeaseOwners, RegisterAndAcquire(o), registrant' = o
      PROVE  SessionMoves /\ SessionKnown'
  <2>1. /\ row.lifecycle = "absent" /\ o \notin issued /\ issued' = issued \cup {o}
        /\ row'.lifecycle = "opening" /\ row'.closeOp = NONE /\ row'.owner = o
        /\ claims' = claims
    BY <1>2 DEF RegisterAndAcquire, NoRow
  <2> QED BY <1>2, <2>1 DEF SessionMoves, SessionKnown, Registered, Open
<1> QED BY <1>1, <1>2

(* Only a closer itself makes it the owner of a close or prolongs its lease. *)
OwnerFixed(y) ==
    (row'.lifecycle = "closing" /\ row'.owner = y) =>
        /\ row.lifecycle = "closing" /\ row.owner = y /\ row'.fence = row.fence
        /\ row.lease + closer[y].age <= 0 => row'.lease + closer'[y].age <= 0

LEMMA EffectMoves ==
    ASSUME CloseInv, NEW x \in Closers, CallEffect(x),
           \A y \in Closers \ {x} : closer'[y] = closer[y]
    PROVE  /\ SessionMoves /\ SessionKnown'
           /\ \A y \in Closers \ {x} : OwnerFixed(y)
<1>n. [Next]_vars
  BY EffectIsStep
<1>0. /\ IInv /\ SessionKnown /\ Holds(x) /\ closer[x] \in CloserState
      /\ row \in SessionRow /\ x \in CloseOwners /\ RowValid
  BY DEF CloseInv, ClosersTypeOK, IInv, TypeOK, Closers
<1> DEFINE Goal == /\ SessionMoves /\ SessionKnown'
                   /\ \A y \in Closers \ {x} : OwnerFixed(y)
<1>1. CASE Untouched \/ Deletes(x) \/ Records(x)
  <2>1. UNCHANGED <<row, registrant, carried>>
    BY <1>1 DEF Untouched, Deletes, Records, CloseDelete, RecordCloseCheckpointDeletion,
                Unregistered
  <2> QED BY <1>n, <2>1, SessionKept DEF OwnerFixed
<1>2. CASE Refreshes(x)
  <2>1. PICK s \in Readings(x) : RefreshClose(Authority(x), s)
    BY <1>2 DEF Refreshes
  <2>2. UNCHANGED <<registrant, carried>> /\ row.lifecycle = "closing"
        /\ row.closeOp = closer[x].op
    BY <1>2, <2>1 DEF Refreshes, Unregistered, RefreshClose, Authority
  <2>3. closer[x].op \in CloseOps /\ closer[x].op # NONE
    BY <1>0, <2>2, CloserFacts DEF CloserState, RowValid, Holds, Refreshes, IInv, TypeOK,
                                   SessionCloseAuthority
  <2>4. CASE TakeCloseLease(closer[x].op, x, s)
    <3>1. x \in LiveClosers => closer[x].op = x
      BY <1>0 DEF Holds
    <3>2. /\ SessionMoves /\ SessionKnown'
          /\ row'.lifecycle = "closing" /\ row'.owner = x
      BY <1>n, <2>2, <2>3, <2>4, <3>1, SessionTaken
    <3> QED BY <3>2 DEF OwnerFixed
  <2>5. CASE /\ row.owner = x
             /\ row' = [row EXCEPT !.lease = Max({row.lease, CloseDuration - s})]
    <3>1. row'.lifecycle = row.lifecycle /\ row'.owner = x /\ row'.closeOp = row.closeOp
      BY <1>0, <2>5 DEF SessionRow
    <3>2. SessionMoves /\ SessionKnown'
      BY <1>n, <2>2, <2>5, <3>1, SessionKept
    <3> QED BY <3>1, <3>2 DEF OwnerFixed
  <2> QED BY <2>1, <2>4, <2>5 DEF RefreshClose, Authority
<1>3. CASE Begins(x)
  <2>1. PICK s \in Readings(x) : BeginClose(Holder(x), x, x, s)
    BY <1>3 DEF Begins
  <2>2. x \in LiveClosers /\ UNCHANGED <<registrant, carried>> /\ x \in CloseOps
        /\ Native(x) = Holder(x) /\ TakeCloseLease(x, x, s)
    BY <1>3, <2>1, CloserFacts DEF Begins, Unregistered, BeginClose
  <2>3. /\ row.lifecycle \in Open \cup {"closing"}
        /\ row.closeOp = NONE => registrant = Holder(x)
    BY <1>0, <2>1, <2>2, CloserFacts DEF BeginClose, LeaseAuthorized, SessionKnown
  <2>4. /\ SessionMoves /\ SessionKnown'
        /\ row'.lifecycle = "closing" /\ row'.owner = x
    BY <1>n, <2>2, <2>3, SessionTaken
  <2> QED BY <2>4 DEF OwnerFixed
<1>4. CASE Claims(x)
  <2>1. PICK s \in Readings(x) : ClaimExpired(ClaimedOp(x), x, s)
    BY <1>4 DEF Claims
  <2>2. /\ row.lifecycle \in Open \cup {"closing"} /\ registrant' = registrant
        /\ TakeCloseLease(ClaimedOp(x), x, s) /\ x \notin LiveClosers
        /\ carried' = IF row.closeOp = NONE /\ closer[x].op # NONE
                        THEN carried \cup {ClaimedOp(x)} ELSE carried
    BY <1>0, <1>4, <2>1 DEF Claims, ClaimExpired, Holds
  <2>3. registrant \in LeaseOwners
    BY <1>0, <2>2 DEF SessionKnown, Registered, IInv, TypeOK, Open
  <2>4. ClaimedOp(x) \in CloseOps
    BY <1>0, <2>3, CloserFacts DEF ClaimedOp, CloserState
  <2>5. (row.closeOp = NONE /\ ClaimedOp(x) \notin carried') =>
          registrant = Native(ClaimedOp(x))
    BY <2>2, <2>3, CloserFacts DEF ClaimedOp
  <2>6. carried \subseteq carried'
    BY <2>2
  <2>7. /\ SessionMoves /\ SessionKnown'
        /\ row'.lifecycle = "closing" /\ row'.owner = x
    BY <1>n, <2>2, <2>4, <2>5, <2>6, SessionTaken
  <2> QED BY <2>7 DEF OwnerFixed
<1>5. CASE Finalizes(x)
  <2>1. /\ UNCHANGED <<registrant, carried>> /\ row.lifecycle = "closing"
        /\ row'.lifecycle = "closed" /\ row'.closeOp = row.closeOp
    BY <1>0, <1>5 DEF Finalizes, FinalizeClose, CloseAuthorized, Unregistered, SessionRow
  <2> QED BY <1>n, <2>1, SessionKept DEF OwnerFixed
<1>6. CASE Purges
  <2>1. row'.lifecycle = "absent" /\ carried' = carried
    BY <1>6 DEF Purges, PurgeClosedTombstones, NoRow
  <2> QED BY <1>6, <2>1, SessionReborn DEF OwnerFixed
<1> QED BY <1>1, <1>2, <1>3, <1>4, <1>5, <1>6 DEF CallEffect

LEMMA HolderMovesSession ==
    ASSUME CloseInv, NEW o \in LeaseOwners, HolderStep(o)
    PROVE  /\ SessionMoves /\ SessionKnown'
           /\ \A y \in Closers : OwnerFixed(y)
<1>n. [Next]_vars
  BY DEF HolderStep, Next, RegistryStep
<1>0. /\ IInv /\ SessionKnown /\ row \in SessionRow /\ RowValid
      /\ UNCHANGED <<carried, closer>>
      /\ registrant' = IF row.lifecycle = "absent" /\ row'.lifecycle # "absent"
                         THEN o ELSE registrant
  BY DEF CloseInv, IInv, TypeOK, HolderStep
<1>1. CASE RegisterAndAcquire(o)
  <2>1. registrant' = o /\ row'.lifecycle = "opening"
    BY <1>0, <1>1 DEF RegisterAndAcquire, NoRow
  <2> QED BY <1>0, <1>1, <2>1, SessionReborn DEF OwnerFixed
<1>2. CASE row' = row
  <2>1. registrant' = registrant
    BY <1>0, <1>2
  <2> QED BY <1>n, <1>0, <1>2, <2>1, SessionKept DEF OwnerFixed
<1>3. CASE HolderMove
  <2>1. /\ row.lifecycle \in Open /\ row'.lifecycle \in Open /\ row'.owner = row.owner
        /\ row'.closeOp = row.closeOp
    BY <1>3 DEF HolderMove, SameIdentity, Open
  <2>2. registrant' = registrant
    BY <1>0, <2>1 DEF Open
  <2> QED BY <1>n, <1>0, <2>1, <2>2, SessionKept DEF OwnerFixed, Open
<1>4. SaverStep(o) => row' = row
  BY DEF SaverStep, BeginOperation, CommitOperation, RollbackOperation, registryVars
<1>5. LeaseStep(o) => RegisterAndAcquire(o) \/ HolderMove \/ row' = row
  BY <1>0, HolderMoves DEF LeaseStep, BeginCheckpointRotation, RecordCheckpointDeletion
<1> QED BY <1>1, <1>2, <1>3, <1>4, <1>5 DEF HolderStep

LEMMA TimeMovesSession ==
    ASSUME CloseInv, TimePassesClosing
    PROVE  /\ SessionMoves /\ SessionKnown'
           /\ \A y \in Closers : OwnerFixed(y)
<1>n. [Next]_vars
  BY DEF TimePassesClosing, Next
<1>0. /\ IInv /\ ClosersTypeOK /\ row \in SessionRow /\ row.lease \in Ticks
      /\ UNCHANGED <<registrant, carried>>
      /\ closer' = [x \in Closers |-> [closer[x] EXCEPT !.age = Min({@ + 1, Skew})]]
  BY DEF CloseInv, IInv, TypeOK, SessionRow, TimePassesClosing
<1>1. /\ row'.lifecycle = row.lifecycle /\ row'.owner = row.owner
      /\ row'.closeOp = row.closeOp /\ row'.fence = row.fence
      /\ row.lifecycle = "closing" => row'.lease = Countdown(row.lease)
  BY <1>0 DEF TimePassesClosing, Tick, RegistryTick, SessionRow
<1>2. SessionMoves /\ SessionKnown'
  BY <1>n, <1>0, <1>1, SessionKept
<1>3. ASSUME NEW y \in Closers, row.lifecycle = "closing", row.lease + closer[y].age <= 0
      PROVE  row'.lease + closer'[y].age <= 0
  <2>1. /\ closer[y].age \in Int /\ closer[y].age + 1 \in Int /\ Skew \in Int
        /\ row.lease \in Int /\ row.lease - 1 \in Int /\ 0 - Skew \in Int
    BY <1>0, DurationAssumption DEF ClosersTypeOK, CloserState, Ticks, Horizon
  <2>2. closer'[y].age = Min({closer[y].age + 1, Skew})
    BY <1>0 DEF ClosersTypeOK, CloserState
  <2>3. closer'[y].age \in Int /\ closer'[y].age <= closer[y].age + 1 /\ closer'[y].age <= Skew
    <3>1. Min({closer[y].age + 1, Skew}) \in {closer[y].age + 1, Skew}
          /\ Min({closer[y].age + 1, Skew}) <= closer[y].age + 1
          /\ Min({closer[y].age + 1, Skew}) <= Skew
      BY <2>1, MinPair
    <3> QED BY <2>1, <2>2, <3>1
  <2>4. row'.lease \in {row.lease - 1, 0 - Skew}
    BY <1>1, <1>3, <2>1, MaxPair DEF Countdown
  <2> QED BY <1>3, <2>1, <2>3, <2>4
<1> QED BY <1>1, <1>2, <1>3 DEF OwnerFixed

-----------------------------------------------------------------------------
(* What a step leaves of what the closers know.                             *)

LEMMA PlacedKept ==
    ASSUME NEW x \in Closers, SessionMoves, Placed(x), closer'[x].op = closer[x].op,
           x \in Reapers \/ (closer'[x].fence > 0 => closer[x].fence > 0)
    PROVE  Placed(x)'
BY DEF SessionMoves, Placed, Knows

(* An operation the session is closed under is placed there.                *)
LEMMA PlacedHere ==
    ASSUME NEW x \in Closers, SessionKnown', Registered', row'.closeOp = closer'[x].op
    PROVE  Placed(x)'
BY DEF SessionKnown, Placed, Knows

LEMMA PressingKnows ==
    ASSUME CloseInv, NEW x \in Closers, closer[x].fence > 0
    PROVE  closer[x].op \in CloseOps /\ closer[x].op # NONE /\ Knows(x)
<1>1. Authority(x) \in SessionCloseAuthority
  BY DEF CloseInv, Holds, IInv, TypeOK
<1> QED BY <1>1, CloserFacts DEF Authority, SessionCloseAuthority, Knows

(* What a closer did to the present session stays done.                     *)
LEMMA WorksKept ==
    ASSUME NEW x \in Closers, SessionMoves, SessionKnown', Placed(x), Knows(x),
           closer'[x].op = closer[x].op, Works(x)'
    PROVE  /\ Works(x)
           /\ \A p \in Principals : (Clean(p) => Clean(p)') /\ (storage'[p] => storage[p])
<1>1. /\ row'.lifecycle = "closing" /\ row'.closeOp = closer[x].op
      /\ closer[x].op \notin carried' /\ closer[x].op \notin carried
  BY DEF Works, SessionMoves
<1>2. registrant' = Native(closer[x].op) /\ closer[x].op # NONE /\ Registered'
  BY <1>1 DEF SessionKnown, Knows, Registered
<1>3. CASE row.lifecycle \in Open /\ row.closeOp = NONE
  <2>1. Registered /\ registrant' = registrant
    BY <1>2, <1>3 DEF SessionMoves, Registered, Open
  <2>2. row.closeOp = closer[x].op
    BY <1>1, <1>2, <2>1 DEF Placed
  <2> QED BY <1>2, <1>3, <2>2
<1>4. CASE row.lifecycle = "closing"
  <2>1. Registered /\ registrant' = registrant
    BY <1>2, <1>4 DEF SessionMoves, Registered
  <2>2. row.closeOp = closer[x].op
    BY <1>1, <1>2, <2>1 DEF Placed
  <2> QED BY <1>1, <1>4, <2>2 DEF Works, SessionMoves, Open
<1> QED BY <1>1, <1>3, <1>4 DEF SessionMoves

(* A closer that does not act keeps its claim, its place and its list.      *)
LEMMA OthersKeep ==
    ASSUME CloseInv, SessionMoves, SessionKnown', NEW y \in Closers, OwnerFixed(y),
           closer'[y].pc = closer[y].pc, closer'[y].op = closer[y].op,
           closer'[y].fence = closer[y].fence, closer'[y].todo = closer[y].todo
    PROVE  Holds(y)' /\ Placed(y)' /\ Listed(y)'
<1>0. Holds(y) /\ Placed(y) /\ Listed(y) /\ closer[y] \in CloserState
  BY DEF CloseInv, ClosersTypeOK
<1>1. Holds(y)'
  BY <1>0 DEF Holds, SessionMoves, Authority
<1>2. Placed(y)'
  BY <1>0, PlacedKept
<1>3. ASSUME Works(y)', closer[y].pc \in Deleting \cup {"settle", "finalize"}
      PROVE  Cleaned(y)'
  <2>1. Knows(y)
    BY <1>0, <1>3, PressingKnows DEF Holds, Deleting, Pressing
  <2>2. /\ Works(y)
        /\ \A p \in Principals : (Clean(p) => Clean(p)') /\ (storage'[p] => storage[p])
    BY <1>0, <1>3, <2>1, WorksKept
  <2>3. Cleaned(y)
    BY <1>0, <2>2 DEF Listed
  <2>4. closer[y].pc \in Deleting => Min(closer[y].todo) \in Principals
    BY <1>0, MinOfList DEF Listed, CloserState
  <2>5. closer'[y].pc \in Deleting \cup {"settle"} =>
          \A p \in Principals \ closer'[y].todo : Clean(p)'
    BY <2>2, <2>3 DEF Cleaned
  <2>6. closer'[y].pc \in {"confirm", "record"} => ~storage'[Min(closer'[y].todo)]
    BY <2>2, <2>3, <2>4 DEF Cleaned, Deleting
  <2>7. closer'[y].pc = "finalize" =>
          \/ \A p \in Principals : Clean(p)'
          \/ row'.owner # y
          \/ row'.fence # closer'[y].fence
          \/ row'.lease + closer'[y].age <= 0
    <3>1. row'.lifecycle = "closing"
      BY <1>3 DEF Works
    <3> QED BY <2>2, <2>3, <3>1 DEF Cleaned, OwnerFixed
  <2> QED BY <2>5, <2>6, <2>7 DEF Cleaned
<1>4. (Works(y)' /\ closer[y].pc \notin Deleting \cup {"settle", "finalize"}) => Cleaned(y)'
  BY DEF Cleaned, Deleting
<1>5. Listed(y)'
  BY <1>0, <1>3, <1>4 DEF Listed, SessionMoves
<1> QED BY <1>1, <1>2, <1>5

-----------------------------------------------------------------------------
(* What a step leaves of what the acting closer knows.                      *)

Moved == SessionMoves /\ SessionKnown' /\ IInv'
Informed(x) == Holds(x) /\ Placed(x) /\ Listed(x)

(* It goes on under the same claim, or without one, and lists nothing.      *)
Plain == {"idle", "failed", "finalized", "check", "inspect", "refresh", "list", "retry",
          "purge"}

LEMMA OwnPlain ==
    ASSUME CloseInv, Moved, NEW x \in Closers, NEW state \in CloserState, Goes(x, state),
           state.op = closer[x].op, state.fence = closer[x].fence, state.pc \in Plain,
           state.pc \in {"inspect", "refresh", "list"} => closer[x].fence > 0,
           state.pc = "retry" => x \in LiveClosers
    PROVE  Informed(x)'
<1>0. Holds(x) /\ Placed(x) /\ ClosersTypeOK
  BY DEF CloseInv
<1>1. /\ closer'[x].pc = state.pc /\ closer'[x].op = closer[x].op
      /\ closer'[x].fence = closer[x].fence
  BY <1>0, GoesTo
<1>2. Holds(x)'
  BY <1>0, <1>1 DEF Moved, SessionMoves, Holds, Authority, Pressing, Plain
<1>3. Placed(x)'
  BY <1>0, <1>1, PlacedKept DEF Moved
<1>4. Listed(x)'
  BY <1>1 DEF Listed, Cleaned, Deleting, Plain
<1> QED BY <1>2, <1>3, <1>4 DEF Informed

LEMMA RaisedTyped ==
    ASSUME ClosersTypeOK, NEW x \in Closers
    PROVE  /\ Raised(x) \in CloserState /\ Raised(x).op = closer[x].op
           /\ Raised(x).fence = closer[x].fence /\ Raised(x).pc \in {"purge", "failed"}
           /\ NotEligible(x) \in CloserState /\ NotEligible(x).op = closer[x].op
           /\ NotEligible(x).fence = closer[x].fence
           /\ NotEligible(x).pc \in {"purge", "failed", "retry"}
           /\ NotEligible(x).pc = "retry" => x \in LiveClosers
           /\ Done(x) \in CloserState /\ Done(x).op = closer[x].op
           /\ Done(x).fence = closer[x].fence /\ Done(x).pc \in {"purge", "finalized"}
<1>0. closer[x] \in CloserState
  BY DEF ClosersTypeOK
<1>1. /\ Raised(x) \in CloserState /\ Raised(x).op = closer[x].op
      /\ Raised(x).fence = closer[x].fence /\ Raised(x).pc \in {"purge", "failed"}
  BY <1>0 DEF Raised, CloserState, AtRest, Calls
<1>2. /\ Done(x) \in CloserState /\ Done(x).op = closer[x].op
      /\ Done(x).fence = closer[x].fence /\ Done(x).pc \in {"purge", "finalized"}
  BY <1>0 DEF Done, CloserState, AtRest, Calls
<1>3. CASE x \in LiveClosers /\ ~closer[x].retried
  <2>1. NotEligible(x) = [closer[x] EXCEPT !.pc = "retry", !.retried = TRUE]
    BY <1>3 DEF NotEligible
  <2> QED BY <1>0, <1>1, <1>2, <1>3, <2>1 DEF CloserState, AtRest, Calls
<1>4. CASE ~(x \in LiveClosers /\ ~closer[x].retried)
  BY <1>1, <1>2, <1>4 DEF NotEligible
<1> QED BY <1>3, <1>4

LEMMA OwnRaised ==
    ASSUME CloseInv, Moved, NEW x \in Closers,
           \/ Goes(x, Raised(x)) \/ Refused(x, Raised(x))
           \/ Goes(x, NotEligible(x)) \/ Refused(x, NotEligible(x))
           \/ Goes(x, Done(x)) \/ Refused(x, Done(x))
    PROVE  Informed(x)'
<1>1. ClosersTypeOK
  BY DEF CloseInv
<1>2. Goes(x, Raised(x)) => Informed(x)'
  BY <1>1, RaisedTyped, OwnPlain DEF Plain
<1>3. Goes(x, NotEligible(x)) => Informed(x)'
  BY <1>1, RaisedTyped, OwnPlain DEF Plain
<1>4. Goes(x, Done(x)) => Informed(x)'
  BY <1>1, RaisedTyped, OwnPlain DEF Plain
<1> QED BY <1>2, <1>3, <1>4 DEF Refused

(* The claim of the present session, granted or granted again.              *)
LEMMA ClaimGranted ==
    ASSUME Moved, NEW x \in Closers, row'.lifecycle = "closing", row'.owner = x,
           closer'[x].op = row'.closeOp, closer'[x].fence = row'.fence,
           x \in LiveClosers => closer'[x].op = x,
           closer'[x].pc \in Pressing
    PROVE  Holds(x)' /\ Placed(x)'
<1>1. /\ [op |-> row'.closeOp, owner |-> row'.owner, fence |-> row'.fence] \in claims'
      /\ row'.fence >= 1 /\ row'.fence \in Int
  <2>1. RowValid' /\ row' \in SessionRow
    BY DEF Moved, IInv, TypeOK
  <2>2. row'.fence \in 0..MaxFence
    BY <2>1 DEF SessionRow
  <2> QED BY <2>1, <2>2, BoundAssumption DEF RowValid
<1>2. Holds(x)'
  BY <1>1 DEF Holds, Authority, Pressing
<1>3. Placed(x)'
  BY PlacedHere DEF Moved, Registered
<1> QED BY <1>2, <1>3

LEMMA RefreshedRow ==
    ASSUME CloseInv, NEW x \in Closers, NEW s \in Readings(x), RefreshClose(Authority(x), s)
    PROVE  /\ row'.lifecycle = "closing" /\ row'.owner = x
           /\ row'.closeOp = closer[x].op
<1>0. row \in SessionRow
  BY DEF CloseInv, IInv, TypeOK
<1>1. CASE TakeCloseLease(closer[x].op, x, s)
  BY <1>0, <1>1 DEF TakeCloseLease, SessionRow
<1>2. CASE row.owner = x /\ row' = [row EXCEPT !.lease = Max({row.lease, CloseDuration - s})]
  BY <1>0, <1>2 DEF RefreshClose, Authority, SessionRow
<1> QED BY <1>1, <1>2 DEF RefreshClose, Authority

LEMMA OwnRefreshed ==
    ASSUME CloseInv, Moved, NEW x \in Closers, NEW state \in CloserState,
           closer[x].pc \in Pressing, Refresh(x, state), state.op = closer[x].op,
           \/ state.pc \in {"inspect", "list"}
           \/ /\ closer[x].pc = "prepare" /\ state.pc = "delete"
              /\ state.todo = closer[x].todo
           \/ /\ closer[x].pc = "confirm" /\ state.pc = "record"
              /\ state.todo = closer[x].todo
           \/ closer[x].pc = "settle" /\ state.pc = "finalize"
    PROVE  Informed(x)'
<1>0. /\ Holds(x) /\ Placed(x) /\ Listed(x) /\ ClosersTypeOK /\ closer[x] \in CloserState
      /\ closer[x].fence > 0
  BY DEF CloseInv, ClosersTypeOK, Holds
<1>1. PICK s \in Readings(x) :
        /\ RefreshClose(Authority(x), s)
        /\ Answered(x, [state EXCEPT !.fence = row'.fence])
  BY DEF Refresh
<1>2. /\ row'.lifecycle = "closing" /\ row'.owner = x /\ row'.closeOp = closer[x].op
  BY <1>1, RefreshedRow
<1>3. CASE Goes(x, Raised(x))
  BY <1>3, OwnRaised
<1>4. CASE Goes(x, [state EXCEPT !.fence = row'.fence])
  <2>1. row'.fence \in 0..MaxFence
    BY DEF Moved, IInv, TypeOK, SessionRow
  <2>2. /\ [state EXCEPT !.fence = row'.fence] \in CloserState
        /\ [state EXCEPT !.fence = row'.fence].pc = state.pc
        /\ [state EXCEPT !.fence = row'.fence].op = state.op
        /\ [state EXCEPT !.fence = row'.fence].todo = state.todo
        /\ [state EXCEPT !.fence = row'.fence].fence = row'.fence
    BY <2>1 DEF CloserState
  <2>3. /\ closer'[x].pc = state.pc /\ closer'[x].op = closer[x].op
        /\ closer'[x].todo = state.todo /\ closer'[x].fence = row'.fence
    BY <1>0, <1>4, <2>2, GoesTo
  <2>4. Holds(x)' /\ Placed(x)'
    BY <1>0, <1>2, <2>3, ClaimGranted DEF Holds, Pressing
  <2>5. ASSUME Works(x)' PROVE Cleaned(x)'
    <3>1. Knows(x)
      BY <1>0, PressingKnows
    <3>2. /\ Works(x)
          /\ \A p \in Principals : (Clean(p) => Clean(p)') /\ (storage'[p] => storage[p])
      BY <1>0, <2>3, <2>5, <3>1, WorksKept DEF Moved
    <3>3. Cleaned(x)
      BY <1>0, <3>2 DEF Listed
    <3>4. closer[x].pc \in Deleting => Min(closer[x].todo) \in Principals
      BY <1>0, MinOfList DEF Listed, CloserState
    <3>5. CASE state.pc \in {"inspect", "list"}
      BY <2>3, <3>5 DEF Cleaned, Deleting
    <3>6. CASE /\ closer[x].pc = "prepare" /\ state.pc = "delete"
               /\ state.todo = closer[x].todo
      BY <2>3, <3>2, <3>3, <3>6 DEF Cleaned, Deleting
    <3>7. CASE /\ closer[x].pc = "confirm" /\ state.pc = "record"
               /\ state.todo = closer[x].todo
      BY <2>3, <3>2, <3>3, <3>4, <3>7 DEF Cleaned, Deleting
    <3>8. CASE closer[x].pc = "settle" /\ state.pc = "finalize"
      <4>1. \A p \in Principals : Clean(p)'
        BY <1>0, <3>2, <3>3, <3>8 DEF Cleaned, Listed
      <4> QED BY <2>3, <3>8, <4>1 DEF Cleaned, Deleting
    <3> QED BY <3>5, <3>6, <3>7, <3>8
  <2>6. Listed(x)'
    BY <1>0, <2>3, <2>5 DEF Listed, Deleting
  <2> QED BY <2>4, <2>6 DEF Informed
<1> QED BY <1>1, <1>3, <1>4 DEF Answered

LEMMA OwnInspect ==
    ASSUME CloseInv, Moved, NEW x \in Closers, Inspect(x)
    PROVE  Informed(x)'
<1>0. ClosersTypeOK /\ closer[x] \in CloserState /\ closer[x].pc = "inspect"
      /\ closer[x].fence > 0
  BY DEF CloseInv, ClosersTypeOK, Inspect, Holds, Pressing
<1>1. CASE Refresh(x, [closer[x] EXCEPT !.todo = @ \ {Min(@)}])
  <2> DEFINE state == [closer[x] EXCEPT !.todo = @ \ {Min(@)}]
  <2>1. state \in CloserState /\ state.op = closer[x].op /\ state.pc = "inspect"
    BY <1>0 DEF CloserState
  <2>2. Refresh(x, state) /\ closer[x].pc \in Pressing
    BY <1>0, <1>1 DEF Pressing
  <2> HIDE DEF state
  <2> QED BY <2>1, <2>2, OwnRefreshed
<1>2. CASE Refused(x, [closer[x] EXCEPT !.pc = "refresh"])
  <2> DEFINE state == [closer[x] EXCEPT !.pc = "refresh"]
  <2>1. state \in CloserState /\ state.op = closer[x].op /\ state.pc = "refresh"
        /\ state.fence = closer[x].fence
    BY <1>0 DEF CloserState, Calls
  <2>2. Goes(x, state)
    BY <1>2 DEF Refused
  <2> HIDE DEF state
  <2> QED BY <1>0, <2>1, <2>2, OwnPlain DEF Plain
<1> QED BY <1>1, <1>2 DEF Inspect

LEMMA OwnRefreshAround ==
    ASSUME CloseInv, Moved, NEW x \in Closers, NEW at, NEW next, RefreshAround(x, at, next),
           <<at, next>> \in {<<"prepare", "delete">>, <<"confirm", "record">>,
                             <<"settle", "finalize">>}
    PROVE  Informed(x)'
<1>0. ClosersTypeOK /\ closer[x] \in CloserState /\ closer[x].pc = at
  BY DEF CloseInv, ClosersTypeOK, RefreshAround
<1>1. CASE Refresh(x, [closer[x] EXCEPT !.pc = next])
  <2> DEFINE state == [closer[x] EXCEPT !.pc = next]
  <2>1. state \in CloserState /\ state.op = closer[x].op /\ state.pc = next
        /\ state.todo = closer[x].todo
    BY <1>0 DEF CloserState, Calls
  <2>2. Refresh(x, state) /\ closer[x].pc \in Pressing
    BY <1>0, <1>1 DEF Pressing
  <2> HIDE DEF state
  <2> QED BY <1>0, <2>1, <2>2, OwnRefreshed
<1> QED BY <1>1, OwnRaised DEF RefreshAround, RefreshRaises

(* It goes on to finalize without having listed anything: the session is    *)
(* not being closed, or its own claim has lapsed.                           *)
LEMMA OwnSkips ==
    ASSUME CloseInv, Moved, NEW x \in Closers, closer[x].pc \in {"refresh", "list"},
           Refused(x, [closer[x] EXCEPT !.pc = "finalize"]),
           row.lifecycle = "closing" => row.lease <= 0
    PROVE  Informed(x)'
<1>0. /\ ClosersTypeOK /\ closer[x] \in CloserState /\ Holds(x) /\ Placed(x)
      /\ row' = row /\ closer[x].fence > 0
  BY DEF CloseInv, ClosersTypeOK, Holds, Pressing, Refused
<1> DEFINE state == [closer[x] EXCEPT !.pc = "finalize"]
<1>1. state \in CloserState /\ state.op = closer[x].op /\ state.pc = "finalize"
      /\ state.fence = closer[x].fence
  BY <1>0 DEF CloserState, Calls
<1>2. Goes(x, state)
  BY DEF Refused
<1> HIDE DEF state
<1>3. /\ closer'[x].pc = "finalize" /\ closer'[x].op = closer[x].op
      /\ closer'[x].fence = closer[x].fence /\ closer'[x].age = 0
  BY <1>0, <1>1, <1>2, GoesTo
<1>4. Holds(x)'
  BY <1>0, <1>3 DEF Holds, Moved, SessionMoves, Authority, Pressing
<1>5. Placed(x)'
  BY <1>0, <1>3, PlacedKept DEF Moved
<1>6. Works(x)' => row'.lease + closer'[x].age <= 0
  <2>1. row.lease \in Int
    BY RowTyped DEF CloseInv
  <2> QED BY <1>0, <1>3, <2>1 DEF Works
<1>7. Listed(x)'
  BY <1>3, <1>6 DEF Listed, Cleaned, Deleting
<1> QED BY <1>4, <1>5, <1>7 DEF Informed

LEMMA LapsedNow ==
    ASSUME CloseInv, NEW x \in Closers, NEW s \in Readings(x), LeaseLapsed(s)
    PROVE  row.lease <= 0
<1>1. row.lease \in Int /\ s \in Nat
  BY RowTyped DEF CloseInv, Readings
<1> QED BY <1>1 DEF LeaseLapsed

LEMMA OwnStartFinalize ==
    ASSUME CloseInv, Moved, NEW x \in Closers, StartFinalize(x)
    PROVE  Informed(x)'
<1>0. ClosersTypeOK /\ closer[x] \in CloserState /\ closer[x].pc = "refresh"
  BY DEF CloseInv, ClosersTypeOK, StartFinalize
<1>1. CASE Refresh(x, [closer[x] EXCEPT !.pc = "list"])
  <2> DEFINE state == [closer[x] EXCEPT !.pc = "list"]
  <2>1. state \in CloserState /\ state.op = closer[x].op /\ state.pc = "list"
    BY <1>0 DEF CloserState, Calls
  <2>2. Refresh(x, state) /\ closer[x].pc \in Pressing
    BY <1>0, <1>1 DEF Pressing
  <2> HIDE DEF state
  <2> QED BY <2>1, <2>2, OwnRefreshed
<1>2. CASE RefreshNotEligible /\ Refused(x, [closer[x] EXCEPT !.pc = "finalize"])
  BY <1>0, <1>2, OwnSkips DEF RefreshNotEligible
<1> QED BY <1>1, <1>2, OwnRaised DEF StartFinalize, RefreshRaises

LEMMA OwnList ==
    ASSUME CloseInv, Moved, NEW x \in Closers, ListGenerations(x)
    PROVE  Informed(x)'
<1>0. /\ ClosersTypeOK /\ closer[x] \in CloserState /\ Holds(x) /\ Placed(x)
      /\ closer[x].pc = "list" /\ closer[x].fence > 0
  BY DEF CloseInv, ClosersTypeOK, ListGenerations, Holds, Pressing
<1>1. PICK s \in Readings(x) :
         \/ /\ CloseAuthorized(Authority(x), s)
            /\ Refused(x, [closer[x] EXCEPT !.pc = NextGeneration(Generations),
                                            !.todo = Generations])
         \/ /\ ClaimNotEligible(x, s)
            /\ Refused(x, [closer[x] EXCEPT !.pc = "finalize"])
         \/ Refused(x, Raised(x))
  BY DEF ListGenerations
<1>2. CASE Refused(x, [closer[x] EXCEPT !.pc = NextGeneration(Generations),
                                        !.todo = Generations])
  <2> DEFINE state == [closer[x] EXCEPT !.pc = NextGeneration(Generations),
                                        !.todo = Generations]
  <2>1. /\ state \in CloserState /\ state.op = closer[x].op
        /\ state.pc = NextGeneration(Generations)
        /\ state.fence = closer[x].fence /\ state.todo = Generations
    BY <1>0 DEF CloserState, Calls, NextGeneration, Generations
  <2>2. Goes(x, state) /\ UNCHANGED <<gens, storage>>
    BY <1>2 DEF Refused
  <2> HIDE DEF state
  <2>3. /\ closer'[x].pc = NextGeneration(Generations) /\ closer'[x].op = closer[x].op
        /\ closer'[x].fence = closer[x].fence /\ closer'[x].todo = Generations
    BY <1>0, <2>1, <2>2, GoesTo
  <2>4. closer'[x].pc \in {"prepare", "settle"} /\ (closer'[x].pc = "settle" <=> Generations = {})
    BY <2>3 DEF NextGeneration
  <2>5. Holds(x)'
    BY <1>0, <2>3, <2>4 DEF Holds, Moved, SessionMoves, Authority
  <2>6. Placed(x)'
    BY <1>0, <2>3, PlacedKept DEF Moved
  <2>7. \A p \in Principals \ closer'[x].todo : Clean(p)'
    <3>1. \A p \in Principals : storage[p] => gens[p].state # "absent"
      BY DEF CloseInv, IInv, ClosedRetainsNothing
    <3> QED BY <2>2, <2>3, <3>1 DEF Generations, Clean
  <2>8. Listed(x)'
    BY <2>3, <2>4, <2>7 DEF Listed, Cleaned, Deleting
  <2> QED BY <2>5, <2>6, <2>8 DEF Informed
<1>3. CASE ClaimNotEligible(x, s) /\ Refused(x, [closer[x] EXCEPT !.pc = "finalize"])
  <2>1. row.lifecycle = "closing" => row.lease <= 0
    BY <1>3, LapsedNow DEF ClaimNotEligible
  <2> QED BY <1>0, <1>3, <2>1, OwnSkips
<1> QED BY <1>1, <1>2, <1>3, OwnRaised

LEMMA OwnDelete ==
    ASSUME CloseInv, Moved, NEW x \in Closers, DeleteGeneration(x)
    PROVE  Informed(x)'
<1>0. /\ ClosersTypeOK /\ closer[x] \in CloserState /\ Holds(x) /\ Placed(x) /\ Listed(x)
      /\ closer[x].pc = "delete" /\ closer[x].fence > 0
  BY DEF CloseInv, ClosersTypeOK, DeleteGeneration, Holds, Pressing
<1>1. PICK s \in Readings(x) :
         \/ /\ CloseDelete(Authority(x), Min(closer[x].todo), s)
            /\ Answered(x, [closer[x] EXCEPT !.pc = "confirm"])
         \/ Refused(x, Raised(x))
  BY DEF DeleteGeneration
<1>2. CASE /\ CloseDelete(Authority(x), Min(closer[x].todo), s)
           /\ Goes(x, [closer[x] EXCEPT !.pc = "confirm"])
  <2> DEFINE state == [closer[x] EXCEPT !.pc = "confirm"]
  <2>1. /\ state \in CloserState /\ state.op = closer[x].op /\ state.pc = "confirm"
        /\ state.fence = closer[x].fence /\ state.todo = closer[x].todo
    BY <1>0 DEF CloserState, Calls
  <2>2. Goes(x, state)
    BY <1>2
  <2> HIDE DEF state
  <2>3. /\ closer'[x].pc = "confirm" /\ closer'[x].op = closer[x].op
        /\ closer'[x].fence = closer[x].fence /\ closer'[x].todo = closer[x].todo
    BY <1>0, <2>1, <2>2, GoesTo
  <2>4. Holds(x)'
    BY <1>0, <2>3 DEF Holds, Moved, SessionMoves, Authority
  <2>5. Placed(x)'
    BY <1>0, <2>3, PlacedKept DEF Moved
  <2>6. Min(closer[x].todo) \in Principals
    BY <1>0, MinOfList DEF Listed, CloserState, Deleting
  <2>7. ~storage'[Min(closer'[x].todo)]
    BY <1>2, <2>3, <2>6 DEF CloseDelete, CloseInv, IInv, TypeOK
  <2>8. ASSUME Works(x)' PROVE Cleaned(x)'
    <3>1. Knows(x)
      BY <1>0, PressingKnows
    <3>2. Works(x) /\ \A p \in Principals : Clean(p) => Clean(p)'
      BY <1>0, <2>3, <2>8, <3>1, WorksKept DEF Moved
    <3>3. Cleaned(x)
      BY <1>0, <3>2 DEF Listed
    <3> QED BY <1>0, <2>3, <2>7, <3>2, <3>3 DEF Cleaned, Deleting
  <2>9. Listed(x)'
    BY <1>0, <2>3, <2>8 DEF Listed, Deleting
  <2> QED BY <2>4, <2>5, <2>9 DEF Informed
<1> QED BY <1>1, <1>2, OwnRaised DEF Answered

LEMMA OwnRecord ==
    ASSUME CloseInv, Moved, NEW x \in Closers, RecordDeletion(x)
    PROVE  Informed(x)'
<1>0. /\ ClosersTypeOK /\ closer[x] \in CloserState /\ Holds(x) /\ Placed(x) /\ Listed(x)
      /\ closer[x].pc = "record" /\ closer[x].fence > 0
  BY DEF CloseInv, ClosersTypeOK, RecordDeletion, Holds, Pressing
<1>m. PICK m \in Principals : m = Min(closer[x].todo)
  BY <1>0, MinOfList DEF Listed, CloserState, Deleting
<1> DEFINE left == closer[x].todo \ {m}
<1>1. PICK s \in Readings(x) :
         \/ /\ RecordCloseCheckpointDeletion(Authority(x), m, s)
            /\ Answered(x, [closer[x] EXCEPT !.pc = NextGeneration(left), !.todo = left])
         \/ Refused(x, NotEligible(x))
         \/ Refused(x, Raised(x))
  BY <1>m DEF RecordDeletion
<1>2. CASE /\ RecordCloseCheckpointDeletion(Authority(x), m, s)
           /\ Goes(x, [closer[x] EXCEPT !.pc = NextGeneration(left), !.todo = left])
  <2> DEFINE state == [closer[x] EXCEPT !.pc = NextGeneration(left), !.todo = left]
  <2>1. /\ state \in CloserState /\ state.op = closer[x].op
        /\ state.pc = NextGeneration(left)
        /\ state.fence = closer[x].fence /\ state.todo = left
    BY <1>0 DEF CloserState, Calls, NextGeneration
  <2>2. Goes(x, state)
    BY <1>2
  <2>g. gens' = [gens EXCEPT ![m].state = "deleted"] /\ storage' = storage
    BY <1>2 DEF RecordCloseCheckpointDeletion
  <2> HIDE DEF state
  <2>3. /\ closer'[x].pc = NextGeneration(left) /\ closer'[x].op = closer[x].op
        /\ closer'[x].fence = closer[x].fence /\ closer'[x].todo = left
    BY <1>0, <2>1, <2>2, GoesTo
  <2>4. closer'[x].pc \in {"prepare", "settle"} /\ (closer'[x].pc = "settle" <=> left = {})
    BY <2>3 DEF NextGeneration
  <2>5. Holds(x)'
    BY <1>0, <2>3, <2>4 DEF Holds, Moved, SessionMoves, Authority
  <2>6. Placed(x)'
    BY <1>0, <2>3, PlacedKept DEF Moved
  <2>7. ASSUME Works(x)' PROVE \A p \in Principals \ closer'[x].todo : Clean(p)'
    <3>1. Knows(x)
      BY <1>0, PressingKnows
    <3>2. Works(x) /\ \A p \in Principals : Clean(p) => Clean(p)'
      BY <1>0, <2>3, <2>7, <3>1, WorksKept DEF Moved
    <3>3. Cleaned(x)
      BY <1>0, <3>2 DEF Listed
    <3>4. \A p \in Principals \ closer[x].todo : Clean(p)'
      BY <1>0, <3>2, <3>3 DEF Cleaned, Deleting
    <3>5. gens'[m].state = "deleted" /\ ~storage'[m]
      BY <1>0, <1>m, <2>g, <3>3 DEF Cleaned, CloseInv, IInv, TypeOK, CheckpointGeneration
    <3>6. Clean(m)'
      BY <3>5 DEF Clean
    <3> QED BY <2>3, <3>4, <3>6
  <2> HIDE DEF left
  <2>8. Listed(x)'
    BY <2>3, <2>4, <2>7 DEF Listed, Cleaned, Deleting
  <2> QED BY <2>5, <2>6, <2>8 DEF Informed
<1> QED BY <1>1, <1>2, OwnRaised DEF Answered

(* The heart of CleanupSuffices: whoever holds the claim at finalize finds  *)
(* nothing left.                                                            *)
LEMMA OwnFinalize ==
    ASSUME CloseInv, Moved, NEW x \in Closers, Finalize(x)
    PROVE  Informed(x)'
<1>0. /\ ClosersTypeOK /\ closer[x] \in CloserState /\ Holds(x) /\ Placed(x) /\ Listed(x)
      /\ SessionKnown /\ closer[x].pc = "finalize" /\ closer[x].fence > 0
  BY DEF CloseInv, ClosersTypeOK, Finalize, Holds, Pressing
<1>1. ASSUME NEW s \in Readings(x), CloseAuthorized(Authority(x), s),
             Generations = {} \/ \E p \in Generations : gens[p].state # "deleted" \/ storage[p],
             Refused(x, [closer[x] EXCEPT !.pc = "incomplete"])
      PROVE  Informed(x)'
  <2>1. closer[x].op \in carried
    <3>1. SUFFICES ASSUME closer[x].op \notin carried PROVE FALSE
      OBVIOUS
    <3>2. /\ row.lifecycle = "closing" /\ row.owner = x /\ row.closeOp = closer[x].op
          /\ row.fence = closer[x].fence /\ row.lease + s > 0
      <4>1. row.lease \in Int /\ s \in Int
        BY RowTyped DEF CloseInv, Readings
      <4> QED BY <1>1, <4>1 DEF CloseAuthorized, Authority, LeaseLapsed
    <3>3. ~(row.lease + closer[x].age <= 0)
      <4>1. row.lease \in Int /\ s \in Int /\ closer[x].age \in Int /\ s <= closer[x].age
        BY <1>0, RowTyped, DurationAssumption DEF CloseInv, Readings, CloserState
      <4> QED BY <3>2, <4>1
    <3>4. \A p \in Principals : Clean(p)
      BY <1>0, <3>1, <3>2, <3>3 DEF Listed, Works, Cleaned
    <3>5. \E p \in Principals : gens[p].state # "absent"
      BY <1>0, <3>2 DEF SessionKnown
    <3> QED BY <1>1, <3>4, <3>5 DEF Generations, Clean
  <2> DEFINE state == [closer[x] EXCEPT !.pc = "incomplete"]
  <2>2. /\ state \in CloserState /\ state.op = closer[x].op /\ state.pc = "incomplete"
        /\ state.fence = closer[x].fence
    BY <1>0 DEF CloserState, AtRest
  <2>3. Goes(x, state)
    BY <1>1 DEF Refused
  <2> HIDE DEF state
  <2>4. /\ closer'[x].pc = "incomplete" /\ closer'[x].op = closer[x].op
        /\ closer'[x].fence = closer[x].fence
    BY <1>0, <2>2, <2>3, GoesTo
  <2>5. Holds(x)'
    BY <1>0, <2>4 DEF Holds, Moved, SessionMoves, Authority, Pressing
  <2>6. Placed(x)'
    BY <1>0, <2>4, PlacedKept DEF Moved
  <2>7. Listed(x)'
    BY <2>1, <2>4 DEF Listed, Cleaned, Deleting, Moved, SessionMoves
  <2> QED BY <2>5, <2>6, <2>7 DEF Informed
<1> QED BY <1>1, OwnRaised DEF Finalize, Answered

LEMMA OwnBegin ==
    ASSUME CloseInv, Moved, NEW x \in LiveClosers, NEW state \in CloserState,
           BeginLiveClose(x, Holder(x), state), state.op = closer[x].op,
           state.pc \in {"inspect", "refresh"}
    PROVE  Informed(x)'
<1>0. /\ x \in Closers /\ ClosersTypeOK /\ row \in SessionRow /\ closer[x].op = x
  BY CloserFacts DEF CloseInv, Closers, IInv, TypeOK, Holds
<1>1. PICK s \in Readings(x) :
        \/ /\ row.lifecycle = "closing" /\ row.owner = x /\ row.closeOp = x
           /\ Refused(x, [state EXCEPT !.fence = row.fence, !.todo = Retained])
        \/ /\ BeginClose(Holder(x), x, x, s)
           /\ Answered(x, [state EXCEPT !.fence = row'.fence, !.todo = Retained])
  BY DEF BeginLiveClose
<1>2. Retained \in SUBSET Principals
  BY DEF Retained, Generations
<1>3. ASSUME NEW f \in 0..MaxFence, f = row'.fence,
             row'.lifecycle = "closing", row'.owner = x, row'.closeOp = x,
             Goes(x, [state EXCEPT !.fence = f, !.todo = Retained])
      PROVE  Informed(x)'
  <2> DEFINE next == [state EXCEPT !.fence = f, !.todo = Retained]
  <2>1. /\ next \in CloserState /\ next.op = state.op /\ next.pc = state.pc
        /\ next.fence = f
    BY <1>2 DEF CloserState
  <2>2. Goes(x, next)
    BY <1>3
  <2> HIDE DEF next
  <2>3. closer'[x].op = x /\ closer'[x].pc = state.pc /\ closer'[x].fence = row'.fence
    BY <1>0, <1>3, <2>1, <2>2, GoesTo
  <2>4. Holds(x)' /\ Placed(x)'
    BY <1>0, <1>3, <2>3, ClaimGranted DEF Pressing
  <2>5. Listed(x)'
    BY <2>3 DEF Listed, Cleaned, Deleting
  <2> QED BY <2>4, <2>5 DEF Informed
<1>4. row.fence \in 0..MaxFence /\ row'.fence \in 0..MaxFence
  BY <1>0 DEF SessionRow, Moved, IInv, TypeOK
<1>5. CASE /\ row.lifecycle = "closing" /\ row.owner = x /\ row.closeOp = x
           /\ Refused(x, [state EXCEPT !.fence = row.fence, !.todo = Retained])
  <2>1. row' = row /\ Goes(x, [state EXCEPT !.fence = row.fence, !.todo = Retained])
    BY <1>5 DEF Refused
  <2> QED BY <1>3, <1>4, <1>5, <2>1
<1>6. CASE /\ BeginClose(Holder(x), x, x, s)
           /\ Goes(x, [state EXCEPT !.fence = row'.fence, !.todo = Retained])
  <2>1. row'.lifecycle = "closing" /\ row'.owner = x /\ row'.closeOp = x
    BY <1>0, <1>6 DEF BeginClose, TakeCloseLease, SessionRow
  <2> QED BY <1>3, <1>4, <1>6, <2>1
<1> QED BY <1>0, <1>1, <1>5, <1>6, OwnRaised DEF Answered

LEMMA OwnLiveBegins ==
    ASSUME CloseInv, Moved, NEW x \in Closers, LiveBegin(x) \/ BeginAgain(x)
    PROVE  Informed(x)'
<1>0. ClosersTypeOK /\ closer[x] \in CloserState /\ x \in LiveClosers
  BY DEF CloseInv, ClosersTypeOK, LiveBegin, BeginAgain, Holds
<1>1. ASSUME NEW pc \in {"inspect", "refresh"},
             BeginLiveClose(x, Holder(x), [closer[x] EXCEPT !.pc = pc])
      PROVE  Informed(x)'
  <2> DEFINE state == [closer[x] EXCEPT !.pc = pc]
  <2>1. state \in CloserState /\ state.op = closer[x].op /\ state.pc = pc
    BY <1>0 DEF CloserState, Calls
  <2>2. BeginLiveClose(x, Holder(x), state)
    BY <1>1
  <2> HIDE DEF state
  <2> QED BY <1>0, <2>1, <2>2, OwnBegin
<1>2. ASSUME NEW s, Refused(x, [closer[x] EXCEPT
                                  !.pc = IF MayBeCompleted(s) THEN "check" ELSE "failed"])
      PROVE  Informed(x)'
  <2> DEFINE state == [closer[x] EXCEPT !.pc = IF MayBeCompleted(s) THEN "check" ELSE "failed"]
  <2>1. /\ state \in CloserState /\ state.op = closer[x].op
        /\ state.pc \in {"check", "failed"} /\ state.fence = closer[x].fence
    BY <1>0 DEF CloserState, Calls, AtRest
  <2>2. Goes(x, state)
    BY <1>2 DEF Refused
  <2> HIDE DEF state
  <2> QED BY <1>0, <2>1, <2>2, OwnPlain DEF Plain
<1>3. CASE LiveBegin(x)
  BY <1>1, <1>2, <1>3 DEF LiveBegin
<1>4. CASE BeginAgain(x)
  BY <1>1, <1>4, OwnRaised DEF BeginAgain
<1> QED BY <1>3, <1>4

LEMMA OwnSweep ==
    ASSUME CloseInv, Moved, NEW x \in Closers, Sweep(x)
    PROVE  Informed(x)'
<1>0. ClosersTypeOK /\ closer[x] \in CloserState /\ x \notin LiveClosers /\ row \in SessionRow
  BY DEF CloseInv, ClosersTypeOK, Sweep, Reapers, IInv, TypeOK
<1>1. CASE Expired(0) /\ Refused(x, [closer[x] EXCEPT !.pc = "claim", !.fence = 0,
                                                      !.todo = {}, !.op = row.closeOp])
  <2> DEFINE state == [closer[x] EXCEPT !.pc = "claim", !.fence = 0, !.todo = {},
                                        !.op = row.closeOp]
  <2>0. row.closeOp \in CloseOps \cup {NONE} /\ 0 \in 0..MaxFence
    BY <1>0, BoundAssumption DEF SessionRow
  <2>1. /\ state \in CloserState /\ state.op = row.closeOp /\ state.pc = "claim"
        /\ state.fence = 0
    BY <1>0, <2>0 DEF CloserState, Calls
  <2>2. Goes(x, state) /\ row' = row
    BY <1>1 DEF Refused
  <2> HIDE DEF state
  <2>3. closer'[x].op = row'.closeOp /\ closer'[x].pc = "claim" /\ closer'[x].fence = 0
    BY <1>0, <2>1, <2>2, GoesTo
  <2>4. Holds(x)'
    BY <1>0, <2>3 DEF Holds, Pressing
  <2>5. Placed(x)'
    BY <1>1, <2>2, <2>3, PlacedHere DEF Moved, Registered, Expired, Open
  <2>6. Listed(x)'
    BY <2>3 DEF Listed, Cleaned, Deleting
  <2> QED BY <2>4, <2>5, <2>6 DEF Informed
<1>2. CASE Refused(x, [closer[x] EXCEPT !.pc = "purge"])
  <2> DEFINE state == [closer[x] EXCEPT !.pc = "purge"]
  <2>1. /\ state \in CloserState /\ state.op = closer[x].op
        /\ state.pc = "purge" /\ state.fence = closer[x].fence
    BY <1>0 DEF CloserState, Calls
  <2>2. Goes(x, state)
    BY <1>2 DEF Refused
  <2> HIDE DEF state
  <2> QED BY <2>1, <2>2, OwnPlain DEF Plain
<1> QED BY <1>1, <1>2 DEF Sweep

LEMMA OwnClaim ==
    ASSUME CloseInv, Moved, NEW x \in Closers, ReaperClaim(x)
    PROVE  Informed(x)'
<1>0. /\ ClosersTypeOK /\ closer[x] \in CloserState /\ row \in SessionRow
      /\ x \notin LiveClosers /\ Registered' \in BOOLEAN
  BY DEF CloseInv, ClosersTypeOK, ReaperClaim, Holds, IInv, TypeOK, Registered
<1>1. PICK s \in Readings(x) :
        \/ /\ ClaimExpired(ClaimedOp(x), x, s)
           /\ Answered(x, [closer[x] EXCEPT !.pc = "refresh", !.op = ClaimedOp(x),
                                            !.fence = row'.fence])
        \/ Refused(x, Raised(x))
  BY DEF ReaperClaim, ClaimedOp
<1>2. CASE /\ ClaimExpired(ClaimedOp(x), x, s)
           /\ Goes(x, [closer[x] EXCEPT !.pc = "refresh", !.op = ClaimedOp(x),
                                        !.fence = row'.fence])
  <2> DEFINE state == [closer[x] EXCEPT !.pc = "refresh", !.op = ClaimedOp(x),
                                        !.fence = row'.fence]
  <2>1. row'.lifecycle = "closing" /\ row'.owner = x /\ row'.closeOp = ClaimedOp(x)
    BY <1>0, <1>2 DEF ClaimExpired, TakeCloseLease, SessionRow
  <2>2. row'.fence \in 0..MaxFence /\ row'.closeOp \in CloseOps \cup {NONE}
    BY DEF Moved, IInv, TypeOK, SessionRow
  <2>3. /\ state \in CloserState /\ state.op = ClaimedOp(x) /\ state.pc = "refresh"
        /\ state.fence = row'.fence
    BY <1>0, <2>1, <2>2 DEF CloserState, Calls
  <2>4. Goes(x, state)
    BY <1>2
  <2> HIDE DEF state
  <2>5. closer'[x].op = row'.closeOp /\ closer'[x].pc = "refresh"
        /\ closer'[x].fence = row'.fence
    BY <1>0, <2>1, <2>3, <2>4, GoesTo
  <2>6. Holds(x)' /\ Placed(x)'
    BY <1>0, <2>1, <2>5, ClaimGranted DEF Pressing
  <2>7. Listed(x)'
    BY <2>5 DEF Listed, Cleaned, Deleting
  <2> QED BY <2>6, <2>7 DEF Informed
<1> QED BY <1>1, <1>2, OwnRaised DEF Answered

LEMMA OwnRest ==
    ASSUME CloseInv, Moved, NEW x \in Closers,
           CloseCompleted(x) \/ Retry(x) \/ ReaperPurge(x) \/ CallFails(x)
    PROVE  Informed(x)'
<1>0. ClosersTypeOK /\ closer[x] \in CloserState
  BY DEF CloseInv, ClosersTypeOK
<1>1. CASE CloseCompleted(x)
  <2> DEFINE state == [closer[x] EXCEPT !.pc = IF row.lifecycle = "closed" /\ row.closeOp = x
                                                 THEN "finalized" ELSE "failed"]
  <2>1. /\ state \in CloserState /\ state.op = closer[x].op
        /\ state.pc \in {"finalized", "failed"} /\ state.fence = closer[x].fence
    BY <1>0 DEF CloserState, AtRest
  <2>2. Goes(x, state)
    BY <1>1 DEF CloseCompleted, Refused
  <2> HIDE DEF state
  <2> QED BY <2>1, <2>2, OwnPlain DEF Plain
<1>2. CASE Retry(x)
  <2> DEFINE state == [closer[x] EXCEPT !.retried = FALSE,
                          !.pc = IF closer[x].fence = 0 THEN "idle" ELSE "inspect"]
  <2>1. /\ state \in CloserState /\ state.op = closer[x].op
        /\ state.pc = IF closer[x].fence = 0 THEN "idle" ELSE "inspect"
        /\ state.fence = closer[x].fence
    BY <1>0 DEF CloserState, AtRest, Calls
  <2>2. Goes(x, state)
    BY <1>2 DEF Retry, Refused
  <2>3. closer[x].fence \in Nat
    BY <1>0, BoundAssumption DEF CloserState
  <2> HIDE DEF state
  <2>4. /\ state.pc \in Plain /\ state.pc # "retry"
        /\ state.pc \in {"inspect", "refresh", "list"} => closer[x].fence > 0
    BY <2>1, <2>3 DEF Plain
  <2> QED BY <2>1, <2>2, <2>4, OwnPlain
<1>3. CASE ReaperPurge(x)
  <2> DEFINE state == [closer[x] EXCEPT !.pc = "idle"]
  <2>1. /\ state \in CloserState /\ state.op = closer[x].op
        /\ state.pc = "idle" /\ state.fence = closer[x].fence
    BY <1>0 DEF CloserState, AtRest
  <2>2. Goes(x, state) \/ Goes(x, Raised(x))
    BY <1>3 DEF ReaperPurge, Refused, Answered
  <2> HIDE DEF state
  <2> QED BY <2>1, <2>2, OwnPlain, OwnRaised DEF Plain
<1>4. CASE CallFails(x)
  BY <1>4, OwnRaised DEF CallFails
<1> QED BY <1>1, <1>2, <1>3, <1>4

LEMMA OwnKeeps ==
    ASSUME CloseInv, Moved, NEW x \in Closers, Acts(x)
    PROVE  Informed(x)'
BY OwnInspect, OwnRefreshAround, OwnStartFinalize, OwnList, OwnDelete, OwnRecord,
   OwnFinalize, OwnLiveBegins, OwnSweep, OwnClaim, OwnRest
   DEF Acts, CloserCall

(* A closer's record keeps its type.                                        *)
LEMMA RefreshTyped ==
    ASSUME CloseInv, IInv', NEW x \in Closers, NEW state \in CloserState, Refresh(x, state)
    PROVE  \E next \in CloserState : Goes(x, next)
<1>0. row'.fence \in 0..MaxFence /\ ClosersTypeOK
  BY DEF IInv, TypeOK, SessionRow, CloseInv
<1>1. [state EXCEPT !.fence = row'.fence] \in CloserState
  BY <1>0 DEF CloserState
<1> QED BY <1>0, <1>1, RaisedTyped DEF Refresh, Answered

LEMMA BeginTyped ==
    ASSUME CloseInv, IInv', NEW x \in Closers, NEW o, NEW state \in CloserState,
           BeginLiveClose(x, o, state)
    PROVE  \E next \in CloserState : Goes(x, next)
<1>0. row.fence \in 0..MaxFence /\ row'.fence \in 0..MaxFence /\ ClosersTypeOK
      /\ Retained \in SUBSET Principals
  BY DEF IInv, TypeOK, SessionRow, CloseInv, Retained, Generations
<1>1. [state EXCEPT !.fence = row'.fence, !.todo = Retained] \in CloserState
      /\ [state EXCEPT !.fence = row.fence, !.todo = Retained] \in CloserState
  BY <1>0 DEF CloserState
<1> QED BY <1>0, <1>1, RaisedTyped DEF BeginLiveClose, Answered, Refused

LEMMA ActsTyped ==
    ASSUME CloseInv, IInv', NEW x \in Closers, Acts(x)
    PROVE  \E state \in CloserState : Goes(x, state)
<1>0. /\ ClosersTypeOK /\ closer[x] \in CloserState /\ row'.fence \in 0..MaxFence
      /\ row.closeOp \in CloseOps \cup {NONE} /\ row'.closeOp \in CloseOps \cup {NONE}
      /\ row \in SessionRow /\ 0 \in 0..MaxFence
  BY BoundAssumption DEF CloseInv, ClosersTypeOK, IInv, TypeOK, SessionRow
<1>1. /\ \A pc \in AtRest \cup Calls : [closer[x] EXCEPT !.pc = pc] \in CloserState
      /\ \A todo \in SUBSET Principals : [closer[x] EXCEPT !.todo = todo] \in CloserState
      /\ \A pc \in AtRest \cup Calls, todo \in SUBSET Principals :
           [closer[x] EXCEPT !.pc = pc, !.todo = todo] \in CloserState
  BY <1>0 DEF CloserState
<1>r. ASSUME NEW pc \in AtRest \cup Calls, Refused(x, [closer[x] EXCEPT !.pc = pc])
      PROVE  \E state \in CloserState : Goes(x, state)
  BY <1>1, <1>r DEF Refused
<1>e. Refused(x, Raised(x)) \/ Refused(x, NotEligible(x)) \/ Refused(x, Done(x))
      \/ Goes(x, Raised(x)) \/ Goes(x, Done(x)) => \E state \in CloserState : Goes(x, state)
  BY <1>0, RaisedTyped DEF Refused
<1>2. CASE CloseCompleted(x)
  BY <1>2, <1>r DEF CloseCompleted, AtRest
<1>3. CASE Retry(x)
  <2>1. [closer[x] EXCEPT !.retried = FALSE,
           !.pc = IF closer[x].fence = 0 THEN "idle" ELSE "inspect"] \in CloserState
    BY <1>0 DEF CloserState, AtRest, Calls
  <2> QED BY <1>3, <2>1 DEF Retry, Refused
<1>4. CASE ListGenerations(x)
  <2>1. NextGeneration(Generations) \in AtRest \cup Calls /\ Generations \in SUBSET Principals
        /\ "finalize" \in Calls
    BY DEF NextGeneration, Calls, Generations
  <2>2. [closer[x] EXCEPT !.pc = NextGeneration(Generations), !.todo = Generations]
          \in CloserState
    BY <1>1, <2>1
  <2> QED BY <1>4, <1>r, <1>e, <2>1, <2>2 DEF ListGenerations, Refused
<1>5. CASE Sweep(x)
  <2>1. [closer[x] EXCEPT !.pc = "claim", !.fence = 0, !.todo = {}, !.op = row.closeOp]
          \in CloserState
    BY <1>0 DEF CloserState, Calls
  <2>2. "purge" \in Calls
    BY DEF Calls
  <2> QED BY <1>5, <1>r, <2>1, <2>2 DEF Sweep, Refused
<1>6. CASE Inspect(x)
  <2>1. [closer[x] EXCEPT !.todo = @ \ {Min(@)}] \in CloserState
    BY <1>0 DEF CloserState
  <2>2. "refresh" \in Calls
    BY DEF Calls
  <2> QED BY <1>6, <1>r, <2>1, <2>2, RefreshTyped DEF Inspect
<1>7. CASE LiveBegin(x) \/ BeginAgain(x)
  <2>1. /\ "inspect" \in Calls /\ "refresh" \in Calls /\ "check" \in Calls
        /\ "failed" \in AtRest
    BY DEF Calls, AtRest
  <2>2. CASE LiveBegin(x)
    <3>1. [closer[x] EXCEPT !.pc = "inspect"] \in CloserState
      BY <1>1, <2>1
    <3>2. \A s : (IF MayBeCompleted(s) THEN "check" ELSE "failed") \in AtRest \cup Calls
      BY <2>1
    <3> QED BY <1>r, <2>2, <3>1, <3>2, BeginTyped DEF LiveBegin
  <2>3. CASE BeginAgain(x)
    <3>1. [closer[x] EXCEPT !.pc = "refresh"] \in CloserState
      BY <1>1, <2>1
    <3> QED BY <1>e, <2>3, <3>1, BeginTyped DEF BeginAgain
  <2> QED BY <1>7, <2>2, <2>3
<1>8. CASE StartFinalize(x)
  <2>1. [closer[x] EXCEPT !.pc = "list"] \in CloserState /\ "finalize" \in Calls
    BY <1>1 DEF Calls
  <2> QED BY <1>8, <1>r, <1>e, <2>1, RefreshTyped DEF StartFinalize, RefreshRaises
<1>9. ASSUME NEW at, NEW next \in Calls, RefreshAround(x, at, next)
      PROVE  \E state \in CloserState : Goes(x, state)
  <2>1. [closer[x] EXCEPT !.pc = next] \in CloserState
    BY <1>1
  <2> QED BY <1>9, <1>e, <2>1, RefreshTyped DEF RefreshAround, RefreshRaises
<1>10. CASE DeleteGeneration(x)
  <2>1. [closer[x] EXCEPT !.pc = "confirm"] \in CloserState
    BY <1>1 DEF Calls
  <2> QED BY <1>10, <1>e, <2>1 DEF DeleteGeneration, Answered
<1>11. CASE RecordDeletion(x)
  <2> DEFINE left == closer[x].todo \ {Min(closer[x].todo)}
  <2>1. NextGeneration(left) \in AtRest \cup Calls /\ left \in SUBSET Principals
    BY <1>0 DEF NextGeneration, Calls, CloserState
  <2>2. [closer[x] EXCEPT !.pc = NextGeneration(left), !.todo = left] \in CloserState
    BY <1>1, <2>1
  <2> QED BY <1>11, <1>e, <2>2 DEF RecordDeletion, Answered
<1>12. CASE Finalize(x)
  <2>1. "incomplete" \in AtRest
    BY DEF AtRest
  <2> QED BY <1>12, <1>r, <1>e, <2>1 DEF Finalize, Answered
<1>13. CASE ReaperClaim(x)
  <2>1. ASSUME NEW s, ClaimExpired(ClaimedOp(x), x, s)
        PROVE  [closer[x] EXCEPT !.pc = "refresh", !.op = ClaimedOp(x), !.fence = row'.fence]
                 \in CloserState
    <3>1. row'.closeOp = ClaimedOp(x)
      BY <1>0, <2>1 DEF ClaimExpired, TakeCloseLease, SessionRow
    <3> QED BY <1>0, <3>1 DEF CloserState, Calls
  <2> QED BY <1>13, <1>e, <2>1 DEF ReaperClaim, ClaimedOp, Answered
<1>14. CASE ReaperPurge(x)
  <2>1. "idle" \in AtRest /\ [closer[x] EXCEPT !.pc = "idle"] \in CloserState
    BY <1>1 DEF AtRest
  <2> QED BY <1>14, <1>e, <1>r, <2>1 DEF ReaperPurge, Answered
<1>15. CASE CallFails(x)
  BY <1>15, <1>e DEF CallFails
<1>16. "delete" \in Calls /\ "record" \in Calls /\ "finalize" \in Calls
  BY DEF Calls
<1> QED
  BY <1>2, <1>3, <1>4, <1>5, <1>6, <1>7, <1>8, <1>9, <1>10, <1>11, <1>12, <1>13, <1>14,
     <1>15, <1>16 DEF Acts, CloserCall

-----------------------------------------------------------------------------
LEMMA InitCloseInv == CloseInit => CloseInv
<1> SUFFICES ASSUME CloseInit PROVE CloseInv
  OBVIOUS
<1>1. IInv
  BY InitIInv DEF CloseInit
<1>2. /\ row.lifecycle = "absent" /\ row.closeOp = NONE /\ registrant = NONE /\ carried = {}
      /\ closer = [x \in Closers |->
                     [pc |-> "idle", op |-> IF x \in LiveClosers THEN x ELSE NONE,
                      fence |-> 0, todo |-> {}, retried |-> FALSE, age |-> 0]]
  BY DEF CloseInit, Init, RegistryInit, NoRow
<1>3. ClosersTypeOK
  <2>1. 0 \in 0..MaxFence /\ 0 \in 0..Skew
    BY BoundAssumption, DurationAssumption
  <2> QED BY <1>2, <2>1, CloserFacts DEF ClosersTypeOK, CloserState, AtRest
<1>4. SessionKnown
  BY <1>2 DEF SessionKnown, Registered, Open
<1>5. ASSUME NEW x \in Closers PROVE Holds(x) /\ Placed(x) /\ Listed(x)
  <2>1. /\ closer[x].pc = "idle" /\ closer[x].fence = 0
        /\ closer[x].op = IF x \in LiveClosers THEN x ELSE NONE
    BY <1>2
  <2> QED BY <1>2, <2>1 DEF Holds, Placed, Knows, Listed, Works, Reapers, Pressing, Deleting
<1> QED BY <1>1, <1>3, <1>4, <1>5 DEF CloseInv

LEMMA StepCloseInv == CloseInv /\ [CloseNext]_closeVars => CloseInv'
<1> SUFFICES ASSUME CloseInv, [CloseNext]_closeVars PROVE CloseInv'
  OBVIOUS
<1>n. [Next]_vars
  BY CloseStepIsStep
<1>i. IInv'
  BY <1>n, StepIInv DEF CloseInv
<1>t. ClosersTypeOK
  BY DEF CloseInv
<1>1. ASSUME NEW o \in LeaseOwners, HolderStep(o) PROVE CloseInv'
  <2>1. SessionMoves /\ SessionKnown' /\ \A y \in Closers : OwnerFixed(y)
    BY <1>1, HolderMovesSession
  <2>2. UNCHANGED <<closer, carried>> /\ registrant' \in {o, registrant}
    BY <1>1 DEF HolderStep
  <2>3. ClosersTypeOK'
    BY <1>t, <2>2 DEF ClosersTypeOK
  <2>4. \A y \in Closers : Holds(y)' /\ Placed(y)' /\ Listed(y)'
    BY <2>1, <2>2, OthersKeep
  <2> QED BY <1>i, <2>1, <2>3, <2>4 DEF CloseInv
<1>2. ASSUME NEW x \in Closers, Acts(x) PROVE CloseInv'
  <2>1. PICK state \in CloserState : Goes(x, state)
    BY <1>2, <1>i, ActsTyped
  <2>2. /\ closer' \in [Closers -> CloserState]
        /\ \A y \in Closers \ {x} : closer'[y] = closer[y]
    BY <1>t, <2>1, GoesTo
  <2>3. CallEffect(x)
    BY <1>2, CallEffects DEF CloseInv
  <2>4. /\ SessionMoves /\ SessionKnown'
        /\ \A y \in Closers \ {x} : OwnerFixed(y)
    BY <2>2, <2>3, EffectMoves
  <2>5. Holds(x)' /\ Placed(x)' /\ Listed(x)'
    BY <1>2, <1>i, <2>4, OwnKeeps DEF Moved, Informed
  <2>6. \A y \in Closers \ {x} : Holds(y)' /\ Placed(y)' /\ Listed(y)'
    BY <2>2, <2>4, OthersKeep
  <2>7. registrant' \in LeaseOwners \cup {NONE} /\ carried' \subseteq CloseOps
    <3>1. registrant' \in {registrant, NONE}
      BY <2>3 DEF CallEffect, Untouched, Refreshes, Begins, Claims, Deletes, Records,
                  Finalizes, Purges, Unregistered
    <3>2. CASE carried' = carried
      BY <1>t, <3>1, <3>2 DEF ClosersTypeOK
    <3>3. CASE Claims(x) /\ carried' = carried \cup {ClaimedOp(x)} /\ closer[x].op # NONE
      BY <1>t, <3>1, <3>3 DEF ClosersTypeOK, ClaimedOp, CloserState
    <3> QED
      BY <2>3, <3>2, <3>3 DEF CallEffect, Untouched, Refreshes, Begins, Claims, Deletes,
                              Records, Finalizes, Purges, Unregistered
  <2> QED BY <1>i, <2>2, <2>4, <2>5, <2>6, <2>7 DEF CloseInv, ClosersTypeOK
<1>3. CASE TimePassesClosing
  <2>1. SessionMoves /\ SessionKnown' /\ \A y \in Closers : OwnerFixed(y)
    BY <1>3, TimeMovesSession
  <2>2. /\ closer' = [x \in Closers |-> [closer[x] EXCEPT !.age = Min({@ + 1, Skew})]]
        /\ UNCHANGED <<registrant, carried>>
    BY <1>3 DEF TimePassesClosing
  <2>3. ASSUME NEW x \in Closers
        PROVE  /\ [closer[x] EXCEPT !.age = Min({@ + 1, Skew})] \in CloserState
               /\ closer'[x].pc = closer[x].pc /\ closer'[x].op = closer[x].op
               /\ closer'[x].fence = closer[x].fence /\ closer'[x].todo = closer[x].todo
    <3>1. closer[x] \in CloserState /\ closer[x].age \in 0..Skew
      BY <1>t DEF ClosersTypeOK, CloserState
    <3>2. Min({closer[x].age + 1, Skew}) \in 0..Skew
      BY <3>1, AgeType
    <3> QED BY <2>2, <3>1, <3>2 DEF CloserState
  <2>4. ClosersTypeOK'
    BY <1>t, <2>2, <2>3 DEF ClosersTypeOK
  <2>5. \A y \in Closers : Holds(y)' /\ Placed(y)' /\ Listed(y)'
    BY <2>1, <2>3, OthersKeep
  <2> QED BY <1>i, <2>1, <2>4, <2>5 DEF CloseInv
<1>4. CASE UNCHANGED closeVars
  <2>1. UNCHANGED <<row, gens, storage, issued, claims, closer, registrant, carried>>
    BY <1>4 DEF closeVars
  <2>2. ClosersTypeOK' /\ SessionKnown'
    BY <2>1 DEF CloseInv, ClosersTypeOK, SessionKnown, Registered
  <2>3. \A y \in Closers : Holds(y)' /\ Placed(y)' /\ Listed(y)'
    BY <2>1 DEF CloseInv, Holds, Authority, Placed, Knows, Registered, Listed, Works, Cleaned,
                Clean
  <2> QED BY <1>i, <2>2, <2>3 DEF CloseInv
<1> QED BY <1>1, <1>2, <1>3, <1>4 DEF CloseNext, Acts

LEMMA CloseInvariant == CloseSpec => []CloseInv
BY InitCloseInv, StepCloseInv, PTL DEF CloseSpec

(* The close protocol implements the registry and data plane of module      *)
(* DurableSession: no closer ever makes a call it was not granted the       *)
(* authority for, so what is proved of DurableSession holds of it.          *)
THEOREM ClosersImplementSession == CloseSpec => ImplementsDurableSession
<1>1. CloseInit => Init
  BY DEF CloseInit
<1> QED
  BY <1>1, CloseInvariant, CloseStepIsStep, PTL DEF CloseSpec, ImplementsDurableSession, Spec

(* Whoever began, interrupted or took over a close, what a closer finds at  *)
(* finalize is deleted and recorded, unless its operation was carried over  *)
(* to another registration.                                                 *)
THEOREM CleanupAlwaysSuffices == CloseSpec => []CleanupSuffices
<1>1. CloseInv => CleanupSuffices
  BY DEF CloseInv, Listed, CleanupSuffices
<1> QED BY <1>1, CloseInvariant, PTL

(* A bound closer closes its holder's session and no later registration,    *)
(* unless its operation was carried over to that registration.              *)
THEOREM ClosersCloseTheirOwn == CloseSpec => []ClosesOwnSession
<1>1. CloseInv => ClosesOwnSession
  <2> SUFFICES ASSUME CloseInv, NEW x \in LiveClosers \ carried,
                      row.lifecycle = "closing", row.owner = x
               PROVE  registrant = Holder(x)
    BY DEF ClosesOwnSession
  <2>1. row.closeOp = x
    BY DEF CloseInv, SessionKnown
  <2>2. x # NONE /\ Native(x) = Holder(x)
    BY CloserFacts
  <2> QED BY <2>1, <2>2 DEF CloseInv, SessionKnown
<1> QED BY <1>1, CloseInvariant, PTL

(* The session of module DurableSession stays coherent through every        *)
(* interleaving of holders, bound closers and reapers.                      *)
THEOREM ClosingStaysCoherent == CloseSpec => []SessionCoherent
<1>1. CloseInv => SessionCoherent
  BY DEF CloseInv, IInv, SessionCoherent, GenerationsConsistent
<1> QED BY <1>1, CloseInvariant, PTL
=============================================================================
