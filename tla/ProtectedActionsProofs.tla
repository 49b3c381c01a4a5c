------------------------ MODULE ProtectedActionsProofs ------------------------
(***************************************************************************)
(* Proofs about the protected actions, for any number of customers,        *)
(* intents, attempts and faults, and any lifetimes.                        *)
(***************************************************************************)
EXTENDS ProtectedActions, TLAPS

Idle == {"rest", "rotate", "terminal"}
Protected == Profile \cup {"refund"}

(* The node at work, or the one a recovery stands for.                      *)
Node == IF at = "recover" THEN origin ELSE at

RequestKnown ==
    /\ pending = NoPending <=> at \in Idle
    /\ pending # NoPending =>
          /\ pending.id = minted
          /\ pending.family = "identity" => pending.customer # NoCustomer
          /\ pending.family \in Protected => pending.customer = bound /\ bound # NoCustomer
    /\ Node \in {"risk", "dispatch", "collect", "route"} => pending.family # "original"
    /\ Node \in {"confirm", "asked", "aside", "place", "finish"} => pending.family # "identity"
    /\ Node \in {"effect", "takeover"} => pending.family \in Refund
    /\ Node = "apply" => pending.family = "identity"
    /\ at = "recover" => origin \notin Idle \cup {"none", "recover", "takeover", "aside"}
    /\ transition # NoTransition => Node \in {"apply", "rotate"} /\ at # "apply"

Unused(i) ==
    /\ challenges[i] = NoChallenge
    /\ subjects[i] = NoSubject
    /\ proofs[i].left = 0
    /\ earned[i] = NoCustomer
    /\ misses[i] = 0

CodeKnown(i) ==
    /\ challenges[i].status = "sent" =>
          earned[i] = NoCustomer /\ misses[i] + challenges[i].remaining = MaxAttempts
    /\ challenges[i].status = "verified" =>
          earned[i] = challenges[i].subject.customer /\ challenges[i].left \in 0 .. ProofTtl
    /\ subjects[i] # NoSubject /\ challenges[i] # NoChallenge =>
          challenges[i].subject = subjects[i]
    /\ proofs[i].left > 0 => earned[i] = proofs[i].subject.customer
    /\ misses[i] <= MaxAttempts
    /\ earned[i] # NoCustomer => misses[i] < MaxAttempts

CodesKnown ==
    /\ \A i \in Intents : CodeKnown(i)
    /\ \A i \in Intents : i > minted => Unused(i)
    /\ at \in {"risk", "dispatch"} => Unused(minted)

Allowed(customer, by) ==
    /\ customer # NoCustomer
    /\ by # {}
    /\ \A i \in by : earned[i] = customer

ThreadKnown ==
    /\ thread # NoThread =>
          /\ at \in {"effect", "takeover", "terminal"}
          /\ thread.id <= minted
          /\ told[thread.id] = "nothing"
    /\ at \in {"effect", "takeover"} =>
          thread # NoThread /\ thread.id = pending.id /\ thread.family = pending.family
    /\ thread.state \in {"running", "refused"} => ~Committed(thread.id)
    /\ thread.state = "done" => Committed(thread.id)
    /\ thread.state = "running" /\ thread.family = "refund" =>
          thread.customer = bound /\ Allowed(thread.customer, thread.by)
    /\ thread.state = "running" =>
          \A a \in effects : a.family = "contact" /\ a.id < thread.id =>
              \A i \in thread.by : i > a.id

BoundKnown == bound # NoCustomer => \E i \in Intents : earned[i] = bound

LedgerKnown ==
    /\ BoundKnown
    /\ \A e \in effects :
          /\ e.id <= minted
          /\ pending # NoPending /\ e.id = pending.id => e.family = pending.family
          /\ RequiredLevel(e.family) = 2 => e.owner = e.customer /\ Allowed(e.customer, e.by)
    /\ ContactChangeRevokes
    /\ at # "terminal" =>
          \A a \in effects : a.family = "contact" /\ (pending # NoPending => a.id # pending.id) =>
              \A i \in Intents : i <= a.id => proofs[i].left = 0

ToldKnown ==
    /\ TruthTold
    /\ \A i \in Intents : i > minted => told[i] = "nothing"
    /\ pending # NoPending => told[pending.id] = "nothing"
    /\ pending # NoPending /\ Committed(pending.id) =>
          at = "takeover" \/ Node \in {"effect", "finish"}
    /\ Node = "finish" => Committed(pending.id)

IInv == TypeOK /\ RequestKnown /\ CodesKnown /\ ThreadKnown /\ LedgerKnown /\ ToldKnown

-----------------------------------------------------------------------------
(* The one-time codes.                                                      *)

(* What a step does to the codes: a dispatch or an answer for the pending   *)
(* request, whole or cut short after the provider's half, a reduction to    *)
(* some of them, or the passing of time.                                    *)
CodeStep ==
    \/ UNCHANGED verification
    \/ /\ at = "dispatch"
       /\ ProviderDispatch(pending.id, Subject)
       /\ subjects' \in {subjects, [subjects EXCEPT ![pending.id] = Subject]}
       /\ UNCHANGED <<proofs, earned, misses>>
    \/ /\ at = "collect"
       /\ \E code \in Codes :
             \/ VerifyOtp(pending.id, code)
             \/ ProviderVerify(pending.id, code) /\ UNCHANGED store
    \/ \E kept \in SUBSET Intents :
          RetainOnly(kept) \/ (ProviderRetainOnly(kept) /\ UNCHANGED <<store, earned, misses>>)
    \/ VerificationTick

(* No code that was earned is unlearned, and no proof appears but that of   *)
(* the pending request.                                                     *)
CodesStand ==
    \A i \in Intents :
        /\ earned[i] # NoCustomer => earned'[i] = earned[i]
        /\ proofs[i].left = 0 /\ (pending # NoPending => i # minted) => proofs'[i].left = 0
        /\ Unused(i) /\ (pending # NoPending => i # minted) => Unused(i)'

LEMMA EmptyNames ==
    /\ NoChallenge.status = "none" /\ NoChallenge.left = 0
    /\ NoProof.left = 0
    /\ NoSubject \notin Subjects
    /\ NoSubject.customer = NoCustomer
    /\ NoChallenge \notin Challenges
    /\ NoPending.id = 0 /\ NoPending.family = "none" /\ NoPending.left = 0
    /\ NoThread.state = "idle"
BY CustomersAssumption
   DEF NoChallenge, NoProof, NoSubject, Subjects, NoPending, NoThread, Purposes, Challenges

LEMMA DispatchKeepsCodes ==
    ASSUME TypeOK, RequestKnown, CodesKnown, at = "dispatch",
           ProviderDispatch(pending.id, Subject),
           subjects' \in {subjects, [subjects EXCEPT ![pending.id] = Subject]},
           UNCHANGED <<proofs, earned, misses>>
    PROVE  VerificationTypeOK' /\ (\A i \in Intents : CodeKnown(i)') /\ CodesStand
<1>1. /\ pending # NoPending /\ pending.id = minted /\ minted \in Intents
      /\ pending.family \in AllFamilies \ {"original"} /\ pending.customer \in Nobody
  BY DEF RequestKnown, Idle, Node, TypeOK
<1>2. Subject \in Subjects /\ Subject # NoSubject
  <2>1. pending.customer \in Customers
    BY <1>1 DEF RequestKnown, AllFamilies, Protected, Profile, Nobody
  <2>2. PurposeOf(pending.family) \in Purposes
    BY <1>1 DEF PurposeOf, Purposes
  <2> QED BY <2>1, <2>2, EmptyNames DEF Subject, Subjects
<1>3. PICK i0 \in Intents, s0 \in Subjects : i0 = pending.id /\ s0 = Subject
  BY <1>1, <1>2
<1>4. Unused(i0) BY <1>1, <1>3 DEF CodesKnown
<1>5. challenges \in [Intents -> Challenges \cup {NoChallenge}]
      /\ subjects \in [Intents -> Subjects \cup {NoSubject}]
  BY DEF TypeOK, VerificationTypeOK
<1> DEFINE sent == [status |-> "sent", subject |-> s0, remaining |-> MaxAttempts,
                    left |-> ChallengeTtl]
<1>6. sent \in Challenges
  BY VerificationAssumption DEF Challenges
<1>7. challenges' = [challenges EXCEPT ![i0] = sent]
  BY <1>3, <1>4 DEF ProviderDispatch, Unused
<1>8. /\ sent.status = "sent" /\ sent.subject = s0 /\ sent.remaining = MaxAttempts
  OBVIOUS
<1> HIDE DEF sent
<1>9. VerificationTypeOK'
  BY <1>3, <1>5, <1>6, <1>7 DEF TypeOK, VerificationTypeOK
<1>10. ASSUME NEW i \in Intents PROVE CodeKnown(i)'
  <2>1. /\ challenges'[i] = IF i = i0 THEN sent ELSE challenges[i]
        /\ i # i0 => subjects'[i] = subjects[i]
        /\ i = i0 => subjects'[i] \in {NoSubject, s0}
        /\ proofs' = proofs /\ earned' = earned /\ misses' = misses
    BY <1>3, <1>4, <1>5, <1>7 DEF Unused
  <2>2. CASE i = i0
    BY <2>1, <2>2, <1>4, <1>8, VerificationAssumption DEF CodeKnown, Unused
  <2>3. CASE i # i0
    BY <2>1, <2>3 DEF CodeKnown, CodesKnown
  <2> QED BY <2>2, <2>3
<1>11. CodesStand
  <2>1. \A i \in Intents : i # i0 => challenges'[i] = challenges[i] /\ subjects'[i] = subjects[i]
    BY <1>3, <1>5, <1>7
  <2> QED BY <2>1, <1>1, <1>3 DEF CodesStand, Unused
<1> QED BY <1>9, <1>10, <1>11

(* What the provider makes of an answer to one challenge.                   *)
LEMMA ProviderVerifyEffect ==
    ASSUME VerificationTypeOK, NEW n \in Intents, NEW code \in Nobody, CodeKnown(n),
           ProviderVerify(n, code)
    PROVE  /\ challenges' \in [Intents -> Challenges \cup {NoChallenge}]
           /\ earned' \in [Intents -> Nobody]
           /\ misses' \in [Intents -> Nat]
           /\ \A i \in Intents \ {n} : /\ challenges'[i] = challenges[i]
                                       /\ earned'[i] = earned[i]
                                       /\ misses'[i] = misses[i]
           /\ earned[n] # NoCustomer => earned'[n] = earned[n]
           /\ challenges'[n].status = "sent" =>
                 earned'[n] = NoCustomer /\ misses'[n] + challenges'[n].remaining = MaxAttempts
           /\ challenges'[n].status = "verified" =>
                 /\ earned'[n] = challenges'[n].subject.customer
                 /\ challenges'[n].left \in 0 .. ProofTtl
           /\ challenges'[n].subject = challenges[n].subject
           /\ challenges'[n] = NoChallenge <=> challenges[n] = NoChallenge
           /\ misses'[n] <= MaxAttempts
           /\ earned'[n] # NoCustomer => misses'[n] < MaxAttempts
           /\ Outcome(n, code) = "verified" =>
                 /\ challenges[n] # NoChallenge
                 /\ earned'[n] = challenges[n].subject.customer
                 /\ challenges'[n].left \in 0 .. ProofTtl
<1> DEFINE right == Answerable(n) /\ Matches(n, code)
           c == challenges[n]
<1>1. /\ challenges \in [Intents -> Challenges \cup {NoChallenge}]
      /\ earned \in [Intents -> Nobody]
      /\ misses \in [Intents -> Nat]
  BY DEF VerificationTypeOK, Nobody
<1>2. CASE ~Answerable(n)
  <2>1. challenges' = challenges /\ earned' = earned /\ misses' = misses
    BY <1>2 DEF ProviderVerify
  <2>2. Outcome(n, code) = "verified" => c.status = "verified"
    BY <1>1, <1>2 DEF Outcome, Answerable, Challenges, NoChallenge
  <2>3. c.status = "verified" => c \in Challenges
    BY <1>1, EmptyNames
  <2> QED BY <1>1, <2>1, <2>2, <2>3, EmptyNames DEF CodeKnown
<1>3. CASE Answerable(n)
  <2>1. c \in Challenges /\ c # NoChallenge
    BY <1>1, <1>3, EmptyNames DEF Answerable
  <2>2. /\ c.status = "sent" /\ c.remaining \in 1 .. MaxAttempts /\ c.left > 0
        /\ c.left \in 0 .. ProofTtl \cup 0 .. ChallengeTtl
        /\ c.subject \in Subjects /\ c.subject.customer \in Customers
    BY <1>3, <2>1, VerificationAssumption DEF Answerable, Challenges, Subjects
  <2>3. earned[n] = NoCustomer /\ misses[n] + c.remaining = MaxAttempts /\ misses[n] \in Nat
    BY <2>2, <1>1 DEF CodeKnown
  <2> DEFINE next == [c EXCEPT !.remaining = @ - 1,
                               !.status = IF right THEN "verified" ELSE @,
                               !.left = IF right THEN ProofTtl ELSE @]
  <2>4. /\ next.remaining = c.remaining - 1 /\ next.subject = c.subject
        /\ next.status = IF right THEN "verified" ELSE "sent"
        /\ next.left = IF right THEN ProofTtl ELSE c.left
    BY <2>1, <2>2 DEF Challenges
  <2>5. next \in Challenges
    <3>1. c.remaining - 1 \in 0 .. MaxAttempts
      BY <2>2, VerificationAssumption
    <3>2. ProofTtl \in 0 .. ProofTtl BY VerificationAssumption
    <3> QED BY <2>1, <2>2, <3>1, <3>2 DEF Challenges
  <2>6. challenges' = [challenges EXCEPT ![n] = next]
    BY <1>1, <1>3 DEF ProviderVerify
  <2> HIDE DEF next
  <2>7. next # NoChallenge BY <2>5, EmptyNames
  <2>8. challenges'[n] = next
        /\ challenges' \in [Intents -> Challenges \cup {NoChallenge}]
        /\ \A i \in Intents \ {n} : challenges'[i] = challenges[i]
    BY <1>1, <2>5, <2>6
  <2>9. CASE right
    <3>1. earned' = [earned EXCEPT ![n] = code] /\ misses' = misses
      BY <2>9 DEF ProviderVerify
    <3>2. code = c.subject.customer BY <2>9 DEF Matches
    <3>3. next.left \in 0 .. ProofTtl
      BY <2>4, <2>9, VerificationAssumption
    <3>4. misses[n] < MaxAttempts BY <2>2, <2>3, VerificationAssumption
    <3> QED BY <1>1, <2>1, <2>2, <2>3, <2>4, <2>7, <2>8, <2>9, <3>1, <3>2, <3>3, <3>4
  <2>10. CASE ~right
    <3>1. earned' = earned /\ misses' = [misses EXCEPT ![n] = misses[n] + 1]
      BY <1>1, <1>3, <2>10 DEF ProviderVerify
    <3>2. Outcome(n, code) # "verified"
      BY <1>3, <2>2, <2>10 DEF Outcome
    <3>3. misses' \in [Intents -> Nat] /\ misses'[n] = misses[n] + 1
          /\ \A i \in Intents \ {n} : misses'[i] = misses[i]
      BY <1>1, <3>1
    <3>4. misses'[n] + next.remaining = MaxAttempts /\ misses'[n] <= MaxAttempts
      BY <2>2, <2>3, <2>4, <3>3, VerificationAssumption
    <3> QED BY <1>1, <2>1, <2>3, <2>4, <2>7, <2>8, <2>10, <3>1, <3>2, <3>3, <3>4
  <2> QED BY <2>9, <2>10
<1> QED BY <1>2, <1>3

LEMMA AnswerKeepsCodes ==
    ASSUME TypeOK, RequestKnown, CodesKnown, at = "collect", NEW code \in Codes,
           VerifyOtp(pending.id, code)
              \/ (ProviderVerify(pending.id, code) /\ UNCHANGED store)
    PROVE  VerificationTypeOK' /\ (\A i \in Intents : CodeKnown(i)') /\ CodesStand
<1>1. pending # NoPending /\ pending.id = minted /\ minted \in Intents
  BY DEF RequestKnown, Idle, TypeOK
<1>2. PICK n \in Intents : n = pending.id /\ n = minted BY <1>1
<1>3. code \in Nobody BY CallerAssumption DEF Codes, Nobody
<1>4. CodeKnown(n) /\ VerificationTypeOK BY DEF CodesKnown, TypeOK
<1>5. ProviderVerify(n, code) BY <1>2 DEF VerifyOtp
<1> DEFINE fresh == [subject |-> subjects[n], left |-> challenges'[n].left]
           minting == Outcome(n, code) = "verified" /\ proofs[n] = NoProof /\ subjects[n] # NoSubject
<1>6. subjects' = subjects /\ (proofs' = proofs \/ (minting /\ proofs' = [proofs EXCEPT ![n] = fresh]))
  BY <1>2 DEF VerifyOtp, store
<1>7. /\ subjects \in [Intents -> Subjects \cup {NoSubject}]
      /\ proofs \in [Intents -> Proofs \cup {NoProof}]
  BY DEF TypeOK, VerificationTypeOK
<1>8. minting => /\ subjects[n] \in Subjects
                 /\ subjects[n] = challenges[n].subject
                 /\ earned'[n] = subjects[n].customer
  BY <1>3, <1>4, <1>5, <1>7, ProviderVerifyEffect DEF CodeKnown
<1>9. minting => fresh \in Proofs
  BY <1>3, <1>4, <1>5, <1>8, ProviderVerifyEffect DEF Proofs
<1>10. /\ proofs' \in [Intents -> Proofs \cup {NoProof}]
       /\ \A i \in Intents \ {n} : proofs'[i] = proofs[i]
       /\ proofs'[n] = proofs[n] \/ (minting /\ proofs'[n] = fresh)
  BY <1>6, <1>7, <1>9
<1>11. fresh.subject = subjects[n] OBVIOUS
<1> HIDE DEF fresh
<1>12. VerificationTypeOK'
  BY <1>3, <1>4, <1>5, <1>6, <1>10, ProviderVerifyEffect DEF VerificationTypeOK, Nobody
<1>13. ASSUME NEW i \in Intents PROVE CodeKnown(i)'
  <2>1. CodeKnown(i) BY DEF CodesKnown
  <2>2. CASE i # n
    <3>1. /\ challenges'[i] = challenges[i] /\ subjects' = subjects /\ proofs'[i] = proofs[i]
          /\ earned'[i] = earned[i] /\ misses'[i] = misses[i]
      BY <1>3, <1>4, <1>5, <1>6, <1>10, <2>2, ProviderVerifyEffect
    <3> QED BY <2>1, <3>1 DEF CodeKnown
  <2>3. CASE i = n
    <3>1. proofs'[n].left > 0 => earned'[n] = proofs'[n].subject.customer
      <4>1. CASE proofs'[n] = proofs[n]
        <5>1. proofs[n].left > 0 => proofs[n].subject.customer \in Customers
          BY <1>7, EmptyNames DEF Proofs, Subjects
        <5> QED BY <1>3, <1>4, <1>5, <4>1, <5>1, ProviderVerifyEffect, CustomersAssumption
                DEF CodeKnown
      <4>2. CASE minting /\ proofs'[n] = fresh
        BY <4>2, <1>8, <1>11
      <4> QED BY <1>10, <4>1, <4>2
    <3>2. subjects'[n] # NoSubject /\ challenges'[n] # NoChallenge =>
              challenges'[n].subject = subjects'[n]
      BY <1>3, <1>4, <1>5, <1>6, ProviderVerifyEffect DEF CodeKnown
    <3> QED BY <1>3, <1>4, <1>5, <2>3, <3>1, <3>2, ProviderVerifyEffect DEF CodeKnown
  <2> QED BY <2>2, <2>3
<1>14. CodesStand
  <2>1. \A i \in Intents \ {n} :
           /\ challenges'[i] = challenges[i] /\ subjects' = subjects /\ proofs'[i] = proofs[i]
           /\ earned'[i] = earned[i] /\ misses'[i] = misses[i]
    BY <1>3, <1>4, <1>5, <1>6, <1>10, ProviderVerifyEffect
  <2>2. earned[n] # NoCustomer => earned'[n] = earned[n]
    BY <1>3, <1>4, <1>5, ProviderVerifyEffect
  <2> QED BY <1>1, <1>2, <2>1, <2>2 DEF CodesStand, Unused
<1> QED BY <1>12, <1>13, <1>14

LEMMA RetainKeepsCodes ==
    ASSUME TypeOK, CodesKnown, NEW kept \in SUBSET Intents,
           RetainOnly(kept) \/ (ProviderRetainOnly(kept) /\ UNCHANGED <<store, earned, misses>>)
    PROVE  VerificationTypeOK' /\ (\A i \in Intents : CodeKnown(i)') /\ CodesStand
<1>1. /\ challenges \in [Intents -> Challenges \cup {NoChallenge}]
      /\ subjects \in [Intents -> Subjects \cup {NoSubject}]
      /\ proofs \in [Intents -> Proofs \cup {NoProof}]
  BY DEF TypeOK, VerificationTypeOK
<1>2. ASSUME NEW i \in Intents
      PROVE  /\ challenges'[i] = IF i \in kept THEN challenges[i] ELSE NoChallenge
             /\ subjects'[i] \in {subjects[i], NoSubject}
             /\ proofs'[i] \in {proofs[i], NoProof}
             /\ earned' = earned /\ misses' = misses
  BY DEF RetainOnly, ProviderRetainOnly, store
<1>3. VerificationTypeOK'
  <2>1. challenges' \in [Intents -> Challenges \cup {NoChallenge}]
    BY <1>1 DEF RetainOnly, ProviderRetainOnly
  <2>2. subjects' \in [Intents -> Subjects \cup {NoSubject}]
    BY <1>1 DEF RetainOnly, ProviderRetainOnly, store
  <2>3. proofs' \in [Intents -> Proofs \cup {NoProof}]
    BY <1>1 DEF RetainOnly, ProviderRetainOnly, store
  <2>4. earned' = earned /\ misses' = misses
    BY DEF RetainOnly, ProviderRetainOnly, store
  <2> QED BY <2>1, <2>2, <2>3, <2>4 DEF TypeOK, VerificationTypeOK
<1>4. ASSUME NEW i \in Intents PROVE CodeKnown(i)'
  BY <1>2, EmptyNames DEF CodeKnown, CodesKnown
<1>5. CodesStand BY <1>2, EmptyNames DEF CodesStand, Unused
<1> QED BY <1>3, <1>4, <1>5

LEMMA TickKeepsCodes ==
    ASSUME TypeOK, CodesKnown, VerificationTick
    PROVE  VerificationTypeOK' /\ (\A i \in Intents : CodeKnown(i)') /\ CodesStand
<1>1. /\ challenges \in [Intents -> Challenges \cup {NoChallenge}]
      /\ proofs \in [Intents -> Proofs \cup {NoProof}]
  BY DEF TypeOK, VerificationTypeOK
<1>2. ASSUME NEW n \in Nat PROVE Less(n) \in 0 .. n
  BY DEF Less
<1>3. ASSUME NEW c \in Challenges \cup {NoChallenge}
      PROVE  LET d == [c EXCEPT !.left = Less(c.left)]
             IN  /\ d \in Challenges \cup {NoChallenge}
                 /\ d.status = c.status /\ d.subject = c.subject /\ d.remaining = c.remaining
                 /\ d = NoChallenge <=> c = NoChallenge
                 /\ c.left \in Nat /\ d.left \in 0 .. c.left
  <2>1. CASE c = NoChallenge
    BY <2>1 DEF NoChallenge, Less
  <2>2. CASE c \in Challenges
    <3>1. c.left \in 0 .. ChallengeTtl \cup 0 .. ProofTtl BY <2>2 DEF Challenges
    <3>2. Less(c.left) \in 0 .. ChallengeTtl \cup 0 .. ProofTtl /\ Less(c.left) \in 0 .. c.left
          /\ c.left \in Nat
      BY <1>2, <3>1, VerificationAssumption
    <3>3. [c EXCEPT !.left = Less(c.left)] \in Challenges BY <2>2, <3>2 DEF Challenges
    <3> QED BY <2>2, <3>2, <3>3, EmptyNames DEF Challenges
  <2> QED BY <2>1, <2>2
<1>4. ASSUME NEW q \in Proofs \cup {NoProof}
      PROVE  LET d == [q EXCEPT !.left = Less(q.left)]
             IN  /\ d \in Proofs \cup {NoProof}
                 /\ d.subject = q.subject /\ q.left \in Nat /\ d.left \in 0 .. q.left
  <2>1. CASE q = NoProof
    BY <2>1 DEF NoProof, Less
  <2>2. CASE q \in Proofs
    <3>1. q.left \in 0 .. ProofTtl BY <2>2 DEF Proofs
    <3>2. Less(q.left) \in 0 .. ProofTtl /\ Less(q.left) \in 0 .. q.left /\ q.left \in Nat
      BY <1>2, <3>1, VerificationAssumption
    <3> QED BY <2>2, <3>2 DEF Proofs
  <2> QED BY <2>1, <2>2
<1>5. VerificationTypeOK'
  BY <1>1, <1>3, <1>4 DEF VerificationTick, TypeOK, VerificationTypeOK
<1>6. ASSUME NEW i \in Intents
      PROVE  /\ challenges'[i].status = challenges[i].status
             /\ challenges'[i].subject = challenges[i].subject
             /\ challenges'[i].remaining = challenges[i].remaining
             /\ challenges'[i] = NoChallenge <=> challenges[i] = NoChallenge
             /\ challenges[i].left \in Nat /\ challenges'[i].left \in 0 .. challenges[i].left
             /\ proofs'[i].subject = proofs[i].subject
             /\ proofs[i].left \in Nat /\ proofs'[i].left \in 0 .. proofs[i].left
             /\ subjects' = subjects /\ earned' = earned /\ misses' = misses
  BY <1>1, <1>3, <1>4 DEF VerificationTick
<1>7. ASSUME NEW i \in Intents PROVE CodeKnown(i)'
  BY <1>6, VerificationAssumption DEF CodeKnown, CodesKnown
<1>8. CodesStand BY <1>6 DEF CodesStand, Unused
<1> QED BY <1>5, <1>7, <1>8

(* Whatever a step does to the codes, it keeps what is known of them.       *)
LEMMA CodeStepKeepsCodes ==
    ASSUME TypeOK, RequestKnown, CodesKnown, CodeStep
    PROVE  VerificationTypeOK' /\ (\A i \in Intents : CodeKnown(i)') /\ CodesStand
<1>1. CASE UNCHANGED verification
  BY <1>1 DEF TypeOK, VerificationTypeOK, CodesKnown, CodeKnown, CodesStand, Unused, verification
<1> QED
  BY <1>1, DispatchKeepsCodes, AnswerKeepsCodes, RetainKeepsCodes, TickKeepsCodes DEF CodeStep

-----------------------------------------------------------------------------
(* The request at hand.                                                     *)

LEMMA StepIsCodeStep ==
    ASSUME TypeOK, RequestKnown, [Next]_vars
    PROVE  CodeStep
<1>1. pending # NoPending => pending.id \in Intents BY DEF TypeOK
<1>2. at \in {"dispatch", "collect", "apply"} => pending # NoPending BY DEF RequestKnown, Idle
<1>3. {} \in SUBSET Intents OBVIOUS
<1>4. ASSUME NEW family \in Families, NEW customer \in Nobody, Begin(family, customer)
      PROVE  CodeStep
  BY <1>4 DEF Begin, CodeStep
<1>5. ASSUME NEW blocked \in BOOLEAN, RiskCheck(blocked) PROVE CodeStep
  BY <1>5 DEF RiskCheck, CodeStep
<1>6. CASE Dispatch
  BY <1>6 DEF Dispatch, DispatchOtp, store, CodeStep
<1>7. ASSUME NEW code \in Codes, Collect(code) PROVE CodeStep
  BY <1>7 DEF Collect, CodeStep
<1>8. CASE RouteAfterCollect \/ Confirm \/ Reread
  BY <1>8 DEF RouteAfterCollect, Confirm, Reread, CodeStep
<1>9. ASSUME NEW reply \in Replies, Answer(reply) PROVE CodeStep
  BY <1>9 DEF Answer, CodeStep
<1>10. CASE PlaceProfile \/ PlaceRefund \/ IssueRefund \/ RefundReturns
  BY <1>10 DEF PlaceProfile, PlaceRefund, IssueRefund, RefundReturns, CodeStep
<1>11. CASE Finish
  BY <1>11, <1>3 DEF Finish, FinishEffect, CodeStep
<1>12. CASE Apply
  BY <1>12, <1>1, <1>2 DEF Apply, TransitionPrincipal, CodeStep
<1>13. CASE Rotate
  BY <1>13, <1>3 DEF Rotate, Invalidate, CodeStep
<1>14. CASE FailNode \/ AbandonRefund \/ TakeOver \/ TakeOverTimesOut
  BY <1>14 DEF FailNode, AbandonRefund, TakeOver, TakeOverTimesOut, CodeStep
<1>15. CASE Recover
  BY <1>15, <1>3 DEF Recover, AbortRequest, ReconcileEffect, FinishEffect,
                     ReconcilePrincipalTransition, Invalidate, CodeStep
<1>16. CASE RecoveryFails
  BY <1>16, <1>3 DEF RecoveryFails, CodeStep
<1>17. CASE Tick
  BY <1>17 DEF Tick, CodeStep
<1>18. CASE UNCHANGED vars
  BY <1>18 DEF vars, CodeStep
<1> QED
  BY <1>4, <1>5, <1>6, <1>7, <1>8, <1>9, <1>10, <1>11, <1>12, <1>13, <1>14, <1>15, <1>16, <1>17,
     <1>18 DEF Next

(* The parts of TypeOK beyond the codes.                                    *)
RequestRecord == [id : Intents, family : AllFamilies, customer : Nobody, left : 0 .. PendingTtl]
ThreadRecord == [state : {"running", "done", "refused", "raised"}, id : Intents,
                 family : Refund, customer : Nobody, by : SUBSET Intents]
Rows == [id : Intents, family : AllFamilies \ {"identity"}, customer : Nobody,
         owner : Nobody, by : SUBSET Intents]

RequestType ==
    /\ pending \in RequestRecord \cup {NoPending}
    /\ at \in Nodes
    /\ origin \in Nodes \cup {"none"}
    /\ told \in [Intents -> {"nothing", "done", "failed"}]
    /\ minted \in 0 .. MaxIntents
    /\ faults \in 0 .. MaxFaults
BindingType ==
    /\ bound \in Nobody
    /\ transition \in [id : Intents, customer : Customers] \cup {NoTransition}
EffectType ==
    /\ thread \in ThreadRecord \cup {NoThread}
    /\ effects \subseteq Rows

LEMMA TypeParts == TypeOK <=> VerificationTypeOK /\ RequestType /\ BindingType /\ EffectType
BY DEF TypeOK, RequestType, BindingType, EffectType, RequestRecord, ThreadRecord, Rows

LEMMA StepKeepsRequestType ==
    ASSUME TypeOK, RequestKnown, [Next]_vars
    PROVE  RequestType'
<1>1. RequestType BY TypeParts
<1>2. pending # NoPending => pending.id \in Intents BY DEF TypeOK
<1>3. pending = NoPending <=> at \in Idle BY DEF RequestKnown
<1>4. minted \in Nat /\ faults \in Nat /\ MaxFaults \in Nat /\ MaxIntents \in Nat
  BY <1>1, VerificationAssumption, CallerAssumption DEF RequestType
<1>5. Fault => faults' \in 0 .. MaxFaults BY <1>4 DEF Fault
<1>6. Mark => pending' = pending /\ told' = told /\ at' \in Nodes /\ origin' \in Nodes
  BY <1>1 DEF Mark, RequestType, Nodes
<1>7. ASSUME Drop \/ Terminal
      PROVE  pending' = NoPending /\ told' = told /\ at' \in Nodes
  BY <1>7 DEF Drop, Terminal, Nodes
<1>8. ASSUME NEW what \in {"done", "failed"}, at \notin Idle, Tell(what) \/ TellAndHandOver(what)
      PROVE  /\ pending' = NoPending /\ at' \in Nodes
             /\ told' \in [Intents -> {"nothing", "done", "failed"}]
  BY <1>1, <1>2, <1>3, <1>8 DEF Tell, TellAndHandOver, Nodes, RequestType
<1>9. ASSUME NEW family \in Families, NEW customer \in Nobody, Begin(family, customer)
      PROVE  RequestType'
  <2>1. minted + 1 \in Intents /\ minted + 1 \in 0 .. MaxIntents
    BY <1>4, <1>9 DEF Begin, Intents
  <2>2. pending' \in RequestRecord
    BY <1>9, <2>1, CallerAssumption DEF Begin, RequestRecord
  <2> QED BY <1>1, <1>9, <2>1, <2>2 DEF Begin, RequestType, Nodes
<1>10. ASSUME NEW blocked \in BOOLEAN, RiskCheck(blocked) PROVE RequestType'
  BY <1>1, <1>7, <1>10 DEF RiskCheck, RequestType, Nodes
<1>11. CASE Dispatch
  BY <1>1, <1>5, <1>6, <1>11 DEF Dispatch, RequestType, Nodes
<1>12. ASSUME NEW code \in Codes, Collect(code) PROVE RequestType'
  BY <1>1, <1>5, <1>6, <1>7, <1>12 DEF Collect, RequestType, Nodes
<1>13. CASE RouteAfterCollect \/ Reread
  BY <1>1, <1>7, <1>13 DEF RouteAfterCollect, Reread, RequestType, Nodes
<1>14. CASE Confirm
  BY <1>1, <1>8, <1>14 DEF Confirm, RequestType, Nodes, Idle
<1>15. ASSUME NEW reply \in Replies, Answer(reply) PROVE RequestType'
  BY <1>1, <1>7, <1>8, <1>15 DEF Answer, RequestType, Nodes, Idle
<1>16. CASE PlaceProfile
  BY <1>1, <1>7, <1>8, <1>16 DEF PlaceProfile, RequestType, Nodes, Idle
<1>17. CASE PlaceRefund
  BY <1>1, <1>7, <1>17 DEF PlaceRefund, RequestType, Nodes
<1>18. CASE IssueRefund
  BY <1>1, <1>5, <1>18 DEF IssueRefund, RequestType
<1>19. CASE RefundReturns
  BY <1>1, <1>6, <1>8, <1>19 DEF RefundReturns, RequestType, Nodes, Idle
<1>20. CASE Finish
  BY <1>1, <1>5, <1>6, <1>8, <1>20 DEF Finish, FinishEffect, RequestType, Idle
<1>21. CASE Apply
  BY <1>1, <1>5, <1>6, <1>7, <1>21 DEF Apply, TransitionPrincipal, RequestType, Nodes
<1>22. CASE Rotate
  BY <1>1, <1>5, <1>7, <1>22 DEF Rotate, Invalidate, RequestType, Nodes
<1>23. CASE FailNode \/ AbandonRefund
  BY <1>1, <1>5, <1>6, <1>23 DEF FailNode, AbandonRefund, RequestType, Nodes
<1>24. CASE TakeOver \/ TakeOverTimesOut
  BY <1>1, <1>7, <1>24 DEF TakeOver, TakeOverTimesOut, RequestType, Nodes
<1>25. CASE Recover
  <2>1. at \notin Idle BY <1>25 DEF Recover, Idle
  <2>2. origin' \in Nodes \cup {"none"} /\ minted' = minted BY <1>25 DEF Recover
  <2>3. CASE AbortRequest
    BY <1>1, <1>7, <1>8, <2>1, <2>2, <2>3 DEF AbortRequest, RequestType
  <2>4. CASE ReconcileEffect
    BY <1>1, <1>8, <2>1, <2>2, <2>4 DEF ReconcileEffect, FinishEffect, RequestType
  <2>5. CASE ReconcilePrincipalTransition
    BY <1>1, <1>5, <1>7, <2>2, <2>5
       DEF ReconcilePrincipalTransition, Invalidate, RequestType, Nodes
  <2> QED BY <1>25, <2>3, <2>4, <2>5 DEF Recover
<1>26. CASE RecoveryFails
  BY <1>1, <1>5, <1>7, <1>26 DEF RecoveryFails, RequestType
<1>27. CASE Tick
  <2>1. pending' \in RequestRecord \cup {NoPending}
    <3>1. CASE pending = NoPending BY <1>27, <3>1 DEF Tick, NoPending, Less
    <3>2. CASE pending \in RequestRecord
      <4>1. pending.left \in 0 .. PendingTtl BY <3>2 DEF RequestRecord
      <4>2. Less(pending.left) \in 0 .. PendingTtl BY <4>1, CallerAssumption DEF Less
      <4> QED BY <1>27, <3>2, <4>2 DEF Tick, RequestRecord
    <3> QED BY <1>1, <3>1, <3>2 DEF RequestType
  <2> QED BY <1>1, <1>27, <2>1 DEF Tick, RequestType
<1>28. CASE UNCHANGED vars
  BY <1>1, <1>28 DEF vars, RequestType
<1> QED
  BY <1>9, <1>10, <1>11, <1>12, <1>13, <1>14, <1>15, <1>16, <1>17, <1>18, <1>19, <1>20, <1>21,
     <1>22, <1>23, <1>24, <1>25, <1>26, <1>27, <1>28 DEF Next

(* What a step does to the binding: nothing; it publishes an exchange and   *)
(* carries it out, whole or in part; it closes one; or it undoes one, and   *)
(* automation ends.                                                         *)
BindingStep ==
    \/ UNCHANGED context
    \/ /\ at = "apply"
       /\ bound # pending.customer
       /\ ChallengeSatisfies(pending.id, Subject)
       /\ transition' = [id |-> pending.id, customer |-> pending.customer]
       /\ bound' \in {bound, NoCustomer, pending.customer}
       /\ at' = "rotate" \/ (at' = "recover" /\ origin' = "apply")
    \/ at = "rotate" /\ Coherent /\ bound' = bound /\ transition' = NoTransition /\ at' = "rest"
       /\ UNCHANGED verification
    \/ /\ at \in {"rotate", "recover"}
       /\ at' = "terminal"
       /\ bound' = NoCustomer
       /\ transition' = NoTransition

(* What a step does to the ledgers and the worker thread: a profile change  *)
(* is written; a refund is given to the thread; the thread ends, having     *)
(* written it or not; or its outcome is taken.                              *)
ProfileWritten ==
    /\ at = "place" /\ at' = "finish"
    /\ pending.family \in Profile
    /\ Proven # {} /\ bound = pending.customer
    /\ effects' = effects \cup {Effect(pending.id, pending.family, pending.customer, Proven)}
    /\ UNCHANGED <<pending, told, thread, context, verification, minted, origin>>
RefundStarted ==
    /\ at = "place" /\ at' = "effect"
    /\ pending.family \in Refund
    /\ \E by \in SUBSET Intents :
          /\ thread' = [state |-> "running", id |-> pending.id, family |-> pending.family,
                        customer |-> pending.customer, by |-> by]
          /\ by \in {{}, Proven}
          /\ pending.family = "refund" => by = Proven /\ by # {}
    /\ UNCHANGED <<pending, told, effects, context, verification, minted, origin>>
RefundEnded ==
    /\ thread.state = "running"
    /\ \E how \in {"done", "refused", "raised"} :
          /\ thread' = [thread EXCEPT !.state = how]
          /\ \/ how # "done" /\ effects' = effects
             \/ /\ how # "refused"
                /\ effects' = effects
                      \cup {Effect(thread.id, thread.family, thread.customer, thread.by)}
    /\ UNCHANGED <<pending, told, at, context, verification, minted, origin>>
OutcomeTaken ==
    /\ at \in {"effect", "takeover"} /\ thread.state # "running"
    /\ thread' = NoThread
    /\ \/ thread.state = "done" /\ at' = "finish" /\ UNCHANGED <<pending, told>>
       \/ thread.state = "refused" /\ at' = "terminal" /\ pending' = NoPending
          /\ told' = [told EXCEPT ![pending.id] = "failed"]
       \/ at' = "recover" /\ origin' = "effect" /\ UNCHANGED <<pending, told>>
    /\ UNCHANGED <<effects, context, verification, minted>>

EffectMove == ProfileWritten \/ RefundStarted \/ RefundEnded \/ OutcomeTaken

(* What any other step does to the request at hand: one begins, goes on, or *)
(* ends, and the caller is told of it or is not.                            *)
Begun ==
    /\ at = "rest" /\ at' \in {"risk", "confirm"}
    /\ minted < MaxIntents /\ minted' = minted + 1
    /\ pending' # NoPending /\ pending'.id = minted + 1
    /\ told' = told
GoesOn ==
    /\ pending' = NoPending <=> pending = NoPending
    /\ pending'.id = pending.id /\ pending'.family = pending.family
    /\ UNCHANGED <<told, minted>>
    /\ \/ UNCHANGED <<at, origin>>
       \/ /\ at \notin Idle \cup {"recover", "takeover", "aside", "effect"}
          /\ at' = "recover" /\ origin' = at
       \/ at = "effect" /\ at' = "takeover"
       \/ /\ at \in {"risk", "dispatch", "collect", "route", "confirm", "asked", "aside"}
          /\ at' \in {"dispatch", "collect", "route", "confirm", "asked", "aside", "place", "apply"}
Ended ==
    /\ pending' = NoPending
    /\ UNCHANGED minted
    /\ \/ at' = "terminal" /\ UNCHANGED told
       \/ /\ at' \in {"rest", "rotate"} /\ UNCHANGED told
          /\ \/ at \in {"asked", "aside", "apply", "rotate"}
             \/ at = "recover" /\ origin \notin {"effect", "finish"}
       \/ /\ at' = "rest"
          /\ told' = [told EXCEPT ![pending.id] = "done"]
          /\ at = "finish" \/ (at = "recover" /\ Committed(pending.id))
          /\ pending.family = "contact" => \A i \in Intents : proofs'[i] = NoProof
       \/ /\ at' \in {"rest", "terminal"}
          /\ told' = [told EXCEPT ![pending.id] = "failed"]
          /\ \/ at \in {"confirm", "asked", "place"}
             \/ at = "recover" /\ (~Committed(pending.id) \/ origin \notin {"effect", "finish"})

RequestMove == UNCHANGED <<thread, effects>> /\ (Begun \/ GoesOn \/ Ended)

LEMMA StepIsBindingStep ==
    ASSUME [Next]_vars
    PROVE  BindingStep
<1>1. ASSUME NEW family \in Families, NEW customer \in Nobody, Begin(family, customer)
      PROVE  UNCHANGED context
  BY <1>1 DEF Begin
<1>2. ASSUME NEW blocked \in BOOLEAN, RiskCheck(blocked) PROVE UNCHANGED context
  BY <1>2 DEF RiskCheck
<1>3. ASSUME NEW code \in Codes, Collect(code) PROVE UNCHANGED context
  BY <1>3 DEF Collect
<1>4. ASSUME NEW reply \in Replies, Answer(reply) PROVE UNCHANGED context
  BY <1>4 DEF Answer
<1>5. CASE Dispatch \/ RouteAfterCollect \/ Confirm \/ Reread
  BY <1>5 DEF Dispatch, RouteAfterCollect, Confirm, Reread, BindingStep
<1>6. CASE PlaceProfile \/ PlaceRefund \/ IssueRefund \/ RefundReturns \/ Finish
  BY <1>6 DEF PlaceProfile, PlaceRefund, IssueRefund, RefundReturns, Finish, BindingStep
<1>7. CASE Apply
  BY <1>7 DEF Apply, TransitionPrincipal, Mark, BindingStep
<1>8. CASE Rotate
  BY <1>8 DEF Rotate, Invalidate, Terminal, BindingStep, Coherent
<1>9. CASE FailNode \/ AbandonRefund \/ TakeOver \/ TakeOverTimesOut \/ Tick
  BY <1>9 DEF FailNode, AbandonRefund, TakeOver, TakeOverTimesOut, Tick, BindingStep
<1>10. CASE Recover
  BY <1>10 DEF Recover, AbortRequest, ReconcileEffect, ReconcilePrincipalTransition, Invalidate,
               Terminal, BindingStep
<1>11. CASE RecoveryFails
  BY <1>11 DEF RecoveryFails, Terminal, BindingStep
<1>12. CASE UNCHANGED vars
  BY <1>12 DEF vars, context, BindingStep
<1> QED
  BY <1>1, <1>2, <1>3, <1>4, <1>5, <1>6, <1>7, <1>8, <1>9, <1>10, <1>11, <1>12
  DEF Next, BindingStep

LEMMA StepIsMove ==
    ASSUME TypeOK, RequestKnown, [Next]_vars
    PROVE  EffectMove \/ RequestMove
<1>1. ASSUME NEW family \in Families, NEW customer \in Nobody, Begin(family, customer)
      PROVE  RequestMove
  <2>1. minted \in Nat BY VerificationAssumption DEF TypeOK
  <2>2. pending' # NoPending BY <1>1, <2>1 DEF Begin, NoPending
  <2> QED BY <1>1, <2>2 DEF Begin, RequestMove, Begun
<1>2. ASSUME NEW blocked \in BOOLEAN, RiskCheck(blocked) PROVE RequestMove
  BY <1>2 DEF RiskCheck, Terminal, RequestMove, GoesOn, Ended
<1>3. CASE Dispatch
  BY <1>3 DEF Dispatch, Mark, RequestMove, GoesOn, Idle
<1>4. ASSUME NEW code \in Codes, Collect(code) PROVE RequestMove
  BY <1>4 DEF Collect, Terminal, Mark, RequestMove, GoesOn, Ended, Idle
<1>5. CASE RouteAfterCollect
  BY <1>5 DEF RouteAfterCollect, RequestMove, GoesOn
<1>6. CASE Confirm
  BY <1>6 DEF Confirm, Tell, RequestMove, GoesOn, Ended
<1>7. ASSUME NEW reply \in Replies, Answer(reply) PROVE RequestMove
  BY <1>7 DEF Answer, Tell, Terminal, Drop, RequestMove, GoesOn, Ended
<1>8. CASE Reread
  BY <1>8 DEF Reread, Terminal, Drop, RequestMove, GoesOn, Ended
<1>9. CASE PlaceProfile
  <2>1. CASE ProfileWritten BY <2>1 DEF EffectMove
  <2>2. CASE ~ProfileWritten
    BY <1>9, <2>2 DEF PlaceProfile, Terminal, TellAndHandOver, ProfileWritten, RequestMove, Ended
  <2> QED BY <2>1, <2>2
<1>10. CASE PlaceRefund
  <2>1. Proven \in SUBSET Intents /\ {} \in SUBSET Intents BY DEF Proven, Authorizing
  <2>2. CASE RequiredLevel(pending.family) > 1 /\ Proven = {}
    BY <1>10, <2>2 DEF PlaceRefund, Terminal, RequestMove, Ended
  <2>3. CASE ~(RequiredLevel(pending.family) > 1 /\ Proven = {})
    <3>1. RefundStarted
      BY <1>10, <2>1, <2>3 DEF PlaceRefund, RequiredLevel, Refund, RefundStarted
    <3> QED BY <3>1 DEF EffectMove
  <2> QED BY <2>2, <2>3
<1>11. CASE IssueRefund
  <2>1. RefundEnded BY <1>11 DEF IssueRefund, RefundEnded
  <2> QED BY <2>1 DEF EffectMove
<1>12. CASE RefundReturns
  <2>1. OutcomeTaken BY <1>12 DEF RefundReturns, TellAndHandOver, Mark, OutcomeTaken
  <2> QED BY <2>1 DEF EffectMove
<1>13. CASE TakeOver
  <2>1. /\ at = "takeover" /\ thread.state # "running" /\ thread' = NoThread
        /\ at' = "recover" /\ origin' = "effect"
        /\ UNCHANGED <<pending, told, effects, context, verification, minted>>
    BY <1>13 DEF TakeOver
  <2> QED BY <2>1 DEF EffectMove, OutcomeTaken
<1>14. CASE Finish
  <2>1. CASE FinishEffect
    BY <1>14, <2>1 DEF Finish, FinishEffect, Tell, RetainOnly, RequestMove, Ended
  <2>2. CASE Mark
    BY <1>14, <2>2 DEF Finish, Mark, RequestMove, GoesOn, Idle
  <2> QED BY <1>14, <2>1, <2>2 DEF Finish
<1>15. CASE Apply
  BY <1>15 DEF Apply, TransitionPrincipal, Drop, Terminal, Mark, RequestMove, GoesOn, Ended, Idle
<1>16. CASE Rotate
  <2>1. pending = NoPending BY <1>16 DEF Rotate, RequestKnown, Idle
  <2> QED BY <1>16, <2>1 DEF Rotate, Terminal, RequestMove, Ended
<1>17. CASE FailNode
  BY <1>17 DEF FailNode, Mark, RequestMove, GoesOn, Idle
<1>18. CASE AbandonRefund \/ TakeOverTimesOut
  BY <1>18 DEF AbandonRefund, TakeOverTimesOut, Terminal, RequestMove, GoesOn, Ended
<1>19. CASE Recover
  <2>1. at = "recover" /\ UNCHANGED <<thread, effects, minted>> BY <1>19 DEF Recover
  <2>2. CASE AbortRequest
    BY <2>1, <2>2 DEF AbortRequest, Drop, Tell, RequestMove, Ended
  <2>3. CASE ReconcileEffect
    BY <2>1, <2>3 DEF ReconcileEffect, FinishEffect, Tell, RetainOnly, RequestMove, Ended
  <2>4. CASE ReconcilePrincipalTransition
    BY <2>1, <2>4 DEF ReconcilePrincipalTransition, Drop, Terminal, RequestMove, Ended
  <2> QED BY <1>19, <2>2, <2>3, <2>4 DEF Recover
<1>20. CASE RecoveryFails
  BY <1>20 DEF RecoveryFails, Terminal, RequestMove, Ended
<1>21. CASE Tick
  <2>1. CASE pending = NoPending
    <3>1. pending' = NoPending BY <1>21, <2>1 DEF Tick, NoPending, Less
    <3> QED BY <1>21, <2>1, <3>1 DEF Tick, RequestMove, GoesOn
  <2>2. CASE pending # NoPending
    <3>1. pending \in RequestRecord BY <2>2, TypeParts DEF RequestType
    <3>2. pending'.id = pending.id /\ pending'.family = pending.family
      BY <1>21, <3>1 DEF Tick, RequestRecord
    <3>3. pending' # NoPending
      <4>1. pending.id # 0 BY <3>1 DEF RequestRecord, Intents
      <4> QED BY <3>2, <4>1, EmptyNames
    <3> QED BY <1>21, <2>2, <3>2, <3>3 DEF Tick, RequestMove, GoesOn
  <2> QED BY <2>1, <2>2
<1>22. CASE UNCHANGED vars
  BY <1>22 DEF vars, RequestMove, GoesOn
<1> QED
  BY <1>1, <1>2, <1>3, <1>4, <1>5, <1>6, <1>7, <1>8, <1>9, <1>10, <1>11, <1>12, <1>13, <1>14,
     <1>15, <1>16, <1>17, <1>18, <1>19, <1>20, <1>21, <1>22 DEF Next

LEMMA StepKeepsType ==
    ASSUME TypeOK, RequestKnown, CodesKnown, [Next]_vars
    PROVE  TypeOK'
<1>1. VerificationTypeOK' BY StepIsCodeStep, CodeStepKeepsCodes
<1>2. RequestType' BY StepKeepsRequestType
<1>3. RequestType /\ BindingType /\ EffectType BY TypeParts
<1>4. at \notin Idle => /\ pending.id \in Intents /\ pending.customer \in Nobody
                        /\ pending.family \in AllFamilies
  BY <1>3 DEF RequestType, RequestRecord, RequestKnown
<1>5. BindingType'
  <2>1. at = "apply" => pending.id \in Intents /\ pending.customer \in Customers
    BY <1>4 DEF RequestKnown, Idle, Node, Nobody
  <2> QED BY <1>3, <2>1, StepIsBindingStep DEF BindingStep, BindingType, Nobody, context
<1>6. EffectType'
  <2>1. CASE UNCHANGED <<thread, effects>> BY <1>3, <2>1 DEF EffectType
  <2>2. ASSUME at = "place", pending.family \in Profile
        PROVE Effect(pending.id, pending.family, pending.customer, Proven) \in Rows
    <3>1. Proven \in SUBSET Intents BY DEF Proven, Authorizing
    <3> QED BY <1>3, <1>4, <2>2, <3>1 DEF Effect, Rows, BindingType, Idle, Profile
  <2>3. ASSUME at = "place", pending.family \in Refund, NEW by \in SUBSET Intents
        PROVE [state |-> "running", id |-> pending.id, family |-> pending.family,
               customer |-> pending.customer, by |-> by] \in ThreadRecord
    BY <1>4, <2>3 DEF ThreadRecord, Idle
  <2>4. ASSUME thread.state = "running"
        PROVE  /\ Effect(thread.id, thread.family, thread.customer, thread.by) \in Rows
               /\ \A how \in {"done", "refused", "raised"} :
                     [thread EXCEPT !.state = how] \in ThreadRecord
    <3>1. thread \in ThreadRecord BY <1>3, <2>4, EmptyNames DEF EffectType
    <3>2. Refund \subseteq AllFamilies \ {"identity"} BY DEF Refund, AllFamilies
    <3> QED BY <1>3, <3>1, <3>2 DEF ThreadRecord, Effect, Rows, BindingType
  <2> QED BY <1>3, <2>1, <2>2, <2>3, <2>4, StepIsMove
        DEF EffectMove, RequestMove, ProfileWritten, RefundStarted, RefundEnded, OutcomeTaken,
            EffectType
<1> QED
  BY <1>1, <1>2, <1>5, <1>6
  DEF TypeOK, RequestType, BindingType, EffectType, RequestRecord, ThreadRecord, Rows

LEMMA StepKeepsRequestKnown ==
    ASSUME TypeOK, RequestKnown, [Next]_vars
    PROVE  RequestKnown'
<1>1. pending \in RequestRecord => pending # NoPending
  <2>1. 0 \notin Intents BY DEF Intents
  <2> QED BY <2>1 DEF RequestRecord, NoPending
<1>2. RequestType BY TypeParts
<1> DEFINE Settled == /\ pending' = NoPending /\ at' \in Idle
                      /\ at' # "rotate" => transition' = NoTransition
           Onward(n) == /\ pending' = pending /\ at' = n /\ n \notin Idle \cup {"recover"}
                        /\ bound' = bound /\ transition' = transition /\ minted' = minted
                        /\ transition = NoTransition
<1>3. Settled => RequestKnown'
  BY EmptyNames DEF RequestKnown, Node, Idle, Protected, Profile, Refund
<1>4. transition = NoTransition \/ at \in {"recover", "rotate"}
  BY DEF RequestKnown, Node
<1>5. ASSUME at \notin Idle \cup {"recover", "takeover", "aside"},
             Mark, UNCHANGED minted,
             UNCHANGED context \/ at = "apply"
      PROVE  RequestKnown'
  <2>1. pending' = pending /\ at' = "recover" /\ origin' = at /\ at \in Nodes
    BY <1>2, <1>5 DEF Mark, RequestType
  <2>2. pending # NoPending /\ transition = NoTransition BY <1>4, <1>5 DEF RequestKnown, Idle
  <2>3. CASE UNCHANGED context
    BY <2>1, <2>2, <2>3, <1>5 DEF RequestKnown, Node, Idle, context, Nodes
  <2>4. CASE at = "apply"
    BY <2>1, <2>2, <2>4, <1>5 DEF RequestKnown, Node, Idle, context, Nodes, Protected, Profile
  <2> QED BY <1>5, <2>3, <2>4
<1>6. ASSUME NEW n \in Nodes, Onward(n), at \notin Idle,
             n \in {"risk", "dispatch", "collect", "route"} => pending.family # "original",
             n \in {"confirm", "asked", "aside", "place", "finish"} => pending.family # "identity",
             n \in {"effect", "takeover"} => pending.family \in Refund,
             n = "apply" => pending.family = "identity"
      PROVE  RequestKnown'
  BY <1>6 DEF RequestKnown, Node, Idle
<1>7. ASSUME Drop \/ Terminal \/ (\E what \in {"done", "failed"} : Tell(what) \/ TellAndHandOver(what)),
             transition' = NoTransition
      PROVE  RequestKnown'
  BY <1>3, <1>7 DEF Drop, Terminal, Tell, TellAndHandOver, Idle
<1>8. ASSUME NEW family \in Families, NEW customer \in Nobody, Begin(family, customer)
      PROVE  RequestKnown'
  <2>1. minted \in Nat BY <1>2, VerificationAssumption DEF RequestType
  <2>2. pending' # NoPending BY <1>8, <2>1 DEF Begin, NoPending
  <2>3. /\ pending'.id = minted' /\ pending'.family = family /\ pending'.customer = customer
        /\ at' = (IF RequiredLevel(family) = 1 THEN "confirm" ELSE "risk")
        /\ bound' = bound /\ transition' = NoTransition
    BY <1>4, <1>8 DEF Begin, context
  <2> QED BY <1>8, <2>2, <2>3 DEF Begin, RequestKnown, Node, Idle, RequiredLevel, Protected
<1>9. ASSUME NEW blocked \in BOOLEAN, RiskCheck(blocked) PROVE RequestKnown'
  BY <1>4, <1>6, <1>7, <1>9 DEF RiskCheck, context, Idle, Nodes, RequestKnown, Node
<1>10. CASE Dispatch
  BY <1>4, <1>5, <1>6, <1>10 DEF Dispatch, context, Idle, Nodes, RequestKnown, Node
<1>11. ASSUME NEW code \in Codes, Collect(code) PROVE RequestKnown'
  BY <1>4, <1>5, <1>6, <1>7, <1>11 DEF Collect, context, Idle, Nodes, RequestKnown, Node
<1>12. CASE RouteAfterCollect
  BY <1>4, <1>6, <1>12 DEF RouteAfterCollect, context, Idle, Nodes, RequestKnown, Node
<1>13. CASE Confirm
  BY <1>4, <1>6, <1>7, <1>13 DEF Confirm, context, Idle, Nodes, RequestKnown, Node
<1>14. ASSUME NEW reply \in Replies, Answer(reply) PROVE RequestKnown'
  BY <1>4, <1>6, <1>7, <1>14 DEF Answer, context, Idle, Nodes, RequestKnown, Node
<1>15. CASE Reread
  BY <1>4, <1>6, <1>7, <1>15 DEF Reread, context, Idle, Nodes, RequestKnown, Node
<1>16. CASE PlaceProfile
  BY <1>4, <1>6, <1>7, <1>16 DEF PlaceProfile, context, Idle, Nodes, RequestKnown, Node
<1>17. CASE PlaceRefund
  BY <1>4, <1>6, <1>7, <1>17 DEF PlaceRefund, context, Idle, Nodes
<1>18. CASE IssueRefund
  BY <1>18 DEF IssueRefund, context, RequestKnown, Node
<1>19. CASE RefundReturns
  BY <1>4, <1>5, <1>6, <1>7, <1>19
     DEF RefundReturns, context, Idle, Nodes, Refund, RequestKnown, Node
<1>20. CASE Finish
  BY <1>4, <1>5, <1>7, <1>20 DEF Finish, FinishEffect, context, Idle
<1>21. CASE Apply
  <2>1. CASE TransitionPrincipal
    BY <1>3, <1>5, <1>21, <2>1 DEF Apply, TransitionPrincipal, Idle
  <2>2. CASE (Drop \/ Terminal) /\ UNCHANGED context
    BY <1>4, <1>7, <1>21, <2>2 DEF Apply, context
  <2> QED BY <1>21, <2>1, <2>2 DEF Apply
<1>22. CASE Rotate
  <2>1. at = "rotate" /\ pending = NoPending BY <1>22 DEF Rotate, RequestKnown, Idle
  <2> QED BY <1>3, <1>7, <1>22, <2>1 DEF Rotate, Invalidate, Idle
<1>23. CASE FailNode
  BY <1>5, <1>23 DEF FailNode, Idle
<1>24. CASE AbandonRefund \/ TakeOverTimesOut
  BY <1>4, <1>6, <1>7, <1>24
     DEF AbandonRefund, TakeOverTimesOut, context, Idle, Nodes, RequestKnown, Node
<1>25. CASE TakeOver
  BY <1>4, <1>25 DEF TakeOver, context, RequestKnown, Node, Idle
<1>26. CASE Recover
  <2>1. at = "recover" /\ (origin # "apply" => transition = NoTransition)
    BY <1>26 DEF Recover, RequestKnown, Node, Idle
  <2>2. CASE AbortRequest
    BY <1>7, <2>1, <2>2 DEF AbortRequest, context
  <2>3. CASE ReconcileEffect
    BY <1>7, <2>1, <2>3 DEF ReconcileEffect, FinishEffect, context
  <2>4. CASE ReconcilePrincipalTransition
    BY <1>3, <1>7, <2>1, <2>4 DEF ReconcilePrincipalTransition, Invalidate, context, Idle
  <2> QED BY <1>26, <2>2, <2>3, <2>4 DEF Recover
<1>27. CASE RecoveryFails
  BY <1>7, <1>27 DEF RecoveryFails, context
<1>28. CASE Tick
  <2>1. CASE pending = NoPending
    <3>1. pending' = NoPending BY <1>28, <2>1 DEF Tick, NoPending, Less
    <3> QED BY <1>28, <2>1, <3>1 DEF Tick, context, RequestKnown, Node
  <2>2. CASE pending # NoPending
    <3>1. pending \in RequestRecord BY <1>2, <2>2 DEF RequestType
    <3>2. /\ pending'.id = pending.id /\ pending'.family = pending.family
          /\ pending'.customer = pending.customer
      BY <1>28, <3>1 DEF Tick, RequestRecord
    <3>3. pending' # NoPending
      <4>1. pending.id # 0 BY <3>1 DEF RequestRecord, Intents
      <4> QED BY <3>2, <4>1, EmptyNames
    <3> QED BY <1>28, <2>2, <3>2, <3>3 DEF Tick, context, RequestKnown, Node
  <2> QED BY <2>1, <2>2
<1>29. CASE UNCHANGED vars
  BY <1>29 DEF vars, RequestKnown, Node
<1> QED
  BY <1>8, <1>9, <1>10, <1>11, <1>12, <1>13, <1>14, <1>15, <1>16, <1>17, <1>18, <1>19, <1>20,
     <1>21, <1>22, <1>23, <1>24, <1>25, <1>26, <1>27, <1>28, <1>29 DEF Next

LEMMA StepKeepsCodesKnown ==
    ASSUME TypeOK, RequestKnown, CodesKnown, [Next]_vars
    PROVE  CodesKnown' /\ CodesStand
<1>1. (\A i \in Intents : CodeKnown(i)') /\ CodesStand
  BY StepIsCodeStep, CodeStepKeepsCodes
<1>2. minted \in 0 .. MaxIntents /\ MaxIntents \in Nat BY VerificationAssumption DEF TypeOK
<1>3. minted' = minted \/ \E family \in Families, customer \in Nobody : Begin(family, customer)
  BY DEF Next, vars, RiskCheck, Dispatch, Collect, RouteAfterCollect, Confirm, Answer, Reread,
         PlaceProfile, PlaceRefund, IssueRefund, RefundReturns, Finish, Apply, Rotate, FailNode,
         AbandonRefund, TakeOver, TakeOverTimesOut, Recover, RecoveryFails, Tick
<1>4. ASSUME NEW family \in Families, NEW customer \in Nobody, Begin(family, customer)
      PROVE  CodesKnown'
  <2>1. minted' = minted + 1 /\ minted' \in Intents /\ UNCHANGED verification
    BY <1>2, <1>4 DEF Begin, Intents
  <2>2. ASSUME NEW i \in Intents, i > minted PROVE Unused(i)'
    BY <2>1, <2>2 DEF CodesKnown, Unused, verification
  <2>3. \A i \in Intents : i > minted' => Unused(i)'
    BY <1>2, <2>1, <2>2 DEF Intents
  <2>4. PICK m \in Intents : m = minted' BY <2>1
  <2>5. Unused(m)' BY <1>2, <2>1, <2>2, <2>4
  <2>6. Unused(minted)' BY <2>4, <2>5 DEF Unused
  <2> QED BY <1>1, <2>3, <2>6 DEF CodesKnown
<1>5. ASSUME minted' = minted PROVE CodesKnown'
  <2>1. ASSUME NEW i \in Intents, i > minted' PROVE Unused(i)'
    BY <1>1, <1>2, <1>5, <2>1 DEF CodesStand, CodesKnown, Intents
  <2>2. ASSUME at' \in {"risk", "dispatch"}
        PROVE  /\ at \in {"risk", "dispatch"}
               /\ UNCHANGED verification \/ VerificationTick
    <3>1. ~ \E family \in Families, customer \in Nobody : Begin(family, customer)
      BY <1>2, <1>5 DEF Begin
    <3> QED
      BY <2>2, <3>1
      DEF Next, vars, RiskCheck, Dispatch, Collect, RouteAfterCollect, Confirm, Answer, Reread,
          PlaceProfile, PlaceRefund, IssueRefund, RefundReturns, Finish, FinishEffect, Apply,
          TransitionPrincipal, Rotate, Invalidate, FailNode, AbandonRefund, TakeOver,
          TakeOverTimesOut, Recover, AbortRequest, ReconcileEffect, ReconcilePrincipalTransition,
          RecoveryFails, Tick, Drop, Tell, Terminal, TellAndHandOver, Mark
  <2>3. ASSUME at' \in {"risk", "dispatch"} PROVE Unused(minted)'
    <3>1. pending # NoPending /\ minted \in Intents /\ Unused(minted)
      BY <2>2, <2>3 DEF RequestKnown, Idle, CodesKnown, TypeOK
    <3>2. CASE UNCHANGED verification
      BY <1>5, <3>1, <3>2 DEF verification, Unused
    <3>3. CASE VerificationTick
      <4>1. challenges'[minted] = [NoChallenge EXCEPT !.left = Less(0)]
            /\ proofs'[minted] = [proofs[minted] EXCEPT !.left = Less(0)]
            /\ UNCHANGED <<subjects, earned, misses>>
        BY <3>1, <3>3, EmptyNames DEF VerificationTick, Unused
      <4>2. [NoChallenge EXCEPT !.left = Less(0)] = NoChallenge
        BY DEF NoChallenge, Less
      <4>3. proofs'[minted].left = 0
        <5>1. proofs[minted] \in Proofs \cup {NoProof}
          BY <3>1 DEF TypeOK, VerificationTypeOK
        <5> QED BY <4>1, <5>1 DEF Less, Proofs, NoProof
      <4> QED BY <1>5, <3>1, <4>1, <4>2, <4>3 DEF Unused
    <3> QED BY <2>2, <2>3, <3>2, <3>3
  <2> QED BY <1>1, <2>1, <2>3 DEF CodesKnown
<1> QED BY <1>1, <1>3, <1>4, <1>5

-----------------------------------------------------------------------------
(* The ledgers, the thread and what the caller is told.                     *)

LEMMA AllowedStands ==
    ASSUME TypeOK, CodesStand, NEW customer, NEW by \in SUBSET Intents, Allowed(customer, by)
    PROVE  Allowed(customer, by)'
BY DEF Allowed, CodesStand

(* Whoever a fresh proof names earned it.                                   *)
LEMMA ProvenIsEarned ==
    ASSUME TypeOK, CodesKnown, Proven # {}
    PROVE  Allowed(pending.customer, Proven)
<1>1. ASSUME NEW i \in Proven
      PROVE  earned[i] = pending.customer /\ pending.customer \in Customers
  <2>1. i \in Intents /\ proofs[i].left > 0 /\ proofs[i].subject.customer = pending.customer
    BY DEF Proven, Authorizing
  <2>2. proofs[i] \in Proofs
    BY <2>1, EmptyNames DEF TypeOK, VerificationTypeOK
  <2> QED BY <2>1, <2>2 DEF CodesKnown, CodeKnown, Proofs, Subjects
<1> QED BY <1>1, CustomersAssumption DEF Allowed

(* While a thread runs, or its outcome waits, nothing of the binding moves. *)
LEMMA ThreadKeepsBinding ==
    ASSUME [Next]_vars, at \in {"effect", "takeover", "terminal"}
    PROVE  UNCHANGED context
BY StepIsBindingStep DEF BindingStep

LEMMA StepKeepsToldKnown ==
    ASSUME TypeOK, RequestKnown, ThreadKnown, ToldKnown, LedgerKnown, [Next]_vars
    PROVE  ToldKnown'
<1>1. /\ minted \in 0 .. MaxIntents /\ MaxIntents \in Nat
      /\ told \in [Intents -> {"nothing", "done", "failed"}]
      /\ \A e \in effects : e.id \in Intents /\ e.id <= minted
  BY VerificationAssumption DEF TypeOK, LedgerKnown
<1>2. pending # NoPending => pending.id \in Intents /\ pending.id = minted
  BY DEF TypeOK, RequestKnown
<1>3. CASE ProfileWritten
  <2>1. at = "place" /\ pending # NoPending /\ at' = "finish"
    BY <1>3 DEF ProfileWritten, RequestKnown, Idle
  <2>2. \A i \in Intents : Committed(i)' <=> Committed(i) \/ i = pending.id
    <3>1. PICK row : row.id = pending.id /\ effects' = effects \cup {row}
      BY <1>3 DEF ProfileWritten, Effect
    <3> QED BY <3>1 DEF Committed
  <2>3. TruthTold' BY <1>3, <2>1, <2>2 DEF ToldKnown, TruthTold, ProfileWritten
  <2>4. Committed(pending.id)'
    <3>1. PICK row : row.id = pending.id /\ effects' = effects \cup {row} /\ pending' = pending
      BY <1>3 DEF ProfileWritten, Effect
    <3> QED BY <3>1 DEF Committed
  <2> QED BY <1>3, <2>1, <2>3, <2>4 DEF ToldKnown, Node, ProfileWritten
<1>4. CASE RefundStarted
  BY <1>4 DEF RefundStarted, ToldKnown, TruthTold, Committed, Node
<1>5. CASE RefundEnded
  <2>1. /\ thread # NoThread /\ told[thread.id] = "nothing" /\ ~Committed(thread.id)
        /\ at \in {"effect", "takeover", "terminal"}
        /\ at # "terminal" => thread.id = pending.id
    BY <1>5, EmptyNames DEF RefundEnded, ThreadKnown
  <2>2. \A i \in Intents : Committed(i)' => Committed(i) \/ i = thread.id
    <3>1. PICK row : row.id = thread.id /\ effects' \in {effects, effects \cup {row}}
      BY <1>5 DEF RefundEnded, Effect
    <3> QED BY <3>1 DEF Committed
  <2>3. \A i \in Intents : Committed(i) => Committed(i)'
    BY <1>5 DEF RefundEnded, Committed
  <2>4. TruthTold' BY <1>5, <2>1, <2>2, <2>3 DEF ToldKnown, TruthTold, RefundEnded
  <2>5. at = "terminal" => pending = NoPending BY DEF RequestKnown, Idle
  <2> QED BY <1>5, <2>1, <2>4, <2>5 DEF ToldKnown, Node, RefundEnded, Idle
<1>6. CASE OutcomeTaken
  <2>1. /\ pending # NoPending /\ thread # NoThread /\ thread.id = pending.id
        /\ at \in {"effect", "takeover"}
    BY <1>6 DEF OutcomeTaken, ThreadKnown, RequestKnown, Idle
  <2>2. effects' = effects /\ minted' = minted BY <1>6 DEF OutcomeTaken
  <2>3. CASE told' = told /\ pending' = pending /\ at' = "finish" /\ thread.state = "done"
    BY <2>1, <2>2, <2>3 DEF ToldKnown, TruthTold, Committed, Node, ThreadKnown
  <2>4. CASE told' = told /\ pending' = pending /\ at' = "recover" /\ origin' = "effect"
    BY <2>1, <2>2, <2>4 DEF ToldKnown, TruthTold, Committed, Node
  <2>5. CASE /\ thread.state = "refused" /\ pending' = NoPending /\ at' = "terminal"
             /\ told' = [told EXCEPT ![pending.id] = "failed"]
    <3>1. ~Committed(pending.id) BY <2>1, <2>5 DEF ThreadKnown
    <3> QED BY <1>1, <1>2, <2>1, <2>2, <2>5, <3>1 DEF ToldKnown, TruthTold, Committed, Node
  <2> QED BY <1>6, <2>3, <2>4, <2>5 DEF OutcomeTaken
<1>7. CASE RequestMove /\ Begun
  <2>1. minted + 1 \in Intents /\ minted' = minted + 1 BY <1>1, <1>7 DEF Begun, Intents
  <2>2. ~Committed(minted + 1) BY <1>1 DEF Committed
  <2>3. effects' = effects /\ told' = told BY <1>7 DEF Begun, RequestMove
  <2>4. TruthTold' BY <2>3 DEF ToldKnown, TruthTold, Committed
  <2>5. \A i \in Intents : i > minted' => told'[i] = "nothing"
    BY <1>1, <2>1, <2>3 DEF ToldKnown, Intents
  <2>6. told'[pending'.id] = "nothing"
    BY <1>1, <1>7, <2>1, <2>3 DEF ToldKnown, Begun, Intents
  <2>7. ~Committed(pending.id)' BY <1>7, <2>2, <2>3 DEF Begun, Committed
  <2>8. Node' # "finish" BY <1>7 DEF Begun, Node
  <2> QED BY <2>4, <2>5, <2>6, <2>7, <2>8 DEF ToldKnown
<1>8. CASE RequestMove /\ GoesOn
  <2>1. effects' = effects /\ told' = told /\ minted' = minted /\ pending'.id = pending.id
        /\ (pending' = NoPending <=> pending = NoPending)
    BY <1>8 DEF GoesOn, RequestMove
  <2>2. /\ TruthTold' /\ (\A i \in Intents : i > minted' => told'[i] = "nothing")
        /\ pending' # NoPending => told'[pending'.id] = "nothing"
        /\ Committed(pending.id)' <=> Committed(pending.id)
    BY <2>1 DEF ToldKnown, TruthTold, Committed
  <2>3. pending' # NoPending /\ Committed(pending.id)' =>
          at' = "takeover" \/ Node' \in {"effect", "finish"}
    BY <1>8, <2>1, <2>2 DEF GoesOn, ToldKnown, Node, Idle
  <2>4. Node' = "finish" => Node = "finish"
    BY <1>8 DEF GoesOn, Node, Idle
  <2> QED BY <2>2, <2>3, <2>4 DEF ToldKnown
<1>9. CASE RequestMove /\ Ended
  <2>1. effects' = effects /\ minted' = minted /\ pending' = NoPending /\ at' \in Idle
    BY <1>9 DEF Ended, RequestMove, Idle
  <2>2. Node' # "finish" BY <2>1 DEF Node, Idle
  <2>3. CASE told' = told
    BY <2>1, <2>2, <2>3 DEF ToldKnown, TruthTold, Committed
  <2>4. CASE /\ told' = [told EXCEPT ![pending.id] = "done"] 
             /\ at = "finish" \/ (at = "recover" /\ Committed(pending.id))
    <3>1. pending # NoPending /\ Committed(pending.id)
      BY <2>4 DEF ToldKnown, Node, RequestKnown, Idle
    <3> QED BY <1>1, <1>2, <2>1, <2>2, <2>4, <3>1 DEF ToldKnown, TruthTold, Committed
  <2>5. CASE /\ told' = [told EXCEPT ![pending.id] = "failed"]
             /\ \/ at \in {"confirm", "asked", "place"}
                \/ at = "recover" /\ (~Committed(pending.id) \/ origin \notin {"effect", "finish"})
    <3>1. pending # NoPending BY <2>5 DEF RequestKnown, Idle
    <3>2. ~Committed(pending.id) BY <2>5, <3>1 DEF ToldKnown, Node
    <3> QED BY <1>1, <1>2, <2>1, <2>2, <2>5, <3>1, <3>2 DEF ToldKnown, TruthTold, Committed
  <2> QED BY <1>9, <2>3, <2>4, <2>5 DEF Ended
<1> QED BY <1>3, <1>4, <1>5, <1>6, <1>7, <1>8, <1>9, StepIsMove DEF EffectMove, RequestMove

LEMMA StepKeepsThreadKnown ==
    ASSUME TypeOK, RequestKnown, CodesKnown, ThreadKnown, ToldKnown, LedgerKnown, [Next]_vars
    PROVE  ThreadKnown'
<1>1. /\ minted \in 0 .. MaxIntents /\ MaxIntents \in Nat
      /\ told \in [Intents -> {"nothing", "done", "failed"}]
      /\ thread \in ThreadRecord \cup {NoThread}
  BY VerificationAssumption, TypeParts DEF RequestType, EffectType
<1>2. pending # NoPending => pending.id \in Intents /\ pending.id = minted
  BY DEF TypeOK, RequestKnown
<1>3. CodesStand BY StepKeepsCodesKnown
<1>4. CASE ProfileWritten
  <2>1. thread = NoThread /\ thread' = NoThread /\ at' = "finish"
    BY <1>4 DEF ProfileWritten, ThreadKnown
  <2> QED BY <2>1, EmptyNames DEF ThreadKnown
<1>5. CASE RefundStarted
  <2>1. PICK by \in SUBSET Intents :
           /\ thread' = [state |-> "running", id |-> pending.id, family |-> pending.family,
                         customer |-> pending.customer, by |-> by]
           /\ by \in {{}, Proven}
           /\ pending.family = "refund" => by = Proven /\ by # {}
    BY <1>5 DEF RefundStarted
  <2>2. /\ pending # NoPending /\ pending' = pending /\ told' = told /\ effects' = effects
        /\ bound' = bound /\ earned' = earned /\ minted' = minted /\ at' = "effect" /\ at = "place"
    BY <1>5 DEF RefundStarted, RequestKnown, Idle, context, verification
  <2>3. /\ thread'.state = "running" /\ thread'.id = pending.id
        /\ thread'.family = pending.family /\ thread'.customer = pending.customer
        /\ thread'.by = by
    BY <2>1
  <2>4. thread' # NoThread BY <2>3, EmptyNames
  <2>5. told[pending.id] = "nothing" /\ ~Committed(pending.id)
    BY <2>2 DEF ToldKnown, Node
  <2>6. ~Committed(thread.id)' BY <2>2, <2>3, <2>5 DEF Committed
  <2>7. pending.family = "refund" => /\ pending.customer = bound
                                     /\ Allowed(pending.customer, by)
    BY <2>1, <2>2, ProvenIsEarned DEF RequestKnown, Protected
  <2>8. thread'.family = "refund" =>
           thread'.customer = bound' /\ Allowed(thread.customer, thread.by)'
    BY <2>2, <2>3, <2>7 DEF Allowed
  <2>9. \A a \in effects : a.family = "contact" /\ a.id < pending.id => \A i \in by : i > a.id
    <3>1. \A a \in effects : a.family = "contact" /\ a.id < pending.id =>
             \A i \in Intents : i <= a.id => proofs[i].left = 0
      BY <2>2, <1>1, <1>2 DEF LedgerKnown, TypeOK
    <3>2. \A i \in by : i \in Intents /\ proofs[i].left > 0
      BY <2>1 DEF Proven, Authorizing
    <3>3. \A a \in effects : a.id \in Nat BY DEF TypeOK, Intents
    <3> QED BY <3>1, <3>2, <3>3 DEF Intents
  <2> QED BY <1>1, <1>2, <2>2, <2>3, <2>4, <2>5, <2>6, <2>8, <2>9 DEF ThreadKnown
<1>6. CASE RefundEnded
  <2>1. PICK how \in {"done", "refused", "raised"} :
           /\ thread' = [thread EXCEPT !.state = how]
           /\ \/ how # "done" /\ effects' = effects
              \/ /\ how # "refused"
                 /\ effects' = effects
                       \cup {Effect(thread.id, thread.family, thread.customer, thread.by)}
    BY <1>6 DEF RefundEnded
  <2>2. /\ thread.state = "running" /\ pending' = pending /\ told' = told /\ at' = at
        /\ minted' = minted
    BY <1>6 DEF RefundEnded
  <2>3. thread \in ThreadRecord /\ thread # NoThread BY <1>1, <2>2, EmptyNames
  <2>4. thread'.state = how /\ thread'.id = thread.id /\ thread'.family = thread.family
    BY <2>1, <2>3 DEF ThreadRecord
  <2>5. thread' # NoThread BY <2>4, EmptyNames
  <2>6. ~Committed(thread.id) BY <2>2 DEF ThreadKnown
  <2>7. how = "refused" => ~Committed(thread.id)'
    BY <2>1, <2>4, <2>6 DEF Committed
  <2>8. how = "done" => Committed(thread.id)'
    <3>1. how = "done" => \E row : row.id = thread.id /\ effects' = effects \cup {row}
      BY <2>1 DEF Effect
    <3> QED BY <2>4, <3>1 DEF Committed
  <2> QED BY <2>2, <2>3, <2>4, <2>5, <2>7, <2>8 DEF ThreadKnown
<1>7. CASE OutcomeTaken
  <2>1. thread' = NoThread /\ at' \notin {"effect", "takeover"} BY <1>7 DEF OutcomeTaken
  <2> QED BY <2>1, EmptyNames DEF ThreadKnown
<1>8. CASE RequestMove
  <2>1. thread' = thread /\ effects' = effects BY <1>8 DEF RequestMove
  <2>2. CASE thread = NoThread
    <3>1. at \notin {"effect", "takeover"} BY <2>2 DEF ThreadKnown
    <3>2. at' \notin {"effect", "takeover"}
      BY <1>8, <3>1 DEF RequestMove, Begun, GoesOn, Ended
    <3> QED BY <2>1, <2>2, <3>2, EmptyNames DEF ThreadKnown
  <2>3. CASE thread # NoThread
    <3>1. at \in {"effect", "takeover", "terminal"} BY <2>3 DEF ThreadKnown
    <3>2. UNCHANGED context BY <3>1, ThreadKeepsBinding
    <3>3. /\ told' = told /\ minted' = minted /\ at' \in {"effect", "takeover", "terminal"}
          /\ at' \in {"effect", "takeover"} => /\ at \in {"effect", "takeover"}
                                              /\ pending'.id = pending.id
                                              /\ pending'.family = pending.family
      BY <1>8, <3>1 DEF RequestMove, Begun, GoesOn, Ended, Idle
    <3>4. thread.state = "running" /\ thread.family = "refund" =>
             Allowed(thread.customer, thread.by)'
      <4>1. thread.by \in SUBSET Intents BY <1>1, <2>3 DEF ThreadRecord
      <4> QED BY <1>3, <2>1, <4>1 DEF ThreadKnown, Allowed, CodesStand
    <3> QED BY <2>1, <2>3, <3>2, <3>3, <3>4 DEF ThreadKnown, Committed, context
  <2> QED BY <2>2, <2>3
<1> QED BY <1>4, <1>5, <1>6, <1>7, <1>8, StepIsMove DEF EffectMove

LEMMA StepKeepsLedgerKnown ==
    ASSUME TypeOK, RequestKnown, CodesKnown, ThreadKnown, ToldKnown, LedgerKnown, [Next]_vars
    PROVE  LedgerKnown'
<1>1. /\ minted \in 0 .. MaxIntents /\ MaxIntents \in Nat
      /\ thread \in ThreadRecord \cup {NoThread}
      /\ effects \subseteq Rows
      /\ \A e \in effects : e.id \in Nat
  BY VerificationAssumption, TypeParts DEF RequestType, EffectType, Rows, Intents
<1>2. pending # NoPending => pending.id \in Intents /\ pending.id = minted
  BY DEF TypeOK, RequestKnown
<1>3. CodesStand BY StepKeepsCodesKnown
<1>4. BoundKnown'
  <2>1. ASSUME bound' = bound PROVE BoundKnown'
    BY <1>3, <2>1 DEF LedgerKnown, BoundKnown, CodesStand
  <2>2. ASSUME bound' = NoCustomer PROVE BoundKnown'
    BY <2>2 DEF BoundKnown
  <2>3. ASSUME at = "apply", ChallengeSatisfies(pending.id, Subject), bound' = pending.customer
        PROVE  BoundKnown'
    <3>1. pending.id \in Intents BY <1>2, <2>3 DEF RequestKnown, Idle
    <3>2. earned[pending.id] = pending.customer
      BY <2>3, <3>1 DEF ChallengeSatisfies, CodesKnown, CodeKnown, Subject
    <3> QED BY <1>3, <2>3, <3>1, <3>2 DEF BoundKnown, CodesStand
  <2> QED BY <2>1, <2>2, <2>3, StepIsBindingStep DEF BindingStep, context
<1> DEFINE Row(e) == /\ e.id <= minted
                     /\ RequiredLevel(e.family) = 2 =>
                           e.owner = e.customer /\ Allowed(e.customer, e.by)
           Spent(a) == \A i \in Intents : i <= a.id => proofs[i].left = 0
<1>5. ASSUME NEW e \in effects PROVE Row(e)'
  <2>1. minted' \in {minted, minted + 1}
    BY StepIsMove DEF EffectMove, ProfileWritten, RefundStarted, RefundEnded, OutcomeTaken,
                      RequestMove, Begun, GoesOn, Ended
  <2>2. e.id <= minted' BY <1>1, <2>1 DEF LedgerKnown
  <2>3. e.by \in SUBSET Intents BY <1>1 DEF Rows
  <2> QED BY <1>3, <2>2, <2>3 DEF LedgerKnown, Allowed, CodesStand
<1>6. ASSUME at' # "terminal" => at # "terminal" /\ \A a \in effects :
                a.family = "contact" /\ (pending' # NoPending => a.id # pending'.id) =>
                    \/ Spent(a)'
                    \/ /\ proofs' = proofs /\ (pending # NoPending => a.id # pending.id),
             effects' = effects,
             pending' # NoPending => \A e \in effects : e.id = pending'.id => e.family = pending'.family
      PROVE  LedgerKnown'
  <2>1. ContactChangeRevokes' BY <1>6 DEF LedgerKnown, ContactChangeRevokes
  <2>2. at' # "terminal" =>
          \A a \in effects : a.family = "contact" /\ (pending' # NoPending => a.id # pending'.id) =>
              Spent(a)'
    BY <1>6 DEF LedgerKnown
  <2> QED BY <1>4, <1>5, <1>6, <2>1, <2>2 DEF LedgerKnown
(* The row that a step adds, and the rows it joins.                         *)
<1>7. ASSUME NEW row, row.id \in Nat, effects' = effects \cup {row}, Row(row)',
             UNCHANGED <<pending, proofs>>, at' = "terminal" <=> at = "terminal",
             pending # NoPending => row.id = pending.id /\ row.family = pending.family,
             \A a \in effects : a.family = "contact" /\ a.id < row.id =>
                 \A i \in row.by : i > a.id,
             row.family = "contact" => row.id = minted /\ pending # NoPending
      PROVE  LedgerKnown'
  <2>1. ContactChangeRevokes'
    <3>1. SUFFICES ASSUME NEW a \in effects', NEW b \in effects', a.family = "contact",
                          a.id < b.id
                   PROVE  \A i \in b.by : i > a.id
      BY DEF ContactChangeRevokes
    <3>2. CASE a \in effects /\ b \in effects
      BY <3>1, <3>2 DEF LedgerKnown, ContactChangeRevokes
    <3>3. CASE a \in effects /\ b = row
      BY <1>7, <3>1, <3>3
    <3>4. CASE a = row
      <4>1. b.id <= minted BY <1>1, <1>7, <3>1, <3>4 DEF LedgerKnown
      <4> QED BY <1>1, <1>7, <3>1, <3>4, <4>1
    <3> QED BY <1>7, <3>2, <3>3, <3>4
  <2>2. at' # "terminal" =>
          \A a \in effects' : a.family = "contact" /\ (pending' # NoPending => a.id # pending'.id) =>
              Spent(a)'
    BY <1>7 DEF LedgerKnown
  <2>3. pending' # NoPending =>
           \A e \in effects' : e.id = pending'.id => e.family = pending'.family
    BY <1>7 DEF LedgerKnown
  <2> QED BY <1>4, <1>5, <1>7, <2>1, <2>2, <2>3 DEF LedgerKnown
<1> HIDE DEF Row, Spent
<1>8. CASE ProfileWritten
  <2> DEFINE row == Effect(pending.id, pending.family, pending.customer, Proven)
  <2>1. /\ pending # NoPending /\ at = "place" /\ at' = "finish" /\ bound = pending.customer
        /\ Proven # {} /\ pending.family \in Profile
        /\ effects' = effects \cup {row}
        /\ pending' = pending /\ proofs' = proofs /\ earned' = earned /\ minted' = minted
    BY <1>8 DEF ProfileWritten, RequestKnown, Idle, verification
  <2>2. /\ row.id = pending.id /\ row.family = pending.family /\ row.customer = pending.customer
        /\ row.owner = bound /\ row.by = Proven
    BY DEF Effect
  <2> HIDE DEF row
  <2>3. PICK r : r = row /\ r.id = minted /\ r.owner = r.customer
                 /\ Allowed(r.customer, r.by) /\ r.by = Proven
    BY <1>2, <2>1, <2>2, ProvenIsEarned
  <2>4. Row(r)' BY <1>1, <2>1, <2>3 DEF Row, Allowed
  <2>5. ASSUME NEW a \in effects, a.family = "contact", a.id < r.id, NEW i \in r.by
        PROVE  i > a.id
    <3>1. \A j \in Intents : j <= a.id => proofs[j].left = 0
      BY <1>1, <1>2, <2>1, <2>3, <2>5 DEF LedgerKnown
    <3>2. i \in Intents /\ proofs[i].left > 0 BY <2>3, <2>5 DEF Proven, Authorizing
    <3> QED BY <1>1, <3>1, <3>2 DEF Intents
  <2> QED BY <1>1, <1>2, <1>7, <2>1, <2>2, <2>3, <2>4, <2>5 DEF Intents
<1>9. CASE RefundStarted
  <2>1. /\ effects' = effects /\ pending' = pending /\ proofs' = proofs
        /\ at = "place" /\ at' = "effect"
    BY <1>9 DEF RefundStarted, verification
  <2> QED BY <1>6, <2>1 DEF LedgerKnown
<1>10. CASE RefundEnded
  <2>1. /\ pending' = pending /\ proofs' = proofs /\ earned' = earned /\ minted' = minted
        /\ at' = at /\ thread.state = "running"
    BY <1>10 DEF RefundEnded, verification
  <2>2. thread \in ThreadRecord /\ thread # NoThread
    BY <1>1, <2>1, EmptyNames
  <2>3. CASE effects' = effects
    BY <1>6, <2>1, <2>3 DEF LedgerKnown
  <2>4. CASE effects' = effects
                \cup {Effect(thread.id, thread.family, thread.customer, thread.by)}
    <3> DEFINE row == Effect(thread.id, thread.family, thread.customer, thread.by)
    <3>0. /\ row.id = thread.id /\ row.family = thread.family /\ row.owner = bound
          /\ row.customer = thread.customer /\ row.by = thread.by
      BY DEF Effect
    <3> HIDE DEF row
    <3>1. PICK r : /\ r = row
                   /\ r.id = thread.id /\ r.family = thread.family /\ r.owner = bound
                   /\ r.customer = thread.customer /\ r.by = thread.by
      BY <3>0
    <3>2. r.id \in Nat /\ r.id <= minted /\ r.family \in Refund
      BY <2>2, <3>1 DEF ThreadRecord, ThreadKnown, Intents
    <3>3. RequiredLevel(r.family) = 2 => r.owner = r.customer /\ Allowed(r.customer, r.by)
      BY <2>1, <3>1, <3>2 DEF ThreadKnown, Refund, RequiredLevel
    <3>4. Row(r)' BY <2>1, <3>2, <3>3 DEF Row, Allowed
    <3>5. r.family # "contact" BY <3>2 DEF Refund
    <3>6. pending # NoPending => r.id = pending.id /\ r.family = pending.family
      BY <2>2, <3>1 DEF ThreadKnown, RequestKnown, Idle
    <3>7. \A a \in effects : a.family = "contact" /\ a.id < r.id => \A i \in r.by : i > a.id
      BY <2>1, <3>1 DEF ThreadKnown
    <3> QED BY <1>7, <2>1, <2>4, <3>1, <3>2, <3>4, <3>5, <3>6, <3>7 DEF row
  <2> QED BY <1>10, <2>3, <2>4 DEF RefundEnded
<1>11. CASE OutcomeTaken
  <2>1. /\ effects' = effects /\ proofs' = proofs /\ at # "terminal"
        /\ (at' = "terminal" /\ pending' = NoPending) \/ pending' = pending
    BY <1>11 DEF OutcomeTaken, verification
  <2> QED BY <1>6, <2>1 DEF LedgerKnown
<1>12. CASE RequestMove
  <2>1. effects' = effects BY <1>12 DEF RequestMove
  (* What is spent stays spent but for the proof of the pending request.    *)
  <2>2. ASSUME NEW a \in effects, a.family = "contact", at # "terminal",
               pending # NoPending => a.id # pending.id
        PROVE  Spent(a)'
    <3>1. \A i \in Intents : i <= a.id => proofs[i].left = 0
      BY <2>2 DEF LedgerKnown
    <3>2. a.id <= minted BY DEF LedgerKnown
    <3> QED BY <1>1, <1>2, <1>3, <2>2, <3>1, <3>2 DEF Spent, CodesStand, Intents
  <2>3. CASE Begun
    <3>1. at # "terminal" /\ pending = NoPending /\ pending'.id = minted + 1
      BY <2>3 DEF Begun, RequestKnown, Idle
    <3>2. \A e \in effects : e.id # pending'.id BY <1>1, <3>1 DEF LedgerKnown
    <3> QED BY <1>6, <2>1, <2>2, <3>1, <3>2
  <2>4. CASE GoesOn
    <3>1. /\ pending' = NoPending <=> pending = NoPending
          /\ pending'.id = pending.id /\ pending'.family = pending.family
          /\ at' # "terminal" => at # "terminal"
      BY <2>4 DEF GoesOn, Idle
    <3> QED BY <1>6, <2>1, <2>2, <3>1 DEF LedgerKnown
  <2>5. CASE Ended
    <3>1. pending' = NoPending /\ (at' # "terminal" => at # "terminal")
      BY <2>5 DEF Ended
    <3>2. ASSUME NEW a \in effects, a.family = "contact", at' # "terminal"
          PROVE  Spent(a)'
      <4>1. CASE pending # NoPending => a.id # pending.id
        BY <2>2, <3>1, <3>2, <4>1
      <4>2. CASE pending # NoPending /\ a.id = pending.id
        <5>1. Committed(pending.id) /\ pending.family = "contact"
          BY <3>2, <4>2 DEF Committed, LedgerKnown
        <5>2. Node \in {"finish", "effect"} \/ at = "takeover"
          BY <4>2, <5>1 DEF ToldKnown
        <5>3. \A i \in Intents : proofs'[i] = NoProof
          BY <2>5, <3>2, <5>1, <5>2 DEF Ended, Node
        <5> QED BY <5>3, EmptyNames DEF Spent
      <4> QED BY <4>1, <4>2
    <3> QED BY <1>6, <2>1, <3>1, <3>2
  <2> QED BY <1>12, <2>3, <2>4, <2>5 DEF RequestMove
<1> QED BY <1>8, <1>9, <1>10, <1>11, <1>12, StepIsMove DEF EffectMove

-----------------------------------------------------------------------------
(* The theorems.                                                            *)

LEMMA InitIInv == Init => IInv
<1> SUFFICES ASSUME Init PROVE IInv OBVIOUS
<1>1. VerificationTypeOK
  BY DEF Init, VerificationInit, VerificationTypeOK
<1>2. TypeOK
  BY <1>1, VerificationAssumption, CallerAssumption DEF Init, TypeOK, Nobody, Nodes
<1>3. RequestKnown
  BY EmptyNames DEF Init, RequestKnown, Node, Idle, Protected, Profile, Refund
<1>4. CodesKnown
  BY EmptyNames, VerificationAssumption
  DEF Init, VerificationInit, CodesKnown, CodeKnown, Unused
<1>5. ThreadKnown BY EmptyNames DEF Init, ThreadKnown
<1>6. LedgerKnown BY DEF Init, LedgerKnown, BoundKnown, ContactChangeRevokes
<1>7. ToldKnown BY DEF Init, ToldKnown, TruthTold, Node
<1> QED BY <1>2, <1>3, <1>4, <1>5, <1>6, <1>7 DEF IInv

LEMMA StepIInv == IInv /\ [Next]_vars => IInv'
BY StepKeepsType, StepKeepsRequestKnown, StepKeepsCodesKnown, StepKeepsThreadKnown,
   StepKeepsLedgerKnown, StepKeepsToldKnown DEF IInv

LEMMA IInvAlways == Spec => []IInv
BY InitIInv, StepIInv, PTL DEF Spec

(* Every variable keeps its type, whatever fails or is cancelled.           *)
THEOREM ProtectedTypeCorrect == Spec => []TypeOK
<1>1. IInv => TypeOK BY DEF IInv
<1> QED BY <1>1, IInvAlways, PTL

(* Whoever is bound, changed or refunded had their own code read back in    *)
(* this call, no proof outlives a change of the contact it was sent to, and *)
(* no challenge answers more codes than it may (apply_node,                 *)
(* profile_place_node, place_node, finish_profile_change,                   *)
(* OtpProvider.verify), for any number of customers, intents and faults.    *)
THEOREM AuthorityAlwaysEarned == Spec => []AuthorityEarned
<1>1. IInv => AuthorityEarned
  <2>1. IInv => EffectsAuthorized
    BY DEF IInv, LedgerKnown, BoundKnown, Allowed, EffectsAuthorized
  <2>2. IInv => ContactChangeRevokes BY DEF IInv, LedgerKnown
  <2>3. IInv => AttemptsBounded BY DEF IInv, CodesKnown, CodeKnown, AttemptsBounded
  <2> QED BY <2>1, <2>2, <2>3 DEF AuthorityEarned
<1> QED BY <1>1, IInvAlways, PTL

(* What the caller was told of a change or a refund is and stays true,      *)
(* also when the turn was cancelled with the refund in its thread (recover, *)
(* reconcile_effect, _take_over_cancelled_stream).                          *)
THEOREM TruthAlwaysTold == Spec => []TruthTold
<1>1. IInv => TruthTold BY DEF IInv, ToldKnown
<1> QED BY <1>1, IInvAlways, PTL

(* An exchange of the principal ends with the new account bound and only    *)
(* its own proof fresh, or with nobody bound and automation over            *)
(* (transition_principal, inspect_principal_transition,                     *)
(* invalidate_principal_transition).                                        *)
THEOREM ExchangesAreAllOrNothing == Spec => ExchangeIsAllOrNothing
<1>1. IInv /\ [Next]_vars =>
        [transition # NoTransition /\ transition' = NoTransition =>
          \/ /\ at' = "rest"
             /\ bound' = transition.customer
             /\ Grants' = {transition.id}
          \/ at' = "terminal" /\ bound' = NoCustomer]_vars
  <2> SUFFICES ASSUME IInv, [Next]_vars, transition # NoTransition, transition' = NoTransition
               PROVE  \/ at' = "rest" /\ bound' = transition.customer /\ Grants' = {transition.id}
                      \/ at' = "terminal" /\ bound' = NoCustomer
    OBVIOUS
  <2>1. at # "apply" BY DEF IInv, RequestKnown
  <2>2. UNCHANGED verification => Grants' = Grants BY DEF verification, Grants
  <2> QED BY <2>1, <2>2, StepIsBindingStep DEF BindingStep, Coherent, context
<1> QED BY <1>1, IInvAlways, PTL DEF Spec, ExchangeIsAllOrNothing
=============================================================================
