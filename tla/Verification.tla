----------------------------- MODULE Verification -----------------------------
(***************************************************************************)
(* One-time codes (commerce/verification.py): the provider, which owns the *)
(* challenges with their expiry and attempts, and the session's store,     *)
(* which knows the subject of each challenge and holds the proofs earned.  *)
(*                                                                         *)
(* A challenge is named by the intent whose attempt key it was dispatched  *)
(* with.  A code is named by the customer whose factor it was sent to, or  *)
(* NoCustomer when it is nobody's.  Expiries are countdowns.  Tenant and   *)
(* session are those of the call, and a customer has one factor, so a      *)
(* subject is a customer and a purpose; every proof raises to level 2.     *)
(*                                                                         *)
(* The actions are written with the provider's half apart: the store waits *)
(* for the provider between two halves, and a call cut short there leaves  *)
(* the provider changed and the store as it was.                           *)
(***************************************************************************)
EXTENDS Naturals

CONSTANTS
    Customers,     \* the customers of the merchant
    NoCustomer,    \* nobody
    MaxIntents,    \* bound: intents, and so challenges, of the call
    MaxAttempts,   \* otp_max_attempts
    ChallengeTtl,  \* challenge_ttl_seconds, in ticks
    ProofTtl       \* proof_ttl_seconds, in ticks

ASSUME CustomersAssumption == NoCustomer \notin Customers
ASSUME VerificationAssumption ==
    /\ MaxIntents \in Nat
    /\ MaxAttempts \in Nat \ {0}
    /\ ChallengeTtl \in Nat \ {0}
    /\ ProofTtl \in Nat \ {0}

VARIABLES
    challenges,    \* OtpProvider._challenges
    subjects,      \* VerificationStore._subjects_by_challenge
    proofs,        \* VerificationStore._proofs_by_challenge
    earned,        \* history: whose code verified each challenge
    misses         \* history: wrong codes counted against each challenge

verification == <<challenges, subjects, proofs, earned, misses>>
store == <<subjects, proofs>>

Intents == 1 .. MaxIntents
Purposes == {"identity", "profile", "refund"}

Subjects == [customer : Customers, purpose : Purposes]
NoSubject == [customer |-> NoCustomer, purpose |-> "none"]

(* left is what remains of the challenge, and once verified of its proof.   *)
Challenges ==
    [status : {"sent", "verified"}, subject : Subjects, remaining : 0 .. MaxAttempts,
     left : 0 .. ChallengeTtl \cup 0 .. ProofTtl]
NoChallenge == [status |-> "none", subject |-> NoSubject, remaining |-> 0, left |-> 0]

Proofs == [subject : Subjects, left : 0 .. ProofTtl]
NoProof == [subject |-> NoSubject, left |-> 0]

VerificationTypeOK ==
    /\ challenges \in [Intents -> Challenges \cup {NoChallenge}]
    /\ subjects \in [Intents -> Subjects \cup {NoSubject}]
    /\ proofs \in [Intents -> Proofs \cup {NoProof}]
    /\ earned \in [Intents -> Customers \cup {NoCustomer}]
    /\ misses \in [Intents -> Nat]

VerificationInit ==
    /\ challenges = [i \in Intents |-> NoChallenge]
    /\ subjects = [i \in Intents |-> NoSubject]
    /\ proofs = [i \in Intents |-> NoProof]
    /\ earned = [i \in Intents |-> NoCustomer]
    /\ misses = [i \in Intents |-> 0]

-----------------------------------------------------------------------------
(* The provider.                                                            *)

(* dispatch: idempotent by the attempt key.                                 *)
ProviderDispatch(i, subject) ==
    challenges' =
        IF challenges[i] # NoChallenge THEN challenges
        ELSE [challenges EXCEPT ![i] = [status |-> "sent", subject |-> subject,
                                        remaining |-> MaxAttempts, left |-> ChallengeTtl]]

(* The expected code is that of the factor of the challenge's subject.      *)
Matches(i, code) == code = challenges[i].subject.customer

(* An unverified challenge that can still be answered.                      *)
Answerable(i) ==
    /\ challenges[i].status = "sent"
    /\ challenges[i].left > 0
    /\ challenges[i].remaining > 0

(* The outcome of verify.  A verified challenge repeats its outcome for the *)
(* right code and conflicts with any other; the last wrong code exhausts.   *)
Outcome(i, code) ==
    LET c == challenges[i]
    IN IF c.status = "none" THEN "unknown"
       ELSE IF c.status = "verified" THEN IF Matches(i, code) THEN "verified" ELSE "conflict"
       ELSE IF c.left = 0 THEN "expired"
       ELSE IF c.remaining = 0 THEN "exhausted"
       ELSE IF Matches(i, code) THEN "verified"
       ELSE IF c.remaining = 1 THEN "exhausted" ELSE "mismatched"

(* verify: an attempt is charged before the codes are compared; the proof's *)
(* lifetime starts with the match and is never extended.                    *)
ProviderVerify(i, code) ==
    LET right == Answerable(i) /\ Matches(i, code)
    IN /\ challenges' =
              IF ~Answerable(i) THEN challenges
              ELSE [challenges EXCEPT ![i].remaining = @ - 1,
                                      ![i].status = IF right THEN "verified" ELSE @,
                                      ![i].left = IF right THEN ProofTtl ELSE @]
       /\ earned' = IF right THEN [earned EXCEPT ![i] = code] ELSE earned
       /\ misses' = IF Answerable(i) /\ ~right THEN [misses EXCEPT ![i] = @ + 1] ELSE misses

(* retain_only: every other challenge of the session is discarded.          *)
ProviderRetainOnly(retained) ==
    challenges' = [i \in Intents |-> IF i \in retained THEN challenges[i] ELSE NoChallenge]

-----------------------------------------------------------------------------
(* The store.                                                               *)

(* dispatch_otp.                                                            *)
DispatchOtp(i, subject) ==
    /\ ProviderDispatch(i, subject)
    /\ subjects' = [subjects EXCEPT ![i] = subject]
    /\ UNCHANGED <<proofs, earned, misses>>

(* verify_otp: a verified outcome mints the challenge's proof once, with    *)
(* the lifetime the provider gave it.                                       *)
VerifyOtp(i, code) ==
    /\ subjects[i] # NoSubject
    /\ ProviderVerify(i, code)
    /\ proofs' = IF Outcome(i, code) = "verified" /\ proofs[i] = NoProof
                   THEN [proofs EXCEPT ![i] = [subject |-> subjects[i],
                                               left |-> challenges'[i].left]]
                   ELSE proofs
    /\ UNCHANGED subjects

(* What verify_otp answers, given the proofs it leaves behind.              *)
VerifyStatus(i, code, after) ==
    IF Outcome(i, code) = "verified" /\ after[i].left = 0 THEN "expired" ELSE Outcome(i, code)

(* authorization_satisfies: the fresh proofs of the same customer and       *)
(* factor, whatever they were earned for.                                   *)
Authorizing(customer) ==
    {i \in Intents : proofs[i].left > 0 /\ proofs[i].subject.customer = customer}

(* challenge_satisfies: this very challenge, for this very subject.         *)
ChallengeSatisfies(i, subject) ==
    subjects[i] = subject /\ proofs[i].left > 0 /\ proofs[i].subject = subject

(* grants.                                                                  *)
Grants == {i \in Intents : proofs[i].left > 0}

(* retain_only(proof), and clear() for the empty set.                       *)
RetainOnly(retained) ==
    /\ ProviderRetainOnly(retained)
    /\ subjects' = [i \in Intents |-> IF i \in retained THEN subjects[i] ELSE NoSubject]
    /\ proofs' = [i \in Intents |-> IF i \in retained THEN proofs[i] ELSE NoProof]
    /\ UNCHANGED <<earned, misses>>

-----------------------------------------------------------------------------
(* clock(), read by the provider and by the store.                          *)
Less(n) == IF n = 0 THEN 0 ELSE n - 1

VerificationTick ==
    /\ challenges' = [i \in Intents |-> [challenges[i] EXCEPT !.left = Less(@)]]
    /\ proofs' = [i \in Intents |-> [proofs[i] EXCEPT !.left = Less(@)]]
    /\ UNCHANGED <<subjects, earned, misses>>
=============================================================================
