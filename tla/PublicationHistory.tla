-------------------------- MODULE PublicationHistory --------------------------
(***************************************************************************)
(* What the merchant configuration repository promises its callers         *)
(* (the MerchantConfigurationRepository protocol of                        *)
(* management/repository.py): one append-only history of published         *)
(* contents, at most one of them being served, and for every request id at *)
(* most one effect, remembered for good.                                   *)
(***************************************************************************)
EXTENDS Naturals, Sequences, SequencesExt

CONSTANTS Requests, Contents

VARIABLES
    history,    \* the contents published so far, oldest first
    serving,    \* the index of the content being served, 0 for none
    answers     \* request id -> the index it published or withdrew, 0 for none

historyVars == <<history, serving, answers>>

Init ==
    /\ history = <<>>
    /\ serving = 0
    /\ answers = [q \in Requests |-> 0]

(* A publication, or a rollback that publishes an earlier content again, is *)
(* appended and served, and answers its request.                            *)
Publish(q) ==
    /\ answers[q] = 0
    /\ answers' = [answers EXCEPT ![q] = Len(history) + 1]
    /\ serving' = Len(history) + 1
    /\ Len(history') = Len(history) + 1
    /\ IsPrefix(history, history')
    /\ Last(history') \in Contents

Retire(q) ==
    /\ answers[q] = 0
    /\ serving # 0
    /\ serving' = 0
    /\ answers' = [answers EXCEPT ![q] = serving]
    /\ UNCHANGED history

Next ==
    \E q \in Requests : Publish(q) \/ Retire(q)

Spec == Init /\ [][Next]_historyVars
=============================================================================
