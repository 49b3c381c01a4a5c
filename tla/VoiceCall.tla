----------------------------- MODULE VoiceCall -------------------------------
(***************************************************************************)
(* A voice call seen from its two sides, checked side by side: the tasks   *)
(* that acquire, supervise and tear down a voice job (VoiceJob, for which  *)
(* turns are quiet or are not), and the turns, nodes and recoveries inside *)
(* the caller context they close (CallerContext, for which the session     *)
(* closes or does not).  They meet at the quiescence a close waits for:    *)
(* VoiceJob's Quiesce ends in each of the ways CallerContext works out.  A *)
(* behaviour follows one of the two, chosen at the start, so that their    *)
(* states add up and do not multiply.                                      *)
(***************************************************************************)
EXTENDS CallerContext, VoiceJob

VARIABLE side

voiceCallVars == <<side, vars, voiceVars>>

VoiceCallInit ==
    /\ side \in {"context", "job"}
    /\ Init /\ JobInit
    /\ side = "context" => kind = "network"

VoiceCallNext ==
    /\ side' = side
    /\ \/ side = "context" /\ Next /\ UNCHANGED voiceVars
       \/ side = "job" /\ JobNext /\ UNCHANGED vars

(* Each task of the job's event loop runs when it can, every await has a    *)
(* time limit, the reaper sweeps in a loop, and time passes.  A call may    *)
(* never be hung up: nothing makes ReapFires or ShutdownFires happen.       *)
OnJob(A) == side = "job" /\ A

JobFairness ==
    /\ WF_voiceVars(OnJob(Startup))
    /\ WF_voiceVars(OnJob(Supervisor))
    /\ WF_voiceVars(OnJob(RoomLeft))
    /\ WF_voiceVars(OnJob(DirectClose))
    /\ \A a \in Tasks : WF_voiceVars(OnJob(Teardown(a)))
    /\ WF_voiceVars(OnJob(Sweep))
    /\ WF_voiceVars(OnJob(Tick))

(* On the job's side no turn was admitted and no party ends the call: there *)
(* CallFairness asks for nothing.                                           *)
VoiceCallSpec ==
    /\ VoiceCallInit
    /\ [][VoiceCallNext]_voiceCallVars
    /\ CallFairness
    /\ JobFairness
=============================================================================
