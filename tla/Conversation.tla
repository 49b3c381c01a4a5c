---------------------------- MODULE Conversation -----------------------------
(***************************************************************************)
(* The two halves of a conversation, checked side by side: how turns are   *)
(* admitted, routed and carried out (TurnRouting, which hides what an      *)
(* owner gathers), and how the owner that a turn reaches fills its typed   *)
(* request (RequestSlots, which hides deliveries and checkpoints).  They   *)
(* meet at the entry nodes: TurnRouting's CartEntry, SupportEntry and      *)
(* order-read nodes answer, ask, leave or freeze in each of the ways       *)
(* RequestSlots works out.  A behaviour follows one of the two, chosen at  *)
(* the start, so that their states add up and do not multiply; so are the  *)
(* quantity sources, which a cart change alone meets: with this_request    *)
(* the caller starts as a guest who has placed nothing.                    *)
(***************************************************************************)
EXTENDS TurnRouting, RequestSlots

VARIABLE half

conversationVars == <<half, vars, slotVars>>

ConversationInit ==
    /\ half \in {"routing", "slots"}
    /\ Init /\ SlotsInit
    /\ quantitySource = "this_request" => principal = Nil /\ mine = {}
    /\ half = "routing" =>
         quantitySource = "conversation" /\ principal = Nil /\ mine = {} /\ cart = {}

ConversationNext ==
    /\ half' = half
    /\ \/ half = "routing" /\ Next /\ UNCHANGED slotVars
       \/ half = "slots" /\ SlotsNext /\ UNCHANGED vars

ConversationSpec == ConversationInit /\ [][ConversationNext]_conversationVars
=============================================================================
