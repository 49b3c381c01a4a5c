SPECIFICATION ConversationSpec
CONSTANTS
    NONE = NONE
    Deliveries = 3
    Registered = {"place_order", "refund_order", "modify_cart", "list_orders", "view_cart", "verify_order_status", "verify_identity", "request_person", "search_catalog", "answer_question", "view_identity_status", "converse"}
    Proposals = {"place_order", "refund_order", "modify_cart", "list_orders", "view_cart", "verify_order_status", "verify_identity", "request_person", "search_catalog", "answer_question", "view_identity_status", "converse", "switch_account"}
    MaxReasks = 1
    MaxFaults = 3
    Nil = Nil
    oA = oA
    oP = oP
    c1 = c1
    c2 = c2
    i1 = i1
    i2 = i2
    Orders = {oA, oP}
    Items = {i1, i2}
    Customers = {c1, c2}
    Owner <- MCOwner
    Placed = {oP}
    Profiles = {c1}
    Instruments = {c1}
    Factors = {c1, c2}
    Quantities = {0, 1}
    Amounts = {1}
    Destinations = {"original", "new_instrument"}
    SlotReasks = 2
    MaxFacts = 2
    MaxRequests = 2
    MaxTurns = 4
    MaxDelistings = 1
INVARIANTS
    ConsentFollowsReadback
    DeclineStands
    TurnActsOnce
    EffectsAreGrounded
    AnsweredQuestionsSuffice
PROPERTIES
    FixedSlotsStand
SYMMETRY Symmetry
CHECK_DEADLOCK FALSE
