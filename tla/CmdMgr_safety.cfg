CONSTANTS
    Senders     = {t1, t2}
    PlainIds    = {"P"}
    DeferIds    = {"D"}
    ForceIds    = {"F"}
    IndIds      = {}
    ArraySize   = 4
    MaxQueued   = 2
    MaxCalls    = 3
    MaxTimeouts = 2
    MayRelease  = TRUE
SPECIFICATION Spec
SYMMETRY Symmetry
INVARIANT TypeOK ListIntact SlotOwned OnlyHeadPushed NoOops WaiterUntilCrash
          ConfirmMatchesHead
PROPERTY PushedInOrder
CHECK_DEADLOCK FALSE
