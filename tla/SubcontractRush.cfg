CONSTANTS
    Deals <- MCDeals
    Talks <- MCTalks
    MaxDup = 1
    GcJobs <- MCGcJobs
    Errands <- MCErrands
    NoRfq = NoRfq
    AdJobs = {J1, J2, J3}
    AdRequests <- MCAdRequests
    AdSlots <- MCAdSlots
    AdHorizon = 3
    NoQuote = NoQuote
    Slot1 = Slot1
    Slot2 = Slot2
    J1 = J1
    J2 = J2
    J3 = J3
SPECIFICATION GcMCSpec
INVARIANT RushIsSourced
CHECK_DEADLOCK FALSE
