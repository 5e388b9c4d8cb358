SPECIFICATION Spec
CONSTANTS
    b1 = b1
    Bookings = {b1}
    Statuses = {"confirmed", "cancelled"}
    Stays = {"room", "no room"}
    Roomless = {"no room"}
    Details = {"d1", "d2"}
    Revisions <- MCRevisions
    Overrides = {"cancelled"}
    MaxRevisions = 3
    MaxWebhooks = 1
    MaxCrashes = 1
    MaxSwitches = 2
INVARIANTS TypeOK MissedKnowingly CopyIsOneRevision
PROPERTIES RefreshIsCurrent
CHECK_DEADLOCK FALSE
