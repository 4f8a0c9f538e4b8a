\* Two requests at a time in each part.  One person is enough where the rows
\* belong to one; the counters allow each race to happen once and be repaired.
SPECIFICATION Spec
CONSTANTS
    Workers = {w1, w2}
    Emails = {ann}
    Passwords = {p1, p2}
    MaxCodes = 2
    OtpMaxAttempts = 2
    Users = {ann}
    MaxTokens = 3
    MaxChanges = 2
    Contacts = {ann}
    MaxApplications = 2
    MaxKopdes = 2
    MaxDismissals = 1
    People = {ann}
    Villages = {v1, v2}
    MaxAddresses = 3
    Villagers = {ann, bob}
    MaxSupports = 4
    Buyers = {ann}
    MaxStaff = 2
    MaxMessages = 1
    Critics = {ann, bob}
    Ratings = {1, 2}
    Slots = {logo, banner}
    Logo = logo
    MaxPictures = 3
INVARIANTS
    AttemptsBounded
    RotatedOnce
    SessionsFollowPassword
    FoundedOnce
    ApprovedStands
    VerifiedAtHome
    OneMainAddress
    OrdersKeepAddress
    ThreadsFollowStaff
    PicturesStored
    SupportFollowsTaps
PROPERTIES
    AccountKept
    MembersStay
\* The counters run out, and a deleted account has nothing left to do.
CHECK_DEADLOCK FALSE
