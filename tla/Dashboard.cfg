\* Two administrators and a third person, two requests at a time.  Two saves at a
\* time of two posts, by their author and by an administrator who publishes.
SPECIFICATION MCSpec
CONSTANTS
    a = a
    b = b
    c = c
    r1 = r1
    r2 = r2
    Member = {a, b, c}
    Request = {r1, r2}
    Update <- Updates
    Start <- Starts
    MaxRequests = 2
    MaxEvents = 1
    NumPosts = 2
    Editor = {author, admin}
    Admins = {admin}
    Publishers = {admin}
    Title = {title}
    Locale = {en, fr}
    Category = {c1}
    Status = {"draft", "published"}
    s1 = s1
    s2 = s2
    Saver = {s1, s2}
    MaxVersion = 3
    MaxSaves = 3
SYMMETRY Symmetry
INVARIANTS
    RevokedHasNothing
    AdministratorRemains
    OnlyLateAuditsDeadlock
    NoLostUpdate
    OnlyPublishersPublish
    AddressIsPermanent
CHECK_DEADLOCK FALSE
