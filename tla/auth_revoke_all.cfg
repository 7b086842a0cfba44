\* One user has three sessions, all of which are to be revoked.
CONSTANTS
    Users = {u1}
    MaxSessions = 5
    SessionTTL = 1
    MaxCreated = 3
    MaxNow = 1
SPECIFICATION AuthSpec
PROPERTY RevokeAllRevokes
CHECK_DEADLOCK FALSE
