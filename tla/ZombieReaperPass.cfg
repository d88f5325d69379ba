CONSTANTS
    u1 = u1
    u2 = u2
    u3 = u3
    u4 = u4
    Users <- MCUsers
    Name <- MCName
    JobExecIds <- MCJobExecIds
    Flaky = TRUE
SPECIFICATION Spec
PROPERTY NoLiveCredentialDeleted
