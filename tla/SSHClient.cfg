\* A client whose SFTP session, file and request escape from the body.  The
\* system may stop: after a call whose client was not given out there is
\* nothing to do.
CONSTANTS
    Session = Session
    SSHChannelID = {}
    SFTPClientID = {s1}
    FileUUID = {f1}
    DirectoryUUID = {}
    AioUUID = {a1}
    HostKey = {k1, k2}
    NoKey = NoKey
SPECIFICATION ClientSpec
INVARIANTS ClientTypeOK CredentialsToExpected EndedIsFreed
PROPERTIES CallArrives
CHECK_DEADLOCK FALSE
