SPECIFICATION Spec
CONSTANTS
    Instances = {first, second}
    Profiles = {empty, lucid, apex}
    Empty = empty
    Absent = absent
    Garbled = garbled
    Keychain = TRUE
INVARIANTS BackupIsSound
PROPERTIES ImplementsRegister
