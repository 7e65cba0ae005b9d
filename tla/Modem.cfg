CONSTANTS
    MaxText  = 2
    MaxBytes = 1
SPECIFICATION Spec
INVARIANTS TypeOK Conserved SshInOrder CarriedOver SidesAgree
PROPERTIES PipeInOrder ByteKept AtariHeard Drained
