\* Votes signed with an Amino signer.
CONSTANT DecDigits = 2
SPECIFICATION Spec
INVARIANT VotesAreAccepted
CHECK_DEADLOCK FALSE
