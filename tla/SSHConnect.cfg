\* Enough addresses for one to be given up between two that are waited for.
CONSTANT Count = 4
SPECIFICATION Spec
INVARIANTS TypeOK OneDescriptor AddressesLive FailsOnlyWhenRefused
PROPERTIES AttemptEnds
CHECK_DEADLOCK FALSE
