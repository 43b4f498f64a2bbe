SPECIFICATION Spec
CONSTANT Absent = Absent
INVARIANTS
    VerdictsEvidenced
    BaselineSound
CHECK_DEADLOCK FALSE
