SPECIFICATION GaeSpec
CONSTANT Posts = {q1, q2, q3, q4}
SYMMETRY Symmetry
CHECK_DEADLOCK FALSE
INVARIANTS KeptUntilSuperseded SupersededGone EmptyOnlyMidway
