CONSTANT Caller = {c1, c2}
CHECK_DEADLOCK FALSE
SPECIFICATION FairCallSpec
INVARIANTS TrueMeansDone DescriptorsClosed
PROPERTY CallsReturn
