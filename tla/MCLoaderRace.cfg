SPECIFICATION Spec
CONSTANT NumProcesses = 2
INVARIANT DistinctPids
