SPECIFICATION Spec
CONSTANT Writes <- MCWrites
INVARIANT HSyncAsCommented
