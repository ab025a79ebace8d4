SPECIFICATION Spec
CONSTANT Writes <- MCWrites
INVARIANTS VgaTypeOK VisibleArea SyncInTheDark DrawsDisk
PROPERTY ScansInOrder
