CONSTANT Commands <- AllButDelete
CHECK_DEADLOCK FALSE
SPECIFICATION Spec
INVARIANTS WriteNeedsRoot DryRunWritesNothing DestructiveConfirmed PreviewSucceeds
