CONSTANTS
  NUM_HANDLES = 2
  GemHandles <- MCGemHandles
  Files = {f1}
  MaxLength = 2

SPECIFICATION Spec
INVARIANTS NoHandleLeaked GdbHandlesValid CopiesInOrder
