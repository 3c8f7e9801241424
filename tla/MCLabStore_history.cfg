SPECIFICATION Spec
SYMMETRY Rows
CONSTANTS
  hostRoot = hostRoot
  hostPath = hostPath
  dots3 = dots3
  dots2 = dots2
  dots1 = dots1
  plain = plain
  Cookie = {dots3, dots2, dots1, plain, hostRoot}
  Key = {dots3, dots2, dots1, plain, hostRoot}
  KeyOf <- Same
  CloneOf <- DotLost
  Canonical <- DotLost
  Candidate <- Typed
  Row = {r1, r2}
  Filter <- AllOrPlain
  Input <- Pasted
  File <- Saved
  MaximumHistory = 2
 
PROPERTIES UndoRedoKeepTimeline NothingIsLost SelectionPresent
