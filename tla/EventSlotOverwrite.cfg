\* Two posting calls; the second may replace the event of the first.
SPECIFICATION Spec
CONSTANTS
    Posts = {p1, p2}
    Exit = exit
    Empty = empty
PROPERTIES NoOverwrite
