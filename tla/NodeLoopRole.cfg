SPECIFICATION Spec
CONSTANT MaxOwed = 3
INVARIANT PushedWhileAttached
