SPECIFICATION Spec
CONSTANTS MaxRefreshes = 2
PROPERTIES LateFieldSetBeforeRead
CHECK_DEADLOCK FALSE
