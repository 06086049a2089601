SPECIFICATION Spec
CONSTANT Requests = {1, 2, 3}
PROPERTY DrainsBeforeReturn
CHECK_DEADLOCK FALSE
