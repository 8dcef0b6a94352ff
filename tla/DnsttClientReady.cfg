CONSTANT MaxClients = 1
SPECIFICATION ClientSpec
INVARIANT StartWaitsForListener
CHECK_DEADLOCK FALSE
