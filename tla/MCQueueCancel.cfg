SPECIFICATION Spec
CONSTANT MaxFaults = 1
PROPERTY CancelIsForGood
