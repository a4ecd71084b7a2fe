CONSTANT MaxInputs = 2
SPECIFICATION Spec
INVARIANT GateCoversInFlight
