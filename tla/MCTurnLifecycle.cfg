CONSTANT MaxInputs = 4
SPECIFICATION Spec
INVARIANTS InterruptAlwaysOrders LineageMatchesOrder NoOrphanSteering SteeringInOrder InterruptedTurnStops
PROPERTY DispositionFinal
