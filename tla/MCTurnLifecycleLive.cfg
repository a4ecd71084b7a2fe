CONSTANT MaxInputs = 3
SPECIFICATION FairSpec
PROPERTY SteeringSettles
