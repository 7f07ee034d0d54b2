SPECIFICATION Spec
CONSTANTS
  Cards <- MCCards
  MaxTyped = 1
  MaxWaiting = 2
INVARIANTS PinIsHonest TxIsTwoStages LossIsRemembered
