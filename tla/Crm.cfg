SPECIFICATION Spec
CONSTANTS
  first = first
  again = again
  second = second
  formA = formA
  formB = formB
  anna = anna
  boris = boris
  Attempts <- MCAttempts
  Keys = {formA, formB}
  Phones = {anna, boris}
  KeyOf <- MCKeyOf
  PhoneOf <- MCPhoneOf
  Stages = {new, call, done}
  Entry = new
  NoStage = nostage
  NoPhone = nophone
  Admins = {d1, d2}
  MaxDecisions = 3
SYMMETRY AdminSymmetry
INVARIANTS
  RepeatIsMarked
  BoardHoldsWork
  LeadHasCard
PROPERTIES ImplementsIntake
CHECK_DEADLOCK FALSE
