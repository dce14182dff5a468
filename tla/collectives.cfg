\* All algorithms; contexts that share channels; a throttled world.
SPECIFICATION Spec
CONSTANTS
  five = five
  three = three
  world = world
  kid = kid
  twin = twin
  sub = sub
  Ctx <- Contexts
  Members <- Parties
  Program <- Programs
  Together <- UsedTogether
  Window <- Windows
INVARIANTS
  KeysClean
  BarrierSafe
  ResultCorrect
PROPERTY AllReturn
