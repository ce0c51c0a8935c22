SPECIFICATION MinestomSpec
CONSTANTS
  c1 = c1
  c2 = c2
  stone = stone
  Names <- MCNames
  BiomeKeys <- MCBiomeKeys
  Cells <- MCCells
  MaxU16 = 7
  Callers <- MCCallers
  Made = {s1, s2}
  Given = {g1}
  Null = Null
  From <- MCFrom
  To <- MCTo
  Custom <- MCCustom
SYMMETRY MCSymmetry
INVARIANTS
  NoServerLost
  MadeAreOpen
  GeneratorHasServer
  BiomesShown
CHECK_DEADLOCK FALSE
