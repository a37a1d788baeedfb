\* The compiler of interpreter V4 against its evaluator, and the front ends.
SPECIFICATION FairSpec
CONSTANTS
  Programs <- AllPrograms
  Spelling <- SpellV4
  GrammarSpelling <- SpellAll
  Decrements <- AllDecrements
  Fuel = 12
  MaxDepth = 6
  MaxOutput = 8
INVARIANTS
  TypeOK
  FrontEndsAgree
  ModuleIsWellFormed
PROPERTIES
  CompiledPrintsSame
