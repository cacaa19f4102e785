CONSTANTS
  i1 = i1  i2 = i2  i3 = i3
  Null = Null
  Irps = {i1, i2, i3}
  Key <- SomeKeys
  SortKeys = {2}
SPECIFICATION FairSpec
INVARIANTS TypeOK OneOwner CompletedGone
PROPERTY IrpCompletes
