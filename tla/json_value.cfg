\* Every call of Json::Value in every order, on every number of its two widths and
\* on arrays and objects with gaps.
SPECIFICATION Spec
CONSTANTS
  IntWord = 4
  LargeWord = 20
  Name <- MCName
  Bad = Bad
  Plain = Plain
  Given <- MCGiven
  Compared <- MCCompared
  Element <- MCElement
  MaxIndex = 3
  MaxNesting = 2
INVARIANTS OrderIsTotal ConvertibleConverts IntegersConvertExactly
INVARIANTS  EditsAsASequence
