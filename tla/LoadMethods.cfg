SPECIFICATION FairSpec
CONSTANTS
  Images = {"lib", "one", "two", "three", "cat", "plain"}
  ClassList <- MCClassList
  CategoryList <- MCCategoryList
  super <- MCsuper
  class_of <- MCclass_of
  HasLoad = {"A", "B", "C", "D", "E"}
  Needs <- MCNeeds
  Bundles = {"one", "two", "three", "cat"}
  nil = "nil"
  Dangling = "dangling"
  MaxMaps = 9
INVARIANTS LoadOrder
PROPERTIES EachIsCalled
CHECK_DEADLOCK FALSE
