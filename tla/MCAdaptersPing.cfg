SPECIFICATION Spec
CONSTANTS
  Letters = {"a"}
  NativeIds = {1, 2}
  Tools <- TwoTools
  NamedTool <- TheTool
  Undeclared <- OtherName
  MaxCalls = 2
  MaxName = 3
  MaxBlocks = 2
PROPERTIES
  KeepaliveIgnored
