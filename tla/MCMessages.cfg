SPECIFICATION MessagesSpec
CONSTANTS
  NodeSize = 100
  ProxySize = 1024
  NameSizes = {24, 94, 95, 96, 97}
  ValueSizes = {1, 65, 66, 96, 97}
  DataSizes = {0, 69, 70, 992, 993, 994}
INVARIANTS Carried ErrorsDefined
