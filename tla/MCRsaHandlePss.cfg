SPECIFICATION RsaSpec
CONSTANT
  MaxFaults = 0
PROPERTIES
  CrtHandleSignsChecked
