CONSTANTS
  Old = Old
  New = New
  Images <- MCImages
  Data <- MCData
  Len <- MCLen
  AreaSize = 6
  Page = 2
  Erased = Erased
  Zero = Zero
  Garbled = Garbled
  None = None
  Tasks = {t1}
  StalePages = TRUE
  ButtonStates = {"jump_to_application"}
SPECIFICATION Spec
PROPERTIES
  RestoresCompleteImage
