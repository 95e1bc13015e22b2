CONSTANTS
  None = None
  Texts <- EventTexts
SPECIFICATION DispatchSpec
INVARIANTS DispatchTypeOK SuccessIsTrue AnsweredAsDescribed RefusedUnchanged FirstEventWhole
