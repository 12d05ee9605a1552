SPECIFICATION Spec
CONSTANTS
  None = None
  Stacking = 2
  MaxMessages = 4
  Sessions <- AnySession
INVARIANTS TypeOK ActionsAreSerialized StackIsBounded StackHasNoGaps
PROPERTIES HoveredStays MessagesAreShown HiddenUnseenForPlace NotificationsEnd ClicksAreDispatched
CHECK_DEADLOCK FALSE
