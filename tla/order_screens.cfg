SPECIFICATION Spec
PROPERTIES ScreensCatchUp StepsFollowScreen
CHECK_DEADLOCK FALSE
