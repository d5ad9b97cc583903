---------------------- MODULE MCNotificationProjection ----------------------
EXTENDS NotificationProjection, TLC

HandlerSymmetry == Permutations(Handler)
=============================================================================
