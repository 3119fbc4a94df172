------------------------ MODULE MCNotificationDelivery ------------------------
(* The job handler and the retry queue. *)
EXTENDS NotificationDelivery

CONSTANTS handler, retryQueue

MCCallers == {handler, retryQueue}
=============================================================================
