------------------------- MODULE MCNotificationList -------------------------
(* Instances of NotificationList for model checking.  Events and entries are *)
(* model values of the configuration.                                        *)
EXTENDS NotificationList
=============================================================================
