------------------------- MODULE MCNotificationDelivery -------------------------
(* Two analyses of one material and one of another.                        *)
EXTENDS NotificationDelivery, TLC

CONSTANTS a1, a2, b, none

Reposts == <<a1, a2, b>>
RepostMaterial == a1 :> "A" @@ a2 :> "A" @@ b :> "B"
=============================================================================
