--------------------------- MODULE FrameDelivery ---------------------------
(***************************************************************************)
(* What a reader of QcUsb::read_message may rely on: frames come in the    *)
(* order in which the device sent them, each at most once; a frame that    *)
(* does not come had a report missing, and so had a frame that comes torn. *)
(***************************************************************************)
EXTENDS Naturals

VARIABLES
    sent,    \* frames the device has begun
    missed,  \* frames of which a report did not reach the host
    taken,   \* the frame the reader got last, 0: none
    intact   \* that frame is as the device sent it

deliveryVars == <<sent, missed, taken, intact>>

DeliveryInit == sent = 0 /\ missed = {} /\ taken = 0 /\ intact = TRUE

Send ==
    /\ sent' = sent + 1
    /\ UNCHANGED <<taken, intact>>

(* Reports get lost, of a frame that is being sent or of earlier ones.     *)
Miss ==
    /\ missed \subseteq missed'
    /\ missed' \subseteq missed \cup 1..sent'

Take(n) ==
    /\ n \in taken + 1 .. sent
    /\ taken + 1 .. n - 1 \subseteq missed
    /\ taken' = n
    /\ intact' = (n \notin missed)
    /\ UNCHANGED <<sent, missed>>

DeliveryNext ==
    \/ Send /\ Miss
    \/ Miss /\ UNCHANGED <<sent, taken, intact>>
    \/ \E n \in taken + 1 .. sent : Take(n)

DeliverySpec == DeliveryInit /\ [][DeliveryNext]_deliveryVars

=============================================================================
