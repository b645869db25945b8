----------------------------- MODULE MCRealtime -----------------------------
(* A courier's room and the room of one shipment; a courier's socket.        *)
EXTENDS Realtime

CONSTANTS c1, courierRoom, shipmentRoom, p1, p2, p3

\* p1 and p2 are status changes, p3 is an assignment
MCRoomsOf == [p \in {p1, p2, p3} |-> IF p = p3 THEN <<courierRoom>>
                                               ELSE <<courierRoom, shipmentRoom>>]
MCDefaultRooms == [c \in {c1} |-> <<courierRoom>>]
=============================================================================
