CONSTANTS
  c1 = c1
  courierRoom = courierRoom
  shipmentRoom = shipmentRoom
  p1 = p1
  p2 = p2
  p3 = p3
  Publications = {p1, p2, p3}
  Rooms = {courierRoom, shipmentRoom}
  RoomsOf <- MCRoomsOf
  Clients = {c1}
  DefaultRooms <- MCDefaultRooms
  TrackingRooms = {shipmentRoom}
  Handlers = {h1}
  MAX_EVENTS_PER_ROOM = 2
  Unknown = Unknown
  MaxConnects = 2
SPECIFICATION Spec
CHECK_DEADLOCK FALSE
INVARIANTS
  RealtimeTypeOK
  BufferIsTailOfBroadcasts
  GapIsInFlight
