\* Three attendees compete for a session of capacity 1 or 2.
CONSTANTS
    s1 = s1  a1 = a1  a2 = a2  a3 = a3  t1 = t1  k1 = k1
    Sessions <- OneSession
    Attendees <- ThreeAttendees
    Types <- OneType
    Tracks <- OneTrack
    NoTrack = NoTrack
    MaxCapacity = 2
SPECIFICATION SignupSpec
PROPERTIES CapacityRespected FormsStrandNobody ImplementsSeats
