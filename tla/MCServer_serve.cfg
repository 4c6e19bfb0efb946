SPECIFICATION Spec
CONSTANTS
    c1 = c1
    c2 = c2
    c3 = c3
    c4 = c4
    a1 = a1
    a2 = a2
    tcp = tcp
    unix = unix
    Conns <- Four
    Addresses = {a1, a2}
    NoAddress = NoAddress
    MaxConnections = 2
    MaxPerIp = 1
    AddressOf <- Origins
    Ports = {tcp, unix}
    PortOf <- Arrivals
    Handshakes = 2
INVARIANT PermitsFollow
INVARIANT PlacesSuffice
INVARIANT CloseIsFinal
PROPERTY EachIsServed
PROPERTY CloseEnds
CHECK_DEADLOCK FALSE
