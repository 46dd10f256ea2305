--------------------------- MODULE MCClientManager ---------------------------
EXTENDS ClientManager, TLC

CONSTANTS s1, s2, b1, b2

MCServers == {s1, s2}
MCBusids == {b1, b2}

\* Each server exports a device with its own bus-id.
MCExportsDistinct == {<<s1, b1>>, <<s2, b2>>}

\* One server exports two devices; the other exports none.
MCExportsOneServer == {<<s1, b1>>, <<s1, b2>>}

\* Neither server nor the client uses TLS; s2 runs a newer major version.
MCServerTls == [s \in MCServers |-> FALSE]
MCServerMajorNewer == (s1 :> 0) @@ (s2 :> 1)
MCServerMajorSame == [s \in MCServers |-> 0]

\* Both servers export a device on bus-id b1.
MCExportsShared == {<<s1, b1>>, <<s2, b1>>}
====
