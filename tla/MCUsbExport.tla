----------------------------- MODULE MCUsbExport -----------------------------
EXTENDS UsbExport

CONSTANTS d1, d2

MCDevices == {d1, d2}

\* One bus may be disabled; the devices are interchangeable.
MCDisablable == {d1}
====
