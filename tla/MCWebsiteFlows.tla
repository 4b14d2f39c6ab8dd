--------------------------- MODULE MCWebsiteFlows ---------------------------
(* One flow key of one device, with one name.                              *)
EXTENDS WebsiteFlows

CONSTANTS f1, a1, w1

MCBoth == {"upload", "download"}
MCUpload == {"upload"}
MCFlows == {f1}
MCDevices == {a1}
MCNames == {w1}
MCDeviceOf == [f \in MCFlows |-> a1]
=============================================================================
