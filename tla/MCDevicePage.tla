---------------------------- MODULE MCDevicePage ----------------------------
(* Rows and filters for checking DevicePage. *)
EXTENDS DevicePage

CONSTANTS Pc1, Pc2, Plain

MCRow(place, online) ==
    [place |-> place, online |-> online, favorite |-> FALSE, branch |-> Null, alias |-> Plain]
MCFirstRow == [d \in Device |-> IF d = Pc1 THEN MCRow("live", TRUE) ELSE MCRow("trash", FALSE)]
MCFilters == {AllDevices, [AllDevices EXCEPT !.trash = TRUE]}

=============================================================================
