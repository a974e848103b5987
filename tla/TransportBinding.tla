--------------------------- MODULE TransportBinding ---------------------------
(* How a serial is located in a transport inventory (adb/transport/binding.py,*)
(* devices/adapters.py). A snapshot is the sequence of rows of one frame of   *)
(* the tracker: records with a serial, a connection state and a transport id. *)
EXTENDS Naturals, Sequences

Matches(serial, snapshot) == SelectSeq(snapshot, LAMBDA row : row.serial = serial)

StatusOf(matches) ==
    IF matches = <<>> THEN "absent"
    ELSE IF Len(matches) = 1 THEN "resolved"
    ELSE "ambiguous"

ResolveTransportBinding(serial, snapshot) ==
    [status |-> StatusOf(Matches(serial, snapshot)), matches |-> Matches(serial, snapshot)]

(* The property row: only for a resolved binding.                             *)
Row(resolution) == resolution.matches[1]
==============================================================================
