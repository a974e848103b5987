-------------------------------- MODULE MCKernel --------------------------------
(* The parts of the kernel that share no state with one another, each behind  *)
(* its own choice of the first step: one run of TLC explores them all.        *)
EXTENDS AdbClient, AdbProto, AndroidDumps, Frames

VARIABLE part   \* "client", "proto", "dumps" or "frames"

kernelVars == <<part, clientVars, protoVars, dumpVars, frameVars>>

(* A service of the client is chosen before the first step; the other parts   *)
(* begin in their one initial state.                                          *)
KernelInit ==
    /\ ClientInit /\ ProtoInit /\ DumpInit /\ FramesInit
    /\ \/ part = "client"
       \/ part \in {"proto", "dumps", "frames"} /\ service = "query"

KernelNext ==
    /\ UNCHANGED part
    /\ \/ part = "client" /\ ClientNext /\ UNCHANGED <<protoVars, dumpVars, frameVars>>
       \/ part = "proto" /\ ProtoNext /\ UNCHANGED <<clientVars, dumpVars, frameVars>>
       \/ part = "dumps" /\ DumpNext /\ UNCHANGED <<clientVars, protoVars, frameVars>>
       \/ part = "frames" /\ FramesNext /\ UNCHANGED <<clientVars, protoVars, dumpVars>>

KernelSpec == KernelInit /\ [][KernelNext]_kernelVars

(* An answer about the device or the server is complete and exact: the bytes  *)
(* of a call (AdbClient), the fields of a report (AdbProto), the facts in a   *)
(* text, with the exceptions that InspectionExact names (AndroidDumps);       *)
(* client.py 88-149, proto.py 33-185, _*_parsers.py.                          *)
AnswersExact == ReplyComplete /\ ReportExact /\ InspectionExact

MCOkay == <<20, 20>>
MCFail == <<21, 21>>
MCPayloads == {<<>>, <<1, 0, 1>>}
MCDetails == {<<>>, <<11, 12>>, <<12>>, <<13>>, <<30>>}
MCScripts == {<<>>, <<<<1, <<5>>>>, <<2, <<6>>>>, <<1, <<7, 8>>>>, <<3, <<0>>>>>>,
              <<<<1, <<30>>>>, <<3, <<0>>>>>>, <<<<9, <<6>>>>, <<3, <<1>>>>>>, <<<<3, <<>>>>>>,
              <<<<3, <<0>>>>, <<3, <<0>>>>>>, <<<<1, <<5>>>>>>}

MCFixed == [w \in {1, 5} |-> IF w = 1 THEN 2 ELSE 1]
Device(serial, state, connection, speed, id) ==
    [serial |-> serial, state |-> state, connection_type |-> connection,
     negotiated_speed |-> speed, transport_id |-> id]
MCDevices == {Device(<<>>, 0, 0, 0, 0), Device(<<3>>, 9, 1, 63, 2), Device(<<4>>, 120, 0, -1, 3),
              Device(<<15>>, 0, 1, 0, 1), Device(<<3>>, 0, 0, -64, -2)}
MCStatuses ==
    [usb_backend : {0, 1}, usb_backend_forced : BOOLEAN, version : {<<>>, <<7>>},
     burst_mode : {<<>>}]
    \cup [usb_backend : {2}, usb_backend_forced : {TRUE}, version : {<<7>>, <<15>>},
          burst_mode : {<<FALSE>>, <<TRUE>>}]
MCUnknown == {<<13, 0, <<1>>>>, <<13, 1, <<8, 9>>>>, <<14, 2, <<9>>>>, <<15, 5, <<9>>>>,
              <<15, 3, <<>>>>}

MCLocations == {Rect(0, 0, 3, 2), Rect(1, 0, 2, 2), Rect(1, 1, 3, 1)}
MCRegions == {Rect(0, 0, 2, 2), Rect(1, 0, 1, 2), Rect(0, 1, 2, 1), Rect(0, 0, 1, 1),
              Rect(0, 0, 3, 2), Rect(1, 0, 5, 2)}
MCTargets == {Rect(1, 0, 5, 2), Rect(0, 2, 2, 5)}
==============================================================================
